---------------------------- MODULE PolicyPageProofs ----------------------------
(***************************************************************************)
(* Proofs about PolicyPage: its type invariant, and its safety from one     *)
(* inductive invariant.  What the page shows agrees with the database       *)
(* because of what holds while calls are on their way: a field that is not  *)
(* in doubt shows the value of every call on it, and the calls on a group   *)
(* are all creations, of which one succeeds, or all deletions.              *)
(***************************************************************************)
EXTENDS PolicyPage, TLAPS

Calls   == UpdateCalls \cup GroupCalls
Answers == {"ok", "text", "failed"}

(* A call that was answered or that has its row, or is no longer listened    *)
(* to, is a call.                                                            *)
LEMMA CallChanges ==
    ASSUME NEW c \in Calls
    PROVE  /\ c.id \in Nat /\ c.stage \in Stages /\ c.heard \in BOOLEAN
           /\ c.op = "update" => /\ c.on \in Fields /\ c.value \in Values
                                 /\ c.stage = "read" => c.row \in [Fields -> Values]
           /\ c.op # "update" => c.on \in Groups /\ c.stage # "read"
           /\ c.op \in {"update", "groupCreate", "groupDelete"}
           /\ \A s \in Answers : Answered(c, s) \in Calls
           /\ c.op = "update" => \A r \in [Fields -> Values] :
                  r # NoRow => [c EXCEPT !.stage = "read", !.row = r] \in Calls
           /\ [c EXCEPT !.heard = FALSE] \in Calls
    <1>1. CASE c \in UpdateCalls
        <2>1. \A s \in Answers : Answered(c, s) \in UpdateCalls
            BY <1>1 DEF UpdateCalls, Answered, Answers, Stages, RowsRead
        <2>2. \A r \in [Fields -> Values] :
                 r # NoRow => [c EXCEPT !.stage = "read", !.row = r] \in UpdateCalls
            BY <1>1 DEF UpdateCalls, Stages, RowsRead
        <2>3. [c EXCEPT !.heard = FALSE] \in UpdateCalls
            BY <1>1 DEF UpdateCalls
        <2> QED
            BY <1>1, <2>1, <2>2, <2>3 DEF Calls, UpdateCalls, RowsRead
    <1>2. CASE c \in GroupCalls
        <2>1. \A s \in Answers : Answered(c, s) \in GroupCalls
            BY <1>2 DEF GroupCalls, Answered, Answers, Stages
        <2> QED
            BY <1>2, <2>1 DEF Calls, GroupCalls
    <1> QED
        BY <1>1, <1>2 DEF Calls

(* What the changes leave as it is.                                          *)
LEMMA CallKept ==
    ASSUME NEW c \in Calls
    PROVE  /\ \A s : /\ Answered(c, s).id = c.id
                     /\ Answered(c, s).op = c.op
                     /\ Answered(c, s).on = c.on
                     /\ Answered(c, s).heard = c.heard
                     /\ Answered(c, s).stage = s
                     /\ c.op = "update" => Answered(c, s).value = c.value
           /\ c.op = "update" => \A r :
                     /\ [c EXCEPT !.stage = "read", !.row = r].id = c.id
                     /\ [c EXCEPT !.stage = "read", !.row = r].op = c.op
                     /\ [c EXCEPT !.stage = "read", !.row = r].on = c.on
                     /\ [c EXCEPT !.stage = "read", !.row = r].heard = c.heard
                     /\ [c EXCEPT !.stage = "read", !.row = r].stage = "read"
                     /\ [c EXCEPT !.stage = "read", !.row = r].value = c.value
           /\ [c EXCEPT !.heard = FALSE].id = c.id
           /\ [c EXCEPT !.heard = FALSE].op = c.op
           /\ [c EXCEPT !.heard = FALSE].on = c.on
           /\ [c EXCEPT !.heard = FALSE].stage = c.stage
           /\ [c EXCEPT !.heard = FALSE].heard = FALSE
           /\ c.op = "update" => [c EXCEPT !.heard = FALSE].value = c.value
    BY DEF Calls, UpdateCalls, GroupCalls, Answered

(* The buttons of the three states.                                          *)
LEMMA ButtonSets ==
    /\ Buttons("idle") = {"edit"}
    /\ Buttons("wait") = {"wait"}
    /\ Buttons("edit") = {"accept", "cancel"}
    /\ {Buttons(s) : s \in ActionStates} = {{"edit"}, {"wait"}, {"accept", "cancel"}}
    BY DEF Buttons, ActionStates

(* The elements of a text field, and how they change.                        *)
LEMMA ElementParts ==
    ASSUME NEW e \in FieldStates
    PROVE  /\ e.shown \in Values /\ e.oldvalue \in Values /\ e.listeners \in Nat
           /\ e.readonly \in BOOLEAN
           /\ e.buttons \in {{"edit"}, {"wait"}, {"accept", "cancel"}}
    BY ButtonSets DEF FieldStates

LEMMA ElementChanges ==
    ASSUME NEW e \in FieldStates, NEW v \in Values, NEW s \in ActionStates
    PROVE  /\ ActionState(e, s) \in FieldStates
           /\ Restored(e) \in FieldStates
           /\ [Restored(e) EXCEPT !.oldvalue = v] \in FieldStates
           /\ [Restored(e) EXCEPT !.shown = v] \in FieldStates
           /\ [e EXCEPT !.shown = v] \in FieldStates
           /\ Editable(e) \in FieldStates
           /\ Shown(v) \in FieldStates
    <1> DEFINE B == {Buttons(t) : t \in ActionStates}
    <1>1. \A t \in ActionStates : Buttons(t) \in B
        OBVIOUS
    <1>2. "idle" \in ActionStates /\ "edit" \in ActionStates
        BY DEF ActionStates
    <1>3. FieldStates = [shown : Values, oldvalue : Values, readonly : BOOLEAN,
                         buttons : B, listeners : Nat]
        BY DEF FieldStates
    <1> HIDE DEF B
    <1>4. \A d \in FieldStates, t \in ActionStates : ActionState(d, t) \in FieldStates
        BY <1>1, <1>3 DEF ActionState
    <1>5. \A d \in FieldStates : [d EXCEPT !.readonly = TRUE] \in FieldStates
        BY <1>3
    <1>6. Restored(e) \in FieldStates
        BY <1>2, <1>4, <1>5 DEF Restored
    <1>7. \A d \in FieldStates : /\ [d EXCEPT !.oldvalue = v] \in FieldStates
                                 /\ [d EXCEPT !.shown = v] \in FieldStates
        BY <1>3
    <1>8. Editable(e) \in FieldStates
        <2>1. e.listeners + 1 \in Nat
            BY ElementParts
        <2>2. \A d \in FieldStates, n \in Nat :
                 [d EXCEPT !.readonly = FALSE, !.listeners = n] \in FieldStates
            BY <1>3
        <2> QED
            BY <1>2, <1>4, <2>1, <2>2 DEF Editable
    <1>9. Shown(v) \in FieldStates
        BY <1>1, <1>2, <1>3 DEF Shown
    <1> QED
        BY <1>2, <1>4, <1>6, <1>7, <1>8, <1>9

(* And what the changes do to each part.                                     *)
LEMMA ElementAfter ==
    ASSUME NEW e \in FieldStates, NEW v \in Values, NEW s \in ActionStates
    PROVE  /\ ActionState(e, s).buttons = Buttons(s)
           /\ ActionState(e, s).shown = e.shown
           /\ ActionState(e, s).oldvalue = e.oldvalue
           /\ ActionState(e, s).readonly = e.readonly
           /\ Restored(e).buttons = Buttons("idle") /\ Restored(e).readonly = TRUE
           /\ Editable(e).buttons = Buttons("edit")
           /\ Editable(e).shown = e.shown /\ Editable(e).oldvalue = e.oldvalue
           /\ Restored(e).shown = e.shown /\ Restored(e).oldvalue = e.oldvalue
           /\ Shown(v).shown = v /\ Shown(v).oldvalue = v
           /\ Shown(v).buttons = Buttons("idle") /\ Shown(v).readonly = TRUE
    BY DEF FieldStates, ActionState, Editable, Restored, Shown

--------------------------------------------------------------------------------
(* Sets of calls.                                                            *)

(* What TypeOK says of a set C of calls when n have been sent.               *)
Numbered(C, n) ==
    /\ C \in SUBSET Calls
    /\ \A c \in C : c.id <= n
    /\ \A c, d \in C : c.id = d.id => c = d

LEMMA NumberedFewer ==
    ASSUME NEW C, NEW D, D \subseteq C, NEW n, Numbered(C, n)
    PROVE  Numbered(D, n)
    BY DEF Numbered

(* What is in Unheard(C).                                                    *)
LEMMA UnheardIs ==
    ASSUME NEW C
    PROVE  \A d : d \in Unheard(C) <=>
              \E c \in C : c.stage \in Pending /\ d = [c EXCEPT !.heard = FALSE]
    BY Zenon DEF Unheard

LEMMA NumberedChanged ==
    ASSUME NEW C, NEW n, Numbered(C, n), NEW c \in C, NEW x \in Calls, x.id = c.id
    PROVE  /\ Numbered((C \ {c}) \cup {x}, n)
           /\ Numbered((C \ {c}) \cup {d \in {x} : c.heard}, n)
    BY DEF Numbered

LEMMA NumberedUnheard ==
    ASSUME NEW C, NEW n, Numbered(C, n), NEW E, E \subseteq C
    PROVE  Numbered((C \ E) \cup Unheard(E), n)
    <1>1. \A d \in Unheard(E) : \E c \in E : d = [c EXCEPT !.heard = FALSE]
                                             /\ d \in Calls /\ d.id = c.id
        <2> SUFFICES ASSUME NEW d \in Unheard(E)
                     PROVE  \E c \in E : d = [c EXCEPT !.heard = FALSE]
                                         /\ d \in Calls /\ d.id = c.id
            OBVIOUS
        <2>1. PICK c \in E : d = [c EXCEPT !.heard = FALSE]
            <3>1. \E c \in E : c.stage \in Pending /\ d = [c EXCEPT !.heard = FALSE]
                BY Zenon DEF Unheard
            <3> QED
                BY Zenon, <3>1
        <2>2. c \in Calls
            BY DEF Numbered
        <2>3. d \in Calls /\ d.id = c.id
            BY <2>1, <2>2, CallChanges, CallKept
        <2> QED
            BY <2>1, <2>3
    <1>2. \A d \in Unheard(E) : d.id <= n
        BY <1>1 DEF Numbered
    <1>3. \A d, e \in Unheard(E) : d.id = e.id => d = e
        BY <1>1 DEF Numbered
    <1>4. \A d \in C \ E, e \in Unheard(E) : d.id # e.id
        BY <1>1 DEF Numbered
    <1> QED
        BY <1>1, <1>2, <1>3, <1>4 DEF Numbered

--------------------------------------------------------------------------------
(* The type invariant.                                                       *)

Typed ==
    /\ page \in {"ready", "alert", "gone"}
    /\ halted \in SUBSET Fields
    /\ field \in [Fields -> FieldStates]
    /\ rows \in [Groups -> Nat]
    /\ sent \in Nat
    /\ gate \in {"open", "loggedOut", "noPolicy"}
    /\ stored \in [Fields -> Values]
    /\ storedGroups \in SUBSET Groups
    /\ was \in [Fields -> SUBSET Values]
    /\ others \in Nat
    /\ misled \in SUBSET Fields
    /\ unsure \in SUBSET (Fields \cup Groups)

LEMMA TypeParts == TypeOK <=> Typed /\ Numbered(calls, sent)
    BY DEF TypeOK, Typed, Numbered, Calls

(* A change of one field keeps the type of field.                            *)
LEMMA FieldChange ==
    ASSUME NEW F \in [Fields -> FieldStates], NEW f \in Fields, NEW e \in FieldStates
    PROVE  [F EXCEPT ![f] = e] \in [Fields -> FieldStates]
    OBVIOUS

(* What the server does to the calls: c goes on in stage s, or is no more   *)
(* when the page does not listen to it, and the others are as they were.    *)
Served(c, s) ==
    /\ \A d \in calls' :
          \/ d \in calls \ {c}
          \/ /\ d.op = c.op /\ d.on = c.on /\ d.heard = c.heard /\ d.stage = s
             /\ c.op = "update" => d.value = c.value
    /\ calls \ {c} \subseteq calls'
    /\ c.heard => \E d \in calls' : d.op = c.op /\ d.on = c.on /\ d.heard /\ d.stage = s
    /\ \A d, e \in calls' : d \notin calls \ {c} /\ e \notin calls \ {c} => d = e
    /\ browser' = browser /\ sent' = sent /\ gate' = gate /\ others' = others

LEMMA AnswerCalls ==
    ASSUME Numbered(calls, sent), NEW c \in calls, NEW s \in Answers, Answer(c, s)
    PROVE  Served(c, s) /\ Numbered(calls', sent')
    <1> DEFINE x == Answered(c, s)
    <1>1. c \in Calls
        BY DEF Numbered
    <1>2. /\ x.op = c.op /\ x.on = c.on /\ x.heard = c.heard /\ x.stage = s
          /\ c.op = "update" => x.value = c.value
          /\ x \in Calls /\ x.id = c.id
        <2>1. x \in Calls
            BY <1>1, CallChanges
        <2>2. /\ x.op = c.op /\ x.on = c.on /\ x.heard = c.heard /\ x.stage = s
              /\ c.op = "update" => x.value = c.value
              /\ x.id = c.id
            BY <1>1, CallKept
        <2> QED
            BY <2>1, <2>2
    <1>3. /\ calls' = (calls \ {c}) \cup {d \in {x} : c.heard}
          /\ browser' = browser /\ sent' = sent /\ gate' = gate /\ others' = others
        BY DEF Answer
    <1> HIDE DEF x
    <1>4. Served(c, s)
        BY <1>2, <1>3 DEF Served
    <1>5. Numbered((calls \ {c}) \cup {d \in {x} : c.heard}, sent)
        BY <1>2, NumberedChanged
    <1> QED
        BY <1>3, <1>4, <1>5

LEMMA ReadRowCalls ==
    ASSUME Numbered(calls, sent), stored \in [Fields -> Values],
           NEW c \in calls, ReadRow(c)
    PROVE  Served(c, "read") /\ Numbered(calls', sent')
    <1> DEFINE x == [c EXCEPT !.stage = "read", !.row = stored]
    <1>1. c \in Calls /\ c.op = "update"
        BY DEF Numbered, ReadRow
    <1>2. c.on \in Fields
        BY <1>1, CallChanges
    <1>3. stored # NoRow
        <2>1. DOMAIN stored = Fields /\ DOMAIN NoRow = {}
            BY DEF NoRow
        <2> QED
            BY <1>2, <2>1
    <1>4. /\ x.op = c.op /\ x.on = c.on /\ x.heard = c.heard /\ x.stage = "read"
          /\ x.value = c.value /\ x.id = c.id
        BY <1>1, CallKept
    <1>5. x \in Calls
        BY <1>1, <1>3, CallChanges
    <1>6. /\ calls' = (calls \ {c}) \cup {x}
          /\ browser' = browser /\ sent' = sent /\ gate' = gate /\ others' = others
        BY DEF ReadRow, server
    <1> HIDE DEF x
    <1>7. Served(c, "read")
        BY <1>4, <1>6 DEF Served
    <1>8. Numbered((calls \ {c}) \cup {x}, sent)
        BY <1>4, <1>5, NumberedChanged
    <1> QED
        BY <1>6, <1>7, <1>8

LEMMA ServeCalls ==
    ASSUME Numbered(calls, sent), stored \in [Fields -> Values],
           NEW c \in calls, Serve(c)
    PROVE  /\ Numbered(calls', sent')
           /\ \E s \in Answers \cup {"read"} : Served(c, s)
           /\ c.stage \in Pending
    <1>1. CASE ReadRow(c)
        BY <1>1, ReadRowCalls DEF ReadRow, Pending
    <1>2. CASE ~ ReadRow(c)
        <2>1. PICK s \in Answers : Answer(c, s)
            BY <1>2 DEF Serve, Refuse, WriteRow, FailCall, CreateGroup, DeleteGroup, Answers
        <2>2. c.stage \in Pending
            BY <1>2 DEF Serve, Refuse, WriteRow, FailCall, CreateGroup, DeleteGroup, Pending
        <2> QED
            BY <2>1, <2>2, AnswerCalls
    <1> QED
        BY <1>1, <1>2

LEMMA TypeInit == Init => TypeOK
    <1> SUFFICES ASSUME Init PROVE TypeOK
        OBVIOUS
    <1>1. \A f \in Fields : Seed[f] \in Values
        BY PageAssumption
    <1>2. \A f \in Fields : Shown(Seed[f]) \in FieldStates
        BY <1>1, ButtonSets DEF FieldStates, Shown, ActionStates
    <1>3. field \in [Fields -> FieldStates]
        BY <1>2 DEF Init
    <1>4. Typed
        BY <1>3, PageAssumption DEF Init, Typed
    <1>5. Numbered(calls, sent)
        BY DEF Init, Numbered
    <1> QED
        BY <1>4, <1>5, TypeParts

LEMMA TypeStep == TypeOK /\ [Next]_vars => TypeOK'
    <1> SUFFICES ASSUME Typed, Numbered(calls, sent), [Next]_vars
                 PROVE  Typed' /\ Numbered(calls', sent')
        BY TypeParts DEF TypeOK, Typed, Numbered, Calls
    <1> USE DEF Typed, server, network, browser
    <1>0. /\ \A f \in Fields : field[f] \in FieldStates /\ stored[f] \in Values
          /\ \A c \in calls : c \in Calls
        BY DEF Numbered
    <1>1. ASSUME NEW f \in Fields, Edit(f) PROVE Typed' /\ Numbered(calls', sent')
        <2>1. Editable(field[f]) \in FieldStates
            BY <1>0, ElementChanges, ElementParts DEF ActionStates
        <2> QED
            BY <1>1, <2>1, FieldChange DEF Edit, doubts
    <1>2. ASSUME NEW f \in Fields, NEW v \in Values, Type(f, v)
          PROVE  Typed' /\ Numbered(calls', sent')
        <2>1. [field[f] EXCEPT !.shown = v] \in FieldStates
            BY <1>0, ElementChanges DEF ActionStates
        <2> QED
            BY <1>2, <2>1, FieldChange DEF Type, Meddled, Doubt
    <1>3. ASSUME NEW f \in Fields, Accept(f) PROVE Typed' /\ Numbered(calls', sent')
        <2> DEFINE n == field[f].listeners
                   new == {UpdateCall(i, f) : i \in sent + 1 .. sent + n}
        <2>1. n \in Nat /\ field[f].shown \in Values
            BY <1>0, ElementParts
        <2>2. \A i \in sent + 1 .. sent + n :
                 /\ UpdateCall(i, f) \in Calls /\ UpdateCall(i, f).id = i
                 /\ i \in Nat /\ sent < i /\ i <= sent + n
            <3> TAKE i \in sent + 1 .. sent + n
            <3>1. i \in Nat /\ sent < i /\ i <= sent + n
                BY <2>1
            <3>2. UpdateCall(i, f) \in UpdateCalls
                BY <2>1, <3>1 DEF UpdateCall, UpdateCalls, Stages, RowsRead
            <3> QED
                BY <3>1, <3>2 DEF Calls, UpdateCall
        <2>3. \A c \in new : \E i \in sent + 1 .. sent + n : c = UpdateCall(i, f)
            OBVIOUS
        <2>4. calls' = calls \cup new /\ sent' = sent + n
            BY <1>3 DEF Accept, Send
        <2> HIDE DEF n, new
        <2>5. \A c \in calls : c.id \in Nat /\ c.id <= sent
            BY <1>0, CallChanges DEF Numbered
        <2>6. Numbered(calls \cup new, sent + n)
            <3>1. \A c \in new : c \in Calls /\ c.id \in Nat /\ sent < c.id /\ c.id <= sent + n
                BY <2>2, <2>3
            <3>2. \A c, d \in new : c.id = d.id => c = d
                BY <2>2, <2>3
            <3> QED
                BY <2>1, <2>5, <3>1, <3>2 DEF Numbered
        <2>7. ActionState(field[f], "wait") \in FieldStates
            BY <2>1, <1>0, ElementChanges DEF ActionStates
        <2> QED
            BY <1>3, <2>1, <2>4, <2>6, <2>7, FieldChange DEF Accept, doubts
    <1>4. ASSUME NEW f \in Fields, AcceptUnchanged(f) PROVE Typed' /\ Numbered(calls', sent')
        <2>1. Restored(field[f]) \in FieldStates
            BY <1>0, ElementChanges, ElementParts DEF ActionStates
        <2> QED
            BY <1>4, <2>1, FieldChange DEF AcceptUnchanged, doubts
    <1>5. ASSUME NEW f \in Fields, Cancel(f) PROVE Typed' /\ Numbered(calls', sent')
        <2>1. [Restored(field[f]) EXCEPT !.shown = field[f].oldvalue] \in FieldStates
            BY <1>0, ElementChanges, ElementParts DEF ActionStates
        <2> QED
            BY <1>5, <2>1, FieldChange DEF Cancel, Meddled, Doubt
    <1>6. ASSUME NEW g \in Groups, NEW op \in {"groupCreate", "groupDelete"},
                 SendGroupCall(op, g), page' = page
          PROVE  Typed' /\ Numbered(calls', sent')
        <2> DEFINE c == GroupCall(op, g)
        <2>1. c \in Calls /\ c.id = sent + 1
            BY DEF GroupCall, Calls, GroupCalls, Stages
        <2>2. calls' = calls \cup {c} /\ sent' = sent + 1
            BY <1>6 DEF SendGroupCall, Send
        <2> HIDE DEF c
        <2>4. \A d \in calls : d.id \in Nat /\ d.id <= sent
            BY <1>0, CallChanges DEF Numbered
        <2>5. Numbered(calls \cup {c}, sent + 1)
            BY <2>1, <2>4 DEF Numbered
        <2> QED
            BY <1>6, <2>2, <2>5 DEF SendGroupCall, Doubt
    <1>8. ASSUME NEW c \in calls, Serve(c) PROVE Typed' /\ Numbered(calls', sent')
        <2>1. Numbered(calls', sent')
            BY <1>8, ServeCalls
        <2>2. browser' = browser /\ sent' = sent /\ gate' = gate /\ others' = others
            BY <1>8, ServeCalls DEF Served
        <2>3. c \in Calls
            BY <1>0
        <2>4. /\ stored' \in [Fields -> Values] /\ storedGroups' \in SUBSET Groups
              /\ was' \in [Fields -> SUBSET Values]
              /\ misled' = misled /\ unsure' \in SUBSET (Fields \cup Groups)
            <3>1. CASE WriteRow(c)
                <4> DEFINE row == [c.row EXCEPT ![c.on] = c.value]
                <4>1. row \in [Fields -> Values]
                    BY <2>3, <3>1, CallChanges DEF WriteRow
                <4>2. \/ stored' = stored /\ was' = was /\ doubts' = doubts
                      \/ /\ stored' = row
                         /\ was' = [f \in Fields |-> was[f] \cup {row[f]}]
                         /\ Doubt({f \in Fields \ {c.on} : row[f] # stored[f]})
                    BY <3>1 DEF WriteRow
                <4>3. storedGroups' = storedGroups
                    BY <3>1 DEF WriteRow
                <4> HIDE DEF row
                <4> QED
                    BY <4>1, <4>2, <4>3 DEF Doubt, doubts
            <3>2. CASE CreateGroup(c) \/ DeleteGroup(c)
                <4>1. c.on \in Groups /\ PathGroup[c.on] \in Groups
                    BY <2>3, <3>2, CallChanges, PageAssumption DEF CreateGroup, DeleteGroup
                <4> QED
                    BY <3>2, <4>1 DEF CreateGroup, DeleteGroup, Doubt, doubts
            <3>3. CASE Refuse(c) \/ FailCall(c) \/ ReadRow(c)
                BY <3>3 DEF Refuse, FailCall, ReadRow, doubts
            <3> QED
                BY <1>8, <3>1, <3>2, <3>3 DEF Serve
        <2> QED
            BY <2>1, <2>2, <2>4
    <1>9. ASSUME NEW c \in calls, Drop(c) PROVE Typed' /\ Numbered(calls', sent')
        BY <1>9, NumberedFewer DEF Drop, doubts
    <1>10. ASSUME NEW c \in calls, UpdateSucceeds(c) PROVE Typed' /\ Numbered(calls', sent')
        <2>1. c.on \in Fields /\ c.value \in Values
            BY <1>0, <1>10, CallChanges DEF UpdateSucceeds
        <2>2. [Restored(field[c.on]) EXCEPT !.oldvalue = c.value] \in FieldStates
            BY <2>1, <1>0, ElementChanges DEF ActionStates
        <2> QED
            BY <1>10, <2>1, <2>2, FieldChange, NumberedFewer DEF UpdateSucceeds
    <1>11. ASSUME NEW c \in calls, GroupCreated(c) \/ GroupDeleted(c) \/ GroupRefused(c)
           PROVE  Typed' /\ Numbered(calls', sent')
        <2>1. c.on \in Groups
            BY <1>0, <1>11, CallChanges DEF GroupCreated, GroupDeleted, GroupRefused
        <2>2. Numbered(calls', sent')
            BY <1>11, NumberedFewer DEF GroupCreated, GroupDeleted, GroupRefused
        <2>3. rows' \in [Groups -> Nat]
            BY <1>11, <2>1 DEF GroupCreated, GroupDeleted, GroupRefused
        <2> QED
            BY <1>11, <2>2, <2>3 DEF GroupCreated, GroupDeleted, GroupRefused, doubts
    <1>12. ASSUME NEW c \in calls, CallFails(c) \/ TimeOut(c)
           PROVE  Typed' /\ Numbered(calls', sent')
        <2>1. c.on \in Fields \cup Groups /\ (c.op = "update" => c.on \in Fields)
            BY <1>0, CallChanges
        <2>4. Numbered((calls \ {c}) \cup Unheard({c}), sent)
            BY NumberedUnheard
        <2>5. Numbered(calls', sent')
            BY <1>12, <2>4, NumberedFewer DEF CallFails, TimeOut, Failure
        <2> QED
            BY <1>12, <2>1, <2>5 DEF CallFails, TimeOut, Failure, Doubt, doubts
    <1>13. Numbered(Unheard(calls), sent)
        <2>1. Numbered((calls \ calls) \cup Unheard(calls), sent)
            BY NumberedUnheard
        <2>2. (calls \ calls) \cup Unheard(calls) = Unheard(calls)
            OBVIOUS
        <2> QED
            BY <2>1, <2>2
    <1>14. CASE ShowPage
        <2>1. \A f \in Fields : Shown(stored[f]) \in FieldStates
            BY <1>0, ElementChanges DEF ActionStates
        <2>2. field' \in [Fields -> FieldStates]
            BY <1>14, <2>1 DEF ShowPage
        <2>3. \A c \in Unheard(calls) : c \in Calls
            BY <1>13 DEF Numbered
        <2>4. unsure' \in SUBSET (Fields \cup Groups)
            <3>1. \A c \in Unheard(calls) : c.on \in Fields \cup Groups
                BY <2>3, CallChanges
            <3>2. unsure' = {c.on : c \in Unheard(calls)}
                BY <1>14 DEF ShowPage
            <3> HIDE DEF Typed
            <3> QED
                BY <3>1, <3>2
        <2>5. rows' \in [Groups -> Nat]
            BY <1>14 DEF ShowPage
        <2> QED
            BY <1>13, <1>14, <2>2, <2>4, <2>5 DEF ShowPage
    <1>15. CASE DeletePolicy
        BY <1>13, <1>15 DEF DeletePolicy, doubts
    <1>16. CASE Dismiss
        <2>1. \A f \in Fields : ActionState(field[f], "edit") \in FieldStates
            BY <1>0, ElementChanges, ElementParts DEF ActionStates
        <2> QED
            BY <1>0, <1>16, <2>1 DEF Dismiss, doubts
    <1>21. CASE SessionEnds \/ SessionResumes \/ PolicyGoes
        BY <1>21 DEF SessionEnds, SessionResumes, PolicyGoes, Other, doubts
    <1>22. ASSUME NEW row \in [Fields -> Values], OtherUpdates(row)
           PROVE  Typed' /\ Numbered(calls', sent')
        BY <1>22 DEF OtherUpdates, Other, Doubt
    <1>23. ASSUME NEW g \in Groups, OtherGroups(g) PROVE Typed' /\ Numbered(calls', sent')
        BY <1>23 DEF OtherGroups, Other, Doubt
    <1>17. CASE UNCHANGED vars
        BY <1>17 DEF vars
    <1> HIDE DEF Typed
    <1>18. ASSUME NEW g \in Groups, GroupCreate(g) \/ GroupDelete(g)
           PROVE  Typed' /\ Numbered(calls', sent')
        BY <1>6, <1>18 DEF GroupCreate, GroupDelete, SendGroupCall
    <1>19. CASE User
        BY <1>1, <1>2, <1>3, <1>4, <1>5, <1>14, <1>15, <1>18, <1>19 DEF User
    <1>20. ASSUME NEW c \in calls, Handle(c) PROVE Typed' /\ Numbered(calls', sent')
        BY <1>10, <1>11, <1>12, <1>20 DEF Handle
    <1> QED
        BY <1>8, <1>9, <1>16, <1>17, <1>19, <1>20, <1>21, <1>22, <1>23 DEF Next, Others

(* The variables of the page, the network and the server keep to their types *)
(* and calls to their identities, whatever fields, groups and values there   *)
(* are and however many calls and edits.                                     *)
THEOREM PageTypes == Spec => []TypeOK
    <1>1. Init => TypeOK
        BY TypeInit
    <1>2. TypeOK /\ [Next]_vars => TypeOK'
        BY TypeStep
    <1> QED
        BY <1>1, <1>2, PTL DEF Spec

--------------------------------------------------------------------------------
(* The inductive invariant of the safety proofs.                             *)

(* A field that is not being edited cannot be typed in.                      *)
IdleIsReadonly == \A f \in Fields : Idle(f) => field[f].readonly

(* A failure handler stands at the alert only.                               *)
ClockInv == ClockMeansCall /\ (page # "alert" => halted = {})

(* An update that was answered OK has been stored.                           *)
AnsweredWereStored ==
    /\ \A f \in Fields : stored[f] \in was[f]
    /\ gate # "noPolicy" =>
          \A c \in calls : c.op = "update" /\ c.stage = "ok" => c.value \in was[c.on]

(* What a call may change that the page gave up is in doubt.                 *)
LostAreUnsure == gate # "noPolicy" => \A c \in calls : ~ c.heard => c.on \in unsure

(* A field that is not in doubt shows the value of its calls; once one is    *)
(* answered OK it is stored, and the answer brings oldvalue up to date.      *)
FieldAgrees(f) ==
    /\ \A c \in CallsOn(f) : /\ c.value = field[f].shown
                             /\ c.stage = "ok" => stored[f] = field[f].shown
    /\ stored[f] = field[f].oldvalue \/ \E c \in CallsOn(f) : c.stage = "ok"
    /\ Idle(f) => field[f].shown = field[f].oldvalue

FieldsAgree == gate # "noPolicy" => \A f \in Fields \ unsure : FieldAgrees(f)

RowsAgree(g) == rows[g] = IF g \in storedGroups THEN 1 ELSE 0

(* The calls on a group are all of one kind.  One creation at most succeeds, *)
(* and its row is yet to come; any number of deletions do, and one row at    *)
(* most is left to go.                                                       *)
GroupAgrees(g) ==
    /\ \A c, d \in CallsOn(g) : c.op = d.op
    /\ \A c, d \in CallsOn(g) :
          c.op = "groupCreate" /\ c.stage = "ok" /\ d.stage = "ok" => c = d
    /\ \A c \in CallsOn(g) :
          c.stage = "ok" => IF c.op = "groupCreate" THEN g \in storedGroups /\ rows[g] = 0
                            ELSE g \notin storedGroups /\ rows[g] <= 1
    /\ (\A c \in CallsOn(g) : c.stage # "ok") => RowsAgree(g)

GroupsAgree == gate # "noPolicy" => \A g \in Groups \ unsure : GroupAgrees(g)

--------------------------------------------------------------------------------
(* Facts about steps that all the proofs below use.                          *)

(* What Serve leaves alone.                                                  *)
LEMMA ServeKeeps ==
    ASSUME TypeOK, NEW c \in calls, Serve(c)
    PROVE  /\ browser' = browser /\ gate' = gate
           /\ \E s \in Answers \cup {"read"} : Served(c, s)
           /\ c.stage \in Pending
    <1>1. Numbered(calls, sent) /\ stored \in [Fields -> Values]
        BY TypeParts DEF Typed
    <1> QED
        BY <1>1, ServeCalls DEF Served

(* The stage in which each action of the server leaves the call.             *)
LEMMA ServeStages ==
    ASSUME TypeOK, NEW c \in calls, Serve(c)
    PROVE  \/ ReadRow(c) /\ Served(c, "read")
           \/ WriteRow(c) /\ Served(c, "ok")
           \/ Refuse(c) /\ Served(c, "text")
           \/ FailCall(c) /\ Served(c, "failed")
           \/ CreateGroup(c) /\ Served(c, IF c.on \in storedGroups THEN "text" ELSE "ok")
           \/ DeleteGroup(c) /\ Served(c, "ok")
    <1>1. Numbered(calls, sent) /\ stored \in [Fields -> Values]
        BY TypeParts DEF Typed
    <1>2. \A s \in Answers : Answer(c, s) => Served(c, s)
        BY <1>1, AnswerCalls
    <1>3. ReadRow(c) => Served(c, "read")
        BY <1>1, ReadRowCalls
    <1>4. WriteRow(c) => Served(c, "ok")
        BY <1>2 DEF WriteRow, Answers
    <1>5. Refuse(c) => Served(c, "text")
        BY <1>2 DEF Refuse, Answers
    <1>6. FailCall(c) => Served(c, "failed")
        BY <1>2 DEF FailCall, Answers
    <1>7. CreateGroup(c) => Served(c, IF c.on \in storedGroups THEN "text" ELSE "ok")
        BY <1>2 DEF CreateGroup, Answers
    <1>8. DeleteGroup(c) => Served(c, "ok")
        BY <1>2 DEF DeleteGroup, Answers
    <1> QED
        BY <1>3, <1>4, <1>5, <1>6, <1>7, <1>8 DEF Serve

(* The policy never comes back.                                              *)
LEMMA GateShuts ==
    ASSUME TypeOK, [Next]_vars PROVE gate' # "noPolicy" => gate # "noPolicy"
    <1>1. CASE User
        BY <1>1 DEF User, Edit, Type, Accept, AcceptUnchanged, Cancel, GroupCreate,
                    GroupDelete, SendGroupCall, ShowPage, DeletePolicy, server, browser
    <1>2. ASSUME NEW c \in calls, Serve(c) PROVE gate' = gate
        BY <1>2, ServeKeeps
    <1>3. ASSUME NEW c \in calls, Drop(c) \/ Handle(c)
          PROVE  gate' = gate
        BY <1>3 DEF Drop, Handle, UpdateSucceeds, GroupCreated, GroupDeleted, GroupRefused,
                    CallFails, TimeOut, Failure, server, browser
    <1>4. CASE Dismiss \/ SessionEnds \/ SessionResumes \/ Others \/ UNCHANGED vars
        BY <1>4 DEF Dismiss, SessionEnds, SessionResumes, Others, OtherUpdates, OtherGroups,
                    PolicyGoes, browser, server, vars
    <1> QED
        BY <1>1, <1>2, <1>3, <1>4 DEF Next

(* The calls the page no longer listens to.                                  *)
LEMMA UnheardCalls ==
    ASSUME NEW C \in SUBSET Calls
    PROVE  \A d \in Unheard(C) : \E c \in C :
              /\ c.stage \in Pending /\ d.stage \in Pending /\ d.heard = FALSE
              /\ d.op = c.op /\ d.on = c.on
              /\ c.op = "update" => d.value = c.value
    <1> SUFFICES ASSUME NEW d \in Unheard(C)
                 PROVE  \E c \in C :
                           /\ c.stage \in Pending /\ d.stage \in Pending /\ d.heard = FALSE
                           /\ d.op = c.op /\ d.on = c.on
                           /\ c.op = "update" => d.value = c.value
        OBVIOUS
    <1>1. PICK c \in C : c.stage \in Pending /\ d = [c EXCEPT !.heard = FALSE]
        BY Zenon DEF Unheard
    <1>2. c \in Calls
        OBVIOUS
    <1> QED
        BY <1>1, <1>2, CallKept

(* The types the steps need.                                                 *)
LEMMA Types ==
    ASSUME TypeOK
    PROVE  /\ \A f \in Fields : field[f] \in FieldStates /\ stored[f] \in Values
           /\ \A c \in calls :
                /\ c \in Calls /\ c.stage \in Stages /\ c.heard \in BOOLEAN
                /\ c.op \in {"update", "groupCreate", "groupDelete"}
                /\ c.op = "update" => c.on \in Fields /\ c.on \notin Groups /\ c.value \in Values
                /\ c.op # "update" => c.on \in Groups /\ c.on \notin Fields
    BY TypeParts, CallChanges, PageAssumption DEF Typed, Numbered

--------------------------------------------------------------------------------
(* The plain conjuncts.                                                      *)

(* A field that is being edited or waits does not show the edit button.      *)
LEMMA NotIdle ==
    ASSUME NEW e \in FieldStates
    PROVE  /\ "edit" \notin ActionState(e, "wait").buttons
           /\ "edit" \notin ActionState(e, "edit").buttons
           /\ "edit" \notin Editable(e).buttons
    <1>1. ASSUME NEW s \in ActionStates
          PROVE  ActionState(e, s).buttons = Buttons(s)
        BY DEF ActionState, FieldStates
    <1>2. Editable(e).buttons = Buttons("edit")
        BY DEF Editable, ActionState, FieldStates
    <1>3. "edit" \notin Buttons("wait") /\ "edit" \notin Buttons("edit")
        BY ButtonSets
    <1> QED
        BY <1>1, <1>2, <1>3 DEF ActionStates

LEMMA ReadonlyStep == TypeOK /\ IdleIsReadonly /\ [Next]_vars => IdleIsReadonly'
    <1> SUFFICES ASSUME TypeOK, IdleIsReadonly, [Next]_vars, NEW f \in Fields, Idle(f)'
                 PROVE  field'[f].readonly
        BY DEF IdleIsReadonly
    <1>0. /\ field \in [Fields -> FieldStates]
          /\ \A h \in Fields : field[h] \in FieldStates /\ stored[h] \in Values
          /\ "edit" \in field'[f].buttons
        BY Types, TypeParts DEF Typed, Idle
    <1>1. field'[f] = field[f] => field'[f].readonly
        BY DEF IdleIsReadonly, Idle
    <1>2. ASSUME NEW h \in Fields, Edit(h) \/ Accept(h) PROVE field'[f].readonly
        BY <1>0, <1>1, <1>2, NotIdle DEF Edit, Accept
    <1>3. ASSUME NEW h \in Fields, NEW v \in Values, Type(h, v) PROVE field'[f].readonly
        <2>1. h = f => ~ Idle(f)
            BY <1>3 DEF Type, IdleIsReadonly
        <2>2. [field[h] EXCEPT !.shown = v].buttons = field[h].buttons
            BY <1>0 DEF FieldStates
        <2> QED
            BY <1>0, <1>1, <1>3, <2>1, <2>2 DEF Type, Idle
    <1>4. ASSUME NEW h \in Fields, AcceptUnchanged(h) \/ Cancel(h) PROVE field'[f].readonly
        <2>1. Restored(field[h]).readonly
              /\ [Restored(field[h]) EXCEPT !.shown = field[h].oldvalue].readonly
            BY <1>0 DEF Restored, ActionState, FieldStates
        <2> QED
            BY <1>0, <1>1, <1>4, <2>1 DEF AcceptUnchanged, Cancel
    <1>5. ASSUME NEW c \in calls, Serve(c) PROVE field'[f].readonly
        BY <1>1, <1>5, ServeKeeps DEF browser
    <1>6. ASSUME NEW c \in calls, UpdateSucceeds(c) PROVE field'[f].readonly
        <2>1. c.on \in Fields /\ c.value \in Values
            BY <1>6, Types DEF UpdateSucceeds
        <2>2. [Restored(field[c.on]) EXCEPT !.oldvalue = c.value].readonly
            BY <1>0, <2>1 DEF Restored, ActionState, FieldStates
        <2> QED
            BY <1>0, <1>1, <1>6, <2>1, <2>2 DEF UpdateSucceeds
    <1>7. CASE Dismiss
        <2>1. "edit" \notin ActionState(field[f], "edit").buttons
            BY <1>0, NotIdle
        <2> QED
            BY <1>0, <1>1, <1>7, <2>1 DEF Dismiss
    <1>8. CASE ShowPage
        <2>1. field'[f] = Shown(stored[f])
            BY <1>8 DEF ShowPage
        <2> QED
            BY <2>1 DEF Shown
    <1>9. ASSUME NEW g \in Groups, GroupCreate(g) \/ GroupDelete(g) PROVE field'[f].readonly
        BY <1>1, <1>9 DEF GroupCreate, GroupDelete, SendGroupCall, browser
    <1>10. CASE DeletePolicy \/ SessionEnds \/ SessionResumes \/ Others \/ UNCHANGED vars
        BY <1>1, <1>10 DEF DeletePolicy, SessionEnds, SessionResumes, Others, OtherUpdates,
                           OtherGroups, PolicyGoes, vars, browser
    <1>11. ASSUME NEW c \in calls, Drop(c) \/ GroupCreated(c) \/ GroupDeleted(c) \/ GroupRefused(c)
           PROVE  field'[f].readonly
        BY <1>1, <1>11 DEF Drop, GroupCreated, GroupDeleted, GroupRefused, browser
    <1>12. ASSUME NEW c \in calls, CallFails(c) \/ TimeOut(c) PROVE field'[f].readonly
        BY <1>1, <1>12 DEF CallFails, TimeOut, Failure
    <1> QED
        BY <1>2, <1>3, <1>4, <1>5, <1>6, <1>7, <1>8, <1>9, <1>10, <1>11, <1>12
           DEF Next, User, Handle

(* OldValueWasStored rests on AnsweredWereStored: the handler of an update   *)
(* takes a value the server has stored, or the field is misled.              *)
StoredInv == AnsweredWereStored /\ OldValueWasStored

LEMMA StoredStep == TypeOK /\ StoredInv /\ [Next]_vars => StoredInv'
    <1> SUFFICES ASSUME TypeOK, StoredInv, [Next]_vars PROVE StoredInv'
        OBVIOUS
    <1> DEFINE Fine(d) == d.op = "update" /\ d.stage = "ok" => d.value \in was'[d.on]
               OldFine == \A h \in Fields \ misled' : field'[h].oldvalue \in was'[h]
    <1>0. /\ field \in [Fields -> FieldStates] /\ stored \in [Fields -> Values]
          /\ was \in [Fields -> SUBSET Values]
          /\ \A h \in Fields : field[h] \in FieldStates /\ stored[h] \in was[h]
          /\ gate # "noPolicy" => \A h \in Fields \ misled : field[h].oldvalue \in was[h]
        BY Types, TypeParts DEF Typed, StoredInv, AnsweredWereStored, OldValueWasStored
    <1>1. gate' # "noPolicy" => gate # "noPolicy"
        BY GateShuts
    <1>2. ASSUME \A h \in Fields : was[h] \subseteq was'[h] /\ stored'[h] \in was'[h],
                 gate' # "noPolicy" => OldFine,
                 gate' # "noPolicy" => \A d \in calls' : d \in calls \/ Fine(d)
          PROVE  StoredInv'
        <2>1. gate # "noPolicy" => \A d \in calls : Fine(d)
            BY <1>2, Types DEF StoredInv, AnsweredWereStored
        <2> QED
            BY <1>1, <1>2, <2>1 DEF StoredInv, AnsweredWereStored, OldValueWasStored
    <1> HIDE DEF Fine
    <1>3. ASSUME was' = was, stored' = stored,
                 gate' # "noPolicy" => \A d \in calls' : d \in calls \/ Fine(d),
                 gate' # "noPolicy" => OldFine
          PROVE  StoredInv'
        BY <1>0, <1>2, <1>3
    (* Neither the oldvalue of a field nor what was stored changes.            *)
    <1>17. ASSUME was' = was, stored' = stored, misled' = misled,
                  \A h \in Fields : field'[h].oldvalue = field[h].oldvalue,
                  \A d \in calls' : d \in calls \/ Fine(d)
           PROVE  StoredInv'
        BY <1>0, <1>1, <1>3, <1>17
    <1>4. ASSUME NEW h \in Fields, Edit(h) \/ AcceptUnchanged(h) \/ Cancel(h) PROVE StoredInv'
        <2>1. /\ Editable(field[h]).oldvalue = field[h].oldvalue
              /\ Restored(field[h]).oldvalue = field[h].oldvalue
              /\ [Restored(field[h]) EXCEPT !.shown = field[h].oldvalue].oldvalue
                     = field[h].oldvalue
            BY <1>0 DEF Editable, Restored, ActionState, FieldStates
        <2> QED
            BY <1>0, <1>17, <1>4, <2>1
               DEF Edit, AcceptUnchanged, Cancel, Meddled, Doubt, doubts, network, server
    <1>5. ASSUME NEW h \in Fields, NEW v \in Values, Type(h, v) PROVE StoredInv'
        <2>1. [field[h] EXCEPT !.shown = v].oldvalue = field[h].oldvalue
            BY <1>0 DEF FieldStates
        <2> QED
            BY <1>0, <1>17, <1>5, <2>1 DEF Type, Meddled, Doubt, network, server
    <1>6. ASSUME NEW h \in Fields, Accept(h) PROVE StoredInv'
        <2>1. ActionState(field[h], "wait").oldvalue = field[h].oldvalue
            BY <1>0, ElementAfter, ElementParts DEF ActionStates
        <2>2. \A i : Fine(UpdateCall(i, h))
            BY DEF Fine, UpdateCall
        <2>3. \A d \in calls' : d \in calls \/ Fine(d)
            BY <1>6, <2>2 DEF Accept, Send
        <2> QED
            BY <1>0, <1>17, <1>6, <2>1, <2>3 DEF Accept, doubts, server
    <1>7. ASSUME NEW g \in Groups, GroupCreate(g) \/ GroupDelete(g) PROVE StoredInv'
        <2>1. Fine(GroupCall("groupCreate", g)) /\ Fine(GroupCall("groupDelete", g))
            BY DEF Fine, GroupCall
        <2>2. \A d \in calls' : d \in calls \/ Fine(d)
            BY <1>7, <2>1 DEF GroupCreate, GroupDelete, SendGroupCall, Send
        <2> QED
            BY <1>17, <1>7, <2>2
               DEF GroupCreate, GroupDelete, SendGroupCall, Doubt, browser, server
    <1>8. ASSUME NEW c \in calls, Serve(c) PROVE StoredInv'
        <2>1. field' = field /\ gate' = gate
            BY <1>8, ServeKeeps DEF browser
        <2>2. WriteRow(c) => Served(c, "ok")
            BY AnswerCalls, TypeParts DEF WriteRow, Answers
        <2>3. CASE WriteRow(c) /\ gate # "noPolicy"
            <3> DEFINE row == [c.row EXCEPT ![c.on] = c.value]
            <3>1. c \in Calls /\ c.op = "update" /\ c.stage = "read"
                BY <2>3, Types DEF WriteRow
            <3>2. row \in [Fields -> Values] /\ row[c.on] = c.value /\ c.on \in Fields
                BY <3>1, CallChanges
            <3>3. /\ stored' = row /\ was' = [f \in Fields |-> was[f] \cup {row[f]}]
                  /\ misled' = misled
                BY <2>3 DEF WriteRow, Doubt
            <3> HIDE DEF row
            <3>4. \A h \in Fields : was[h] \subseteq was'[h] /\ stored'[h] \in was'[h]
                BY <1>0, <3>3
            <3>5. c.value \in was'[c.on]
                BY <3>2, <3>3
            <3>6. \A d \in calls' : d \in calls \/ Fine(d)
                BY <2>2, <2>3, <3>1, <3>5 DEF Served, Fine
            <3>7. gate' # "noPolicy" => OldFine
                BY <1>0, <2>1, <3>3, <3>4
            <3> QED
                BY <1>2, <3>4, <3>6, <3>7
        <2>4. CASE ~ (WriteRow(c) /\ gate # "noPolicy")
            <3>1. was' = was /\ stored' = stored /\ misled' = misled
                BY <1>8, <2>4 DEF Serve, Refuse, ReadRow, WriteRow, FailCall, CreateGroup,
                                  DeleteGroup, Doubt, doubts, server
            <3>2. ASSUME gate # "noPolicy", NEW d \in calls', d \notin calls PROVE Fine(d)
                <4>1. CASE ReadRow(c) /\ Served(c, "read")
                    BY <3>2, <4>1 DEF Served, Fine
                <4>2. CASE Refuse(c) /\ Served(c, "text")
                    BY <3>2, <4>2 DEF Served, Fine
                <4>3. CASE FailCall(c) /\ Served(c, "failed")
                    BY <3>2, <4>3 DEF Served, Fine
                <4>4. CASE CreateGroup(c) \/ DeleteGroup(c)
                    <5>1. c.op # "update" /\ \E s : Served(c, s)
                        BY <1>8, <4>4, ServeKeeps DEF CreateGroup, DeleteGroup
                    <5> QED
                        BY <3>2, <5>1 DEF Served, Fine
                <4> QED
                    BY <1>8, <2>4, <3>2, <4>1, <4>2, <4>3, <4>4, ServeStages
            <3> QED
                BY <1>0, <1>3, <2>1, <3>1, <3>2
        <2> QED
            BY <2>3, <2>4
    <1>10. ASSUME NEW c \in calls, UpdateSucceeds(c) PROVE StoredInv'
        <2>1. c.on \in Fields /\ c.value \in Values
            BY <1>10, Types DEF UpdateSucceeds
        <2>2. [Restored(field[c.on]) EXCEPT !.oldvalue = c.value].oldvalue = c.value
            BY <1>0, <2>1 DEF Restored, ActionState, FieldStates
        <2>3. gate # "noPolicy" /\ c.stage = "ok" => c.value \in was[c.on]
            BY <1>10, Types DEF UpdateSucceeds, StoredInv, AnsweredWereStored
        <2>4. /\ c.stage # "ok" => misled' = misled \cup {c.on}
              /\ misled \subseteq misled' \cup {c.on}
            BY <1>10 DEF UpdateSucceeds, Hear
        <2>5. \A h \in Fields : field'[h].oldvalue =
                                   IF h = c.on THEN c.value ELSE field[h].oldvalue
            BY <1>0, <1>10, <2>1, <2>2 DEF UpdateSucceeds
        <2>6. was' = was /\ stored' = stored /\ gate' = gate /\ calls' \subseteq calls
            BY <1>10 DEF UpdateSucceeds, server
        <2> QED
            BY <1>0, <1>3, <2>3, <2>4, <2>5, <2>6
    <1>11. \A d \in Unheard(calls) : Fine(d)
        <2>1. calls \in SUBSET Calls
            BY Types
        <2> QED
            BY <2>1, UnheardCalls DEF Fine, Pending
    <1>12. ASSUME NEW c \in calls, CallFails(c) \/ TimeOut(c) PROVE StoredInv'
        <2>1. \A d \in Unheard({c}) : d \in Unheard(calls)
            BY Zenon DEF Unheard
        <2>2. \A d \in calls' : d \in calls \/ Fine(d)
            BY <1>11, <1>12, <2>1 DEF CallFails, TimeOut
        <2> QED
            BY <1>17, <1>12, <2>2 DEF CallFails, TimeOut, Failure, Doubt, doubts, server
    <1>13. CASE ShowPage
        <2>1. \A h \in Fields : field'[h].oldvalue \in was[h]
            BY <1>0, <1>13 DEF ShowPage, Shown
        <2> QED
            BY <1>3, <1>11, <1>13, <2>1 DEF ShowPage, server
    <1>14. CASE DeletePolicy \/ PolicyGoes
        BY <1>0, <1>3, <1>14 DEF DeletePolicy, PolicyGoes
    <1>15. CASE Dismiss
        <2>1. \A h \in Fields : ActionState(field[h], "edit").oldvalue = field[h].oldvalue
            BY <1>0, ElementAfter, ElementParts DEF ActionStates
        <2>2. \A h \in Fields : field'[h].oldvalue = field[h].oldvalue
            BY <1>15, <2>1 DEF Dismiss
        <2> QED
            BY <1>15, <1>17, <2>2 DEF Dismiss, network, server, doubts
    <1>16. ASSUME NEW c \in calls, Drop(c) \/ GroupCreated(c) \/ GroupDeleted(c) \/ GroupRefused(c)
           PROVE  StoredInv'
        BY <1>17, <1>16
           DEF Drop, GroupCreated, GroupDeleted, GroupRefused, browser, server, doubts
    <1>18. CASE SessionEnds \/ SessionResumes \/ UNCHANGED vars
        BY <1>17, <1>18
           DEF SessionEnds, SessionResumes, vars, browser, network, server, doubts
    <1>19. ASSUME NEW row \in [Fields -> Values], OtherUpdates(row) PROVE StoredInv'
        BY <1>0, <1>2, <1>19 DEF OtherUpdates, Doubt, browser, network
    <1>20. ASSUME NEW g \in Groups, OtherGroups(g) PROVE StoredInv'
        BY <1>17, <1>20 DEF OtherGroups, Doubt, browser, network
    <1> QED
        BY <1>4, <1>5, <1>6, <1>7, <1>8, <1>10, <1>12, <1>13, <1>14, <1>15, <1>16, <1>18,
           <1>19, <1>20 DEF Next, User, Handle, Others

--------------------------------------------------------------------------------
(* Calls the page gave up.                                                   *)

LEMMA LostStep == TypeOK /\ LostAreUnsure /\ [Next]_vars => LostAreUnsure'
    <1> SUFFICES ASSUME TypeOK, LostAreUnsure, [Next]_vars, gate' # "noPolicy",
                        NEW d \in calls', ~ d.heard
                 PROVE  d.on \in unsure'
        BY DEF LostAreUnsure
    <1>0. gate # "noPolicy" /\ \A c \in calls : ~ c.heard => c.on \in unsure
        BY GateShuts DEF LostAreUnsure
    <1>1. ASSUME unsure \subseteq unsure', d \in calls PROVE d.on \in unsure'
        BY <1>0, <1>1
    <1>2. ASSUME NEW f \in Fields,
                 \/ Edit(f) \/ AcceptUnchanged(f) \/ Cancel(f)
                 \/ \E v \in Values : Type(f, v)
          PROVE  d.on \in unsure'
        BY <1>1, <1>2
           DEF Edit, AcceptUnchanged, Cancel, Type, Meddled, Doubt, doubts, network
    <1>3. ASSUME NEW f \in Fields, Accept(f) PROVE d.on \in unsure'
        <2>1. \A i : UpdateCall(i, f).heard
            BY DEF UpdateCall
        <2>2. d \in calls /\ unsure' = unsure
            BY <1>3, <2>1 DEF Accept, Send, doubts
        <2> QED
            BY <1>1, <2>2
    <1>4. ASSUME NEW g \in Groups, GroupCreate(g) \/ GroupDelete(g) PROVE d.on \in unsure'
        <2>1. \A op : GroupCall(op, g).heard
            BY DEF GroupCall
        <2>2. d \in calls /\ unsure \subseteq unsure'
            BY <1>4, <2>1 DEF GroupCreate, GroupDelete, SendGroupCall, Send, Doubt
        <2> QED
            BY <1>1, <2>2
    <1>5. ASSUME NEW c \in calls, Serve(c) PROVE d.on \in unsure'
        <2>1. PICK s \in Answers \cup {"read"} : Served(c, s)
            BY <1>5, ServeKeeps
        <2>2. d \in calls \/ (d.heard = c.heard /\ d.on = c.on)
            BY <2>1 DEF Served
        <2>3. unsure \subseteq unsure'
            BY <1>5 DEF Serve, Refuse, ReadRow, WriteRow, FailCall, CreateGroup, DeleteGroup,
                        Doubt, doubts
        <2> QED
            BY <1>0, <1>1, <2>2, <2>3
    <1>6. ASSUME NEW c \in calls,
                 Drop(c) \/ UpdateSucceeds(c) \/ GroupCreated(c) \/ GroupDeleted(c)
                     \/ GroupRefused(c) \/ CallFails(c)
          PROVE  d.on \in unsure'
        <2>1. d \in calls /\ unsure \subseteq unsure'
            BY <1>6 DEF Drop, UpdateSucceeds, GroupCreated, GroupDeleted, GroupRefused,
                        CallFails, doubts
        <2> QED
            BY <1>1, <2>1
    <1>7. ASSUME NEW c \in calls, TimeOut(c) PROVE d.on \in unsure'
        <2>1. unsure \subseteq unsure' /\ c.on \in unsure'
            BY <1>7 DEF TimeOut, Doubt
        <2>2. d \in calls \/ d \in Unheard({c})
            BY <1>7 DEF TimeOut
        <2>3. ASSUME d \in Unheard({c}) PROVE d.on = c.on
            <3>1. {c} \in SUBSET Calls
                BY Types
            <3> QED
                BY <2>3, <3>1, UnheardCalls
        <2> QED
            BY <1>1, <2>1, <2>2, <2>3
    <1>8. CASE ShowPage
        BY <1>8 DEF ShowPage
    <1>9. CASE DeletePolicy \/ PolicyGoes
        BY <1>9 DEF DeletePolicy, PolicyGoes
    <1>10. CASE Dismiss \/ SessionEnds \/ SessionResumes \/ UNCHANGED vars
        BY <1>1, <1>10 DEF Dismiss, SessionEnds, SessionResumes, vars, network, doubts
    <1>11. ASSUME NEW row \in [Fields -> Values], OtherUpdates(row) PROVE d.on \in unsure'
        BY <1>1, <1>11 DEF OtherUpdates, Doubt, network
    <1>12. ASSUME NEW g \in Groups, OtherGroups(g) PROVE d.on \in unsure'
        BY <1>1, <1>12 DEF OtherGroups, Doubt, network
    <1> QED
        BY <1>2, <1>3, <1>4, <1>5, <1>6, <1>7, <1>8, <1>9, <1>10, <1>11, <1>12
           DEF Next, User, Handle, Others

--------------------------------------------------------------------------------
(* The clock.                                                                *)

LEMMA ClockStep == TypeOK /\ ClockInv /\ [Next]_vars => ClockInv'
    <1> DEFINE Heard(f) == f \in halted' \/ \E c \in calls' : c.on = f /\ c.heard
    <1> SUFFICES ASSUME TypeOK, ClockInv, [Next]_vars
                 PROVE  /\ page' # "alert" => halted' = {}
                        /\ \A f \in Fields : page' # "gone" /\ Waiting(f)' => Heard(f)
        BY DEF ClockInv, ClockMeansCall, CallsOn
    <1>0. /\ field \in [Fields -> FieldStates]
          /\ \A h \in Fields : field[h] \in FieldStates
          /\ \A f \in Fields : Waiting(f)' <=> "wait" \in field'[f].buttons
        BY Types, TypeParts DEF Typed, Waiting
    <1>20. page' # "alert" => halted' = {}
        <2>1. ASSUME NEW c \in calls, Serve(c) PROVE page' = page /\ halted' = halted
            BY <2>1, ServeKeeps DEF browser
        <2>2. ASSUME NEW c \in calls, Drop(c) \/ Handle(c)
              PROVE  page' # "alert" => halted' = {}
            BY <2>2 DEF Drop, Handle, UpdateSucceeds, GroupCreated, GroupDeleted, GroupRefused,
                        CallFails, TimeOut, Failure, Hear, ClockInv, browser
        <2>3. CASE User
            BY <2>3 DEF User, Edit, Type, Accept, AcceptUnchanged, Cancel, GroupCreate,
                        GroupDelete, SendGroupCall, ShowPage, DeletePolicy, browser, ClockInv
        <2>4. CASE Dismiss \/ SessionEnds \/ SessionResumes \/ Others \/ UNCHANGED vars
            BY <2>4 DEF Dismiss, SessionEnds, SessionResumes, Others, OtherUpdates,
                        OtherGroups, PolicyGoes, browser, vars, ClockInv
        <2> QED
            BY <2>1, <2>2, <2>3, <2>4 DEF Next, ClockInv
    <1> SUFFICES ASSUME page' # "gone", NEW f \in Fields, "wait" \in field'[f].buttons
                 PROVE  Heard(f)
        BY <1>0, <1>20
    <1>1. ASSUME page # "gone", field'[f].buttons = field[f].buttons
          PROVE  f \in halted \/ \E c \in calls : c.on = f /\ c.heard
        BY <1>0, <1>1 DEF ClockInv, ClockMeansCall, CallsOn, Waiting
    <1>2. ASSUME page # "gone", field'[f].buttons = field[f].buttons,
                 halted \subseteq halted', calls \subseteq calls'
          PROVE  Heard(f)
        BY <1>1, <1>2
    <1> HIDE DEF Heard
    <1>3. ASSUME NEW h \in Fields, Edit(h) \/ AcceptUnchanged(h) \/ Cancel(h)
          PROVE  Heard(f)
        <2>1. /\ "wait" \notin Editable(field[h]).buttons
              /\ "wait" \notin Restored(field[h]).buttons
              /\ "wait" \notin [Restored(field[h]) EXCEPT !.shown = field[h].oldvalue].buttons
            BY <1>0, ButtonSets DEF Editable, Restored, ActionState, FieldStates
        <2>2. h # f
            BY <1>0, <1>3, <2>1 DEF Edit, AcceptUnchanged, Cancel
        <2> QED
            BY <1>0, <1>2, <1>3, <2>2 DEF Edit, AcceptUnchanged, Cancel, network
    <1>4. ASSUME NEW h \in Fields, NEW v \in Values, Type(h, v)
          PROVE  Heard(f)
        <2>1. [field[h] EXCEPT !.shown = v].buttons = field[h].buttons
            BY <1>0 DEF FieldStates
        <2> QED
            BY <1>0, <1>2, <1>4, <2>1 DEF Type, network
    <1>5. ASSUME NEW h \in Fields, Accept(h)
          PROVE  Heard(f)
        <2>1. CASE h = f
            <3>1. field[f].listeners \in Nat /\ sent \in Nat
                BY <1>0, ElementParts, TypeParts DEF Typed
            <3>2. sent + 1 \in sent + 1 .. sent + field[f].listeners
                BY <1>5, <2>1, <3>1 DEF Accept
            <3>3. UpdateCall(sent + 1, f) \in calls'
                BY <1>5, <2>1, <3>2 DEF Accept, Send
            <3> QED
                BY <3>3 DEF UpdateCall, Heard
        <2>2. CASE h # f
            BY <1>0, <1>2, <1>5, <2>2 DEF Accept, Send
        <2> QED
            BY <2>1, <2>2
    <1>6. ASSUME NEW g \in Groups, GroupCreate(g) \/ GroupDelete(g)
          PROVE  Heard(f)
        BY <1>2, <1>6 DEF GroupCreate, GroupDelete, SendGroupCall, Send, browser
    <1>7. ASSUME NEW c \in calls, Serve(c)
          PROVE  Heard(f)
        <2>1. PICK s \in Answers \cup {"read"} : Served(c, s)
            BY <1>7, ServeKeeps
        <2>2. field' = field /\ page' = page /\ halted' = halted
            BY <2>1 DEF Served, browser
        <2>3. f \in halted \/ \E d \in calls : d.on = f /\ d.heard
            BY <1>1, <2>2
        <2>4. ASSUME NEW d \in calls, d.on = f, d.heard PROVE Heard(f)
            <3>1. CASE d = c
                BY <2>1, <2>4, <3>1 DEF Served, Heard
            <3>2. CASE d # c
                BY <2>1, <2>4, <3>2 DEF Served, Heard
            <3> QED
                BY <3>1, <3>2
        <2> QED
            BY <2>2, <2>3, <2>4 DEF Heard
    <1>8. ASSUME NEW c \in calls, Drop(c)
          PROVE  Heard(f)
        BY <1>1, <1>8 DEF Drop, browser, Heard
    (* A handler runs on the ready page: no field is halted before it.         *)
    <1>9. ASSUME NEW c \in calls, page = "ready", c.on # f, calls \ {c} \subseteq calls',
                 field'[f] = field[f]
          PROVE  Heard(f)
        BY <1>1, <1>9 DEF ClockInv, Heard
    <1>10. ASSUME NEW c \in calls, UpdateSucceeds(c)
           PROVE  Heard(f)
        <2>1. c.on \in Fields /\ c.value \in Values
            BY <1>10, Types DEF UpdateSucceeds
        <2>2. "wait" \notin [Restored(field[c.on]) EXCEPT !.oldvalue = c.value].buttons
            BY <1>0, <2>1, ButtonSets DEF Restored, ActionState, FieldStates
        <2>3. c.on # f
            BY <1>0, <1>10, <2>1, <2>2 DEF UpdateSucceeds
        <2> QED
            BY <1>0, <1>9, <1>10, <2>1, <2>3 DEF UpdateSucceeds, Hear
    <1>11. ASSUME NEW c \in calls, GroupCreated(c) \/ GroupDeleted(c) \/ GroupRefused(c)
           PROVE  Heard(f)
        <2>1. c.on # f
            BY <1>11, Types DEF GroupCreated, GroupDeleted, GroupRefused
        <2> QED
            BY <1>9, <1>11, <2>1 DEF GroupCreated, GroupDeleted, GroupRefused, Hear
    <1>12. ASSUME NEW c \in calls, CallFails(c) \/ TimeOut(c)
           PROVE  Heard(f)
        <2>1. c.op # "update" => c.on \notin Fields
            BY Types
        <2>2. /\ page = "ready" /\ field' = field /\ calls \ {c} \subseteq calls'
              /\ c.op = "update" => halted' = {c.on}
            BY <1>12 DEF CallFails, TimeOut, Failure, Hear
        <2>3. CASE c.on = f
            BY <2>1, <2>2, <2>3 DEF Heard
        <2>4. CASE c.on # f
            BY <1>9, <2>2, <2>4
        <2> QED
            BY <2>3, <2>4
    <1>13. CASE ShowPage
        <2>1. field'[f] = Shown(stored[f])
            BY <1>13 DEF ShowPage
        <2> QED
            BY <1>0, <2>1, ButtonSets DEF Shown
    <1>14. CASE DeletePolicy
        BY <1>14 DEF DeletePolicy
    <1>15. CASE Dismiss
        <2>1. "wait" \notin ActionState(field[f], "edit").buttons
            BY <1>0, ButtonSets DEF ActionState, FieldStates
        <2>2. f \notin halted /\ field'[f] = field[f]
            BY <1>15, <2>1 DEF Dismiss
        <2>3. \E c \in calls : c.on = f /\ c.heard
            BY <1>1, <1>15, <2>2 DEF Dismiss
        <2> QED
            BY <1>15, <2>3 DEF Dismiss, network, Heard
    <1>16. CASE SessionEnds \/ SessionResumes \/ Others \/ UNCHANGED vars
        BY <1>2, <1>16 DEF SessionEnds, SessionResumes, Others, OtherUpdates, OtherGroups,
                           PolicyGoes, vars, browser, network
    <1> QED
        BY <1>3, <1>4, <1>5, <1>6, <1>7, <1>8, <1>10, <1>11, <1>12, <1>13, <1>14, <1>15,
           <1>16 DEF Next, User, Handle

--------------------------------------------------------------------------------
(* Fields.                                                                   *)

(* What a step does not touch goes on agreeing.                              *)
LEMMA FieldUntouched ==
    ASSUME NEW f \in Fields, FieldAgrees(f), field'[f] = field[f], stored'[f] = stored[f],
           \A c : c \in calls /\ c.on = f <=> c \in calls' /\ c.on = f
    PROVE  FieldAgrees(f)'
    <1>1. CallsOn(f)' = CallsOn(f)
        BY DEF CallsOn
    <1> QED
        BY <1>1 DEF FieldAgrees, Idle

LEMMA FieldsStep ==
    TypeOK /\ IdleIsReadonly /\ LostAreUnsure /\ FieldsAgree /\ [Next]_vars
        => FieldsAgree'
    <1> SUFFICES ASSUME TypeOK, IdleIsReadonly, LostAreUnsure,
                        FieldsAgree, [Next]_vars, gate' # "noPolicy",
                        NEW f \in Fields, f \notin unsure'
                 PROVE  FieldAgrees(f)'
        BY DEF FieldsAgree
    <1>0. /\ gate # "noPolicy"
          /\ field \in [Fields -> FieldStates] /\ stored \in [Fields -> Values]
          /\ \A h \in Fields : field[h] \in FieldStates
        BY GateShuts, Types, TypeParts DEF Typed
    <1>1. f \notin unsure =>
              /\ \A c \in calls : c.on = f => /\ c.heard /\ c.op = "update"
                                              /\ c.value = field[f].shown
                                              /\ c.stage = "ok" => stored[f] = field[f].shown
              /\ \/ stored[f] = field[f].oldvalue
                 \/ \E c \in calls : c.on = f /\ c.stage = "ok"
              /\ Idle(f) => field[f].shown = field[f].oldvalue
        <2>1. \A c \in calls : c.on = f => c.heard \/ f \in unsure
            BY <1>0 DEF LostAreUnsure
        <2>2. \A c \in calls : c.on = f => c.op = "update"
            BY Types
        <2> QED
            BY <1>0, <2>1, <2>2 DEF FieldsAgree, FieldAgrees, CallsOn
    <1>2. ASSUME f \notin unsure, field'[f] = field[f], stored'[f] = stored[f],
                 \A c : c \in calls /\ c.on = f <=> c \in calls' /\ c.on = f
          PROVE  FieldAgrees(f)'
        BY <1>0, <1>2, FieldUntouched DEF FieldsAgree
    (* The conjuncts of FieldAgrees(f)', spelled out.                          *)
    <1>3. ASSUME \A c \in calls' : c.on = f =>
                     /\ c.value = field'[f].shown
                     /\ c.stage = "ok" => stored'[f] = field'[f].shown,
                 \/ stored'[f] = field'[f].oldvalue
                 \/ \E c \in calls' : c.on = f /\ c.stage = "ok",
                 "edit" \in field'[f].buttons => field'[f].shown = field'[f].oldvalue
          PROVE  FieldAgrees(f)'
        BY <1>3 DEF FieldAgrees, CallsOn, Idle
    <1>4. ASSUME NEW h \in Fields, Edit(h) PROVE FieldAgrees(f)'
        <2>1. f \notin unsure /\ calls' = calls /\ stored' = stored
            BY <1>4 DEF Edit, doubts, network, server
        <2>2. CASE h = f
            <3>1. field'[f] = Editable(field[f])
                BY <1>0, <1>4, <2>2 DEF Edit
            <3>2. /\ Editable(field[f]).oldvalue = field[f].oldvalue
                  /\ "edit" \notin Editable(field[f]).buttons
                BY <1>0, NotIdle DEF Editable, ActionState, FieldStates
            <3>3. Editable(field[f]).shown = field[f].shown
                BY <1>0 DEF Editable, ActionState, FieldStates
            <3> QED
                BY <1>1, <1>3, <2>1, <2>2, <3>1, <3>2, <3>3
        <2>3. CASE h # f
            BY <1>0, <1>2, <1>4, <2>1, <2>3 DEF Edit
        <2> QED
            BY <2>2, <2>3
    <1>5. ASSUME NEW h \in Fields, NEW v \in Values, Type(h, v) PROVE FieldAgrees(f)'
        <2>1. f \notin unsure /\ calls' = calls /\ stored' = stored
              /\ (h = f => \A c \in calls : c.on # f)
            BY <1>5 DEF Type, Meddled, Doubt, CallsOn, network, server
        <2>2. CASE h = f
            <3>1. field'[f] = [field[f] EXCEPT !.shown = v]
                BY <1>0, <1>5, <2>2 DEF Type
            <3>2. /\ [field[f] EXCEPT !.shown = v].oldvalue = field[f].oldvalue
                  /\ [field[f] EXCEPT !.shown = v].buttons = field[f].buttons
                BY <1>0 DEF FieldStates
            <3>3. "edit" \notin field[f].buttons
                BY <1>5, <2>2 DEF Type, IdleIsReadonly, Idle
            <3> QED
                BY <1>1, <1>3, <2>1, <2>2, <3>1, <3>2, <3>3
        <2>3. CASE h # f
            BY <1>0, <1>2, <1>5, <2>1, <2>3 DEF Type
        <2> QED
            BY <2>2, <2>3
    <1>6. ASSUME NEW h \in Fields, Accept(h) PROVE FieldAgrees(f)'
        <2>1. f \notin unsure /\ stored' = stored
            BY <1>6 DEF Accept, doubts, server
        <2>2. /\ calls \subseteq calls'
              /\ \A c \in calls' : \/ c \in calls
                                   \/ c.on = h /\ c.value = field[h].shown /\ c.stage = "sent"
            BY <1>6 DEF Accept, Send, UpdateCall
        <2>3. CASE h = f
            <3>1. field'[f] = ActionState(field[f], "wait")
                BY <1>0, <1>6, <2>3 DEF Accept
            <3>2. /\ ActionState(field[f], "wait").oldvalue = field[f].oldvalue
                  /\ ActionState(field[f], "wait").shown = field[f].shown
                  /\ "edit" \notin ActionState(field[f], "wait").buttons
                BY <1>0, NotIdle DEF ActionState, FieldStates
            <3> QED
                BY <1>1, <1>3, <2>1, <2>2, <2>3, <3>1, <3>2
        <2>4. CASE h # f
            BY <1>0, <1>2, <1>6, <2>1, <2>2, <2>4 DEF Accept
        <2> QED
            BY <2>3, <2>4
    <1>7. ASSUME NEW h \in Fields, AcceptUnchanged(h) PROVE FieldAgrees(f)'
        <2>1. f \notin unsure /\ calls' = calls /\ stored' = stored
            BY <1>7 DEF AcceptUnchanged, doubts, network, server
        <2>2. CASE h = f
            <3>1. field'[f] = Restored(field[f]) /\ field[f].shown = field[f].oldvalue
                BY <1>0, <1>7, <2>2 DEF AcceptUnchanged
            <3>2. /\ Restored(field[f]).oldvalue = field[f].oldvalue
                  /\ Restored(field[f]).shown = field[f].shown
                BY <1>0 DEF Restored, ActionState, FieldStates
            <3> QED
                BY <1>1, <1>3, <2>1, <3>1, <3>2
        <2>3. CASE h # f
            BY <1>0, <1>2, <1>7, <2>1, <2>3 DEF AcceptUnchanged
        <2> QED
            BY <2>2, <2>3
    <1>8. ASSUME NEW h \in Fields, Cancel(h) PROVE FieldAgrees(f)'
        <2>1. f \notin unsure /\ calls' = calls /\ stored' = stored
              /\ (h = f => \A c \in calls : c.on # f)
            BY <1>8 DEF Cancel, Meddled, Doubt, CallsOn, network, server
        <2>2. CASE h = f
            <3>1. field'[f] = [Restored(field[f]) EXCEPT !.shown = field[f].oldvalue]
                BY <1>0, <1>8, <2>2 DEF Cancel
            <3>2. /\ [Restored(field[f]) EXCEPT !.shown = field[f].oldvalue].oldvalue
                         = field[f].oldvalue
                  /\ [Restored(field[f]) EXCEPT !.shown = field[f].oldvalue].shown
                         = field[f].oldvalue
                BY <1>0 DEF Restored, ActionState, FieldStates
            <3> QED
                BY <1>1, <1>3, <2>1, <2>2, <3>1, <3>2
        <2>3. CASE h # f
            BY <1>0, <1>2, <1>8, <2>1, <2>3 DEF Cancel
        <2> QED
            BY <2>2, <2>3
    <1>9. ASSUME NEW g \in Groups, GroupCreate(g) \/ GroupDelete(g) PROVE FieldAgrees(f)'
        <2>1. g # f
            BY PageAssumption
        <2>2. \A op : GroupCall(op, g).on = g
            BY DEF GroupCall
        <2>3. \A c : c \in calls /\ c.on = f <=> c \in calls' /\ c.on = f
            BY <1>9, <2>1, <2>2 DEF GroupCreate, GroupDelete, SendGroupCall, Send
        <2>4. f \notin unsure /\ field' = field /\ stored' = stored
            BY <1>9 DEF GroupCreate, GroupDelete, SendGroupCall, Doubt, browser, server
        <2> QED
            BY <1>2, <2>3, <2>4
    <1>10. ASSUME NEW c \in calls, Serve(c) PROVE FieldAgrees(f)'
        <2>1. field' = field /\ f \notin unsure
            <3>1. field' = field
                BY <1>10, ServeKeeps DEF browser
            <3> QED
                BY <1>10, <3>1 DEF Serve, Refuse, ReadRow, WriteRow, FailCall, CreateGroup,
                                   DeleteGroup, Doubt, doubts
        <2>2. PICK s \in Answers \cup {"read"} : Served(c, s)
            BY <1>10, ServeKeeps
        <2>3. c.on # f => \A d : d \in calls /\ d.on = f <=> d \in calls' /\ d.on = f
            BY <2>2 DEF Served
        <2>4. CASE WriteRow(c) /\ c.on = f
            <3>1. Served(c, "ok")
                BY <2>4, AnswerCalls, TypeParts DEF WriteRow, Answers, Typed
            <3>2. c.op = "update" /\ c.heard /\ c.value = field[f].shown
                BY <1>1, <2>1, <2>4
            <3>3. stored'[f] = c.value
                <4>1. c.row \in [Fields -> Values]
                    BY <2>4, Types, CallChanges DEF WriteRow
                <4> QED
                    BY <1>0, <2>4, <4>1 DEF WriteRow
            <3>4. \A d \in calls' : d.on = f => d.value = field[f].shown
                BY <1>1, <2>1, <3>1, <3>2 DEF Served
            <3>5. \E d \in calls' : d.on = f /\ d.stage = "ok"
                BY <2>4, <3>1, <3>2 DEF Served
            <3> QED
                BY <1>1, <1>3, <2>1, <3>2, <3>3, <3>4, <3>5 DEF Idle
        <2>5. CASE WriteRow(c) /\ c.on # f
            <3>1. stored'[f] = stored[f]
                BY <1>0, <2>1, <2>5 DEF WriteRow, Doubt
            <3> QED
                BY <1>2, <2>1, <2>3, <2>5, <3>1
        <2>6. CASE ~ WriteRow(c) /\ c.on # f
            <3>1. stored' = stored
                BY <1>10, <2>6 DEF Serve, Refuse, ReadRow, FailCall, CreateGroup, DeleteGroup,
                                   server
            <3> QED
                BY <1>2, <2>1, <2>3, <2>6, <3>1
        (* The call goes on in a stage that tells nothing of what is stored.   *)
        <2>7. CASE ~ WriteRow(c) /\ c.on = f
            <3>1. c.op = "update"
                BY <1>1, <2>1, <2>7
            <3>2. PICK n \in {"read", "text", "failed"} : Served(c, n)
                BY <1>10, <2>7, <3>1, ServeStages DEF CreateGroup, DeleteGroup
            <3>3. stored' = stored /\ c.stage # "ok"
                BY <1>10, <2>7, <3>1
                   DEF Serve, Refuse, ReadRow, FailCall, CreateGroup, DeleteGroup, server
            <3>4. \A d \in calls' : d.on = f => /\ d.value = field[f].shown
                                                /\ d.stage = "ok" => stored[f] = field[f].shown
                BY <1>1, <2>1, <2>7, <3>1, <3>2 DEF Served
            <3>5. stored[f] = field[f].oldvalue \/ \E d \in calls' : d.on = f /\ d.stage = "ok"
                BY <1>1, <2>1, <3>2, <3>3 DEF Served
            <3> QED
                BY <1>1, <1>3, <2>1, <3>3, <3>4, <3>5 DEF Idle
        <2> QED
            BY <2>4, <2>5, <2>6, <2>7
    <1>11. ASSUME NEW c \in calls, Drop(c) PROVE FieldAgrees(f)'
        <2>1. f \notin unsure /\ field' = field /\ stored' = stored
            BY <1>11 DEF Drop, browser, server, doubts
        <2>2. c.on # f
            BY <1>1, <1>11, <2>1 DEF Drop
        <2> QED
            BY <1>2, <1>11, <2>1, <2>2 DEF Drop
    <1>12. ASSUME NEW c \in calls, UpdateSucceeds(c) PROVE FieldAgrees(f)'
        <2>1. /\ f \notin unsure /\ stored' = stored /\ calls' = calls \ {c}
              /\ c.on = f => c.stage = "ok"
            BY <1>12 DEF UpdateSucceeds, Hear, server
        <2>2. CASE c.on = f
            <3>1. c.stage = "ok"
                BY <2>1, <2>2
            <3>2. field'[f] = [Restored(field[f]) EXCEPT !.oldvalue = c.value]
                BY <1>0, <1>12, <2>2 DEF UpdateSucceeds
            <3>3. /\ [Restored(field[f]) EXCEPT !.oldvalue = c.value].shown = field[f].shown
                  /\ [Restored(field[f]) EXCEPT !.oldvalue = c.value].oldvalue = c.value
                BY <1>0 DEF Restored, ActionState, FieldStates
            <3> QED
                BY <1>1, <1>3, <2>1, <2>2, <3>1, <3>2, <3>3
        <2>3. CASE c.on # f
            <3>1. field'[f] = field[f]
                BY <1>0, <1>12, <2>3 DEF UpdateSucceeds
            <3> QED
                BY <1>2, <2>1, <2>3, <3>1
        <2> QED
            BY <2>2, <2>3
    <1>13. ASSUME NEW c \in calls, GroupCreated(c) \/ GroupDeleted(c) \/ GroupRefused(c)
           PROVE  FieldAgrees(f)'
        <2>1. c.on # f
            BY <1>13, Types DEF GroupCreated, GroupDeleted, GroupRefused
        <2>2. f \notin unsure /\ stored' = stored /\ field' = field /\ calls' = calls \ {c}
            BY <1>13 DEF GroupCreated, GroupDeleted, GroupRefused, server, doubts
        <2> QED
            BY <1>2, <2>1, <2>2
    <1>14. ASSUME NEW c \in calls, CallFails(c) PROVE FieldAgrees(f)'
        <2>1. /\ f \notin unsure /\ stored' = stored /\ field' = field
              /\ calls' = calls \ {c} /\ c.stage = "failed"
            BY <1>14 DEF CallFails, Failure, Hear, server, doubts
        <2> QED
            BY <1>1, <1>3, <2>1 DEF Idle
    <1>15. ASSUME NEW c \in calls, TimeOut(c) PROVE FieldAgrees(f)'
        <2>1. f \notin unsure /\ c.on # f /\ stored' = stored
              /\ calls' = (calls \ {c}) \cup Unheard({c})
            BY <1>15 DEF TimeOut, Failure, Doubt, server
        <2>2. field'[f] = field[f]
            BY <1>15 DEF TimeOut, Failure
        <2>3. \A d \in Unheard({c}) : d.on = c.on
            <3>1. {c} \in SUBSET Calls
                BY Types
            <3> QED
                BY <3>1, UnheardCalls
        <2> QED
            BY <1>2, <2>1, <2>2, <2>3
    <1>16. CASE ShowPage
        <2>1. \A d \in Unheard(calls) : d.on # f
            BY <1>16 DEF ShowPage
        <2>2. field'[f] = Shown(stored[f]) /\ stored' = stored /\ calls' = Unheard(calls)
            BY <1>16 DEF ShowPage, server
        <2>3. Shown(stored[f]).shown = stored[f] /\ Shown(stored[f]).oldvalue = stored[f]
            BY DEF Shown
        <2> QED
            BY <1>3, <2>1, <2>2, <2>3
    <1>17. CASE DeletePolicy \/ PolicyGoes
        BY <1>17 DEF DeletePolicy, PolicyGoes
    <1>18. CASE SessionEnds \/ SessionResumes \/ UNCHANGED vars
        BY <1>2, <1>18 DEF SessionEnds, SessionResumes, vars, browser, network, doubts
    <1>19. CASE Dismiss
        <2>1. f \notin unsure /\ stored' = stored /\ calls' = calls
            BY <1>19 DEF Dismiss, network, server, doubts
        <2>2. CASE f \in halted
            <3>1. field'[f] = ActionState(field[f], "edit")
                BY <1>19, <2>2 DEF Dismiss
            <3>2. /\ ActionState(field[f], "edit").oldvalue = field[f].oldvalue
                  /\ ActionState(field[f], "edit").shown = field[f].shown
                  /\ "edit" \notin ActionState(field[f], "edit").buttons
                BY <1>0, NotIdle DEF ActionState, FieldStates
            <3> QED
                BY <1>1, <1>3, <2>1, <3>1, <3>2
        <2>3. CASE f \notin halted
            <3>1. field'[f] = field[f]
                BY <1>19, <2>3 DEF Dismiss
            <3> QED
                BY <1>2, <2>1, <3>1
        <2> QED
            BY <2>2, <2>3
    <1>20. ASSUME NEW row \in [Fields -> Values], OtherUpdates(row) PROVE FieldAgrees(f)'
        <2>1. /\ f \notin unsure /\ stored'[f] = stored[f] /\ field' = field
              /\ calls' = calls
            BY <1>20 DEF OtherUpdates, Doubt, browser, network
        <2> QED
            BY <1>2, <2>1
    <1>21. ASSUME NEW g \in Groups, OtherGroups(g) PROVE FieldAgrees(f)'
        <2>1. f \notin unsure /\ stored' = stored /\ field' = field /\ calls' = calls
            BY <1>21 DEF OtherGroups, Doubt, browser, network
        <2> QED
            BY <1>2, <2>1
    <1> QED
        BY <1>4, <1>5, <1>6, <1>7, <1>8, <1>9, <1>10, <1>11, <1>12, <1>13, <1>14, <1>15,
           <1>16, <1>17, <1>18, <1>19, <1>20, <1>21 DEF Next, User, Handle, Others

--------------------------------------------------------------------------------
(* Groups.                                                                   *)

LEMMA GroupUntouched ==
    ASSUME NEW g \in Groups, GroupAgrees(g), rows'[g] = rows[g],
           g \in storedGroups' <=> g \in storedGroups,
           \A c : c \in calls /\ c.on = g <=> c \in calls' /\ c.on = g
    PROVE  GroupAgrees(g)'
    <1>1. CallsOn(g)' = CallsOn(g)
        BY DEF CallsOn
    <1>2. RowsAgree(g)' <=> RowsAgree(g)
        BY DEF RowsAgree
    <1> QED
        BY <1>1, <1>2 DEF GroupAgrees

LEMMA GroupsStep ==
    TypeOK /\ LostAreUnsure /\ GroupsAgree /\ [Next]_vars => GroupsAgree'
    <1> SUFFICES ASSUME TypeOK, LostAreUnsure, GroupsAgree, [Next]_vars, gate' # "noPolicy",
                        NEW g \in Groups, g \notin unsure'
                 PROVE  GroupAgrees(g)'
        BY DEF GroupsAgree
    <1>0. /\ gate # "noPolicy" /\ rows \in [Groups -> Nat] /\ rows[g] \in Nat
        BY GateShuts, TypeParts DEF Typed
    (* What GroupAgrees(g) says, spelled out.                                  *)
    <1>1. g \notin unsure =>
              /\ \A c \in calls : c.on = g => c.heard /\ c.op # "update"
              /\ \A c, d \in calls : c.on = g /\ d.on = g => c.op = d.op
              /\ \A c, d \in calls :
                    /\ c.on = g /\ d.on = g
                    /\ c.op = "groupCreate" /\ c.stage = "ok" /\ d.stage = "ok"
                    => c = d
              /\ \A c \in calls :
                    c.on = g /\ c.stage = "ok" /\ c.op = "groupCreate"
                    => g \in storedGroups /\ rows[g] = 0
              /\ \A c \in calls :
                    c.on = g /\ c.stage = "ok" /\ c.op # "groupCreate"
                    => g \notin storedGroups /\ rows[g] <= 1
              /\ (\A c \in calls : c.on = g => c.stage # "ok") => RowsAgree(g)
        <2>1. \A c \in calls : c.on = g => c.heard \/ g \in unsure
            BY <1>0 DEF LostAreUnsure
        <2>2. \A c \in calls : c.on = g => c.op # "update"
            BY Types
        <2>3. g \notin unsure => GroupAgrees(g)
            BY <1>0 DEF GroupsAgree
        <2> QED
            BY <2>1, <2>2, <2>3 DEF GroupAgrees, CallsOn
    <1>2. ASSUME g \notin unsure, rows'[g] = rows[g],
                 g \in storedGroups' <=> g \in storedGroups,
                 \A c : c \in calls /\ c.on = g <=> c \in calls' /\ c.on = g
          PROVE  GroupAgrees(g)'
        BY <1>0, <1>2, GroupUntouched DEF GroupsAgree
    (* No call on g: only rows and storedGroups count.                         *)
    <1>3. ASSUME \A c \in calls' : c.on # g,
                 rows'[g] = IF g \in storedGroups' THEN 1 ELSE 0
          PROVE  GroupAgrees(g)'
        BY <1>3 DEF GroupAgrees, RowsAgree, CallsOn
    (* No more calls that succeeded than before, and nothing else changes.     *)
    <1>20. ASSUME g \notin unsure, rows'[g] = rows[g],
                  g \in storedGroups' <=> g \in storedGroups,
                  \A c \in calls' : c.on = g /\ c.stage = "ok" => c \in calls,
                  \A c \in calls : c.on = g /\ c.stage = "ok" => c \in calls',
                  \A c, d \in calls' : c.on = g /\ d.on = g => c.op = d.op
           PROVE  GroupAgrees(g)'
        <2>1. RowsAgree(g)' <=> RowsAgree(g)
            BY <1>20 DEF RowsAgree
        <2>2. \A c, d \in calls' :
                 /\ c.on = g /\ d.on = g
                 /\ c.op = "groupCreate" /\ c.stage = "ok" /\ d.stage = "ok"
                 => c = d
            BY <1>1, <1>20
        <2>3. \A c \in calls' :
                 c.on = g /\ c.stage = "ok"
                 => IF c.op = "groupCreate" THEN g \in storedGroups' /\ rows'[g] = 0
                    ELSE g \notin storedGroups' /\ rows'[g] <= 1
            BY <1>1, <1>20
        <2>4. (\A c \in calls' : c.on = g => c.stage # "ok") => RowsAgree(g)'
            BY <1>1, <1>20, <2>1
        <2> QED
            BY <1>20, <2>2, <2>3, <2>4 DEF GroupAgrees, CallsOn
    <1>4. ASSUME NEW f \in Fields,
                 \/ Edit(f) \/ Accept(f) \/ AcceptUnchanged(f) \/ Cancel(f)
                 \/ \E v \in Values : Type(f, v)
          PROVE  GroupAgrees(g)'
        <2>1. f # g
            BY PageAssumption
        <2>2. g \notin unsure /\ rows' = rows /\ storedGroups' = storedGroups
            BY <1>4 DEF Edit, Accept, AcceptUnchanged, Cancel, Type, Meddled, Doubt, server,
                        doubts
        <2>3. \A i : UpdateCall(i, f).on = f
            BY DEF UpdateCall
        <2>4. \A c : c \in calls /\ c.on = g <=> c \in calls' /\ c.on = g
            BY <1>4, <2>1, <2>3
               DEF Edit, Accept, AcceptUnchanged, Cancel, Type, Send, network
        <2> QED
            BY <1>2, <2>2, <2>4
    <1>5. ASSUME NEW h \in Groups, NEW op \in {"groupCreate", "groupDelete"},
                 SendGroupCall(op, h)
          PROVE  GroupAgrees(g)'
        <2> DEFINE n == GroupCall(op, h)
        <2>1. n.on = h /\ n.op = op /\ n.stage = "sent"
            BY DEF GroupCall
        <2>2. calls' = calls \cup {n} /\ rows' = rows /\ storedGroups' = storedGroups
            BY <1>5 DEF SendGroupCall, Send, browser, server
        <2>3. g \notin unsure /\ (h = g => \A c \in calls : c.on = g => c.op = op)
            BY <1>5 DEF SendGroupCall, CallsOn, Doubt
        <2> HIDE DEF n
        <2>4. CASE h # g
            BY <1>2, <2>1, <2>2, <2>3, <2>4
        <2>5. CASE h = g
            BY <1>1, <1>20, <2>1, <2>2, <2>3, <2>5
        <2> QED
            BY <2>4, <2>5
    <1>6. ASSUME NEW h \in Groups, GroupCreate(h) \/ GroupDelete(h) PROVE GroupAgrees(g)'
        BY <1>5, <1>6 DEF GroupCreate, GroupDelete
    <1>7. ASSUME NEW c \in calls, Serve(c) PROVE GroupAgrees(g)'
        <2>1. rows' = rows /\ g \notin unsure
            <3>1. rows' = rows
                BY <1>7, ServeKeeps DEF browser
            <3> QED
                BY <1>7, <3>1 DEF Serve, Refuse, ReadRow, WriteRow, FailCall, CreateGroup,
                                  DeleteGroup, Doubt, doubts
        <2>2. PICK s \in Answers \cup {"read"} : Served(c, s)
            BY <1>7, ServeKeeps
        <2>3. CASE c.on # g
            <3>1. \A d : d \in calls /\ d.on = g <=> d \in calls' /\ d.on = g
                BY <2>2, <2>3 DEF Served
            <3>2. DeleteGroup(c) => PathGroup[c.on] # g
                BY <2>3 DEF DeleteGroup, Doubt
            <3>3. g \in storedGroups' <=> g \in storedGroups
                BY <1>7, <2>3, <3>2
                   DEF Serve, Refuse, ReadRow, WriteRow, FailCall, CreateGroup, DeleteGroup,
                       server
            <3> QED
                BY <1>2, <2>1, <3>1, <3>3
        <2>4. CASE c.on = g
            <3>1. c.heard /\ c.op # "update" /\ \A d \in calls : d.on = g => d.op = c.op
                BY <1>1, <2>1, <2>4
            <3>2. \A d, e \in calls' : d.on = g /\ e.on = g => d.op = e.op
                BY <2>2, <2>4, <3>1 DEF Served
            <3>3. c.stage # "ok"
                BY <1>7, ServeKeeps DEF Pending
            (* The call ends in another stage than ok, and nothing changes.    *)
            <3>4. ASSUME NEW n, Served(c, n), n # "ok",
                         g \in storedGroups' <=> g \in storedGroups
                  PROVE  GroupAgrees(g)'
                <4>1. \A d \in calls' : d.on = g /\ d.stage = "ok" => d \in calls
                    BY <3>4 DEF Served
                <4>2. \A d \in calls : d.on = g /\ d.stage = "ok" => d \in calls'
                    BY <3>3, <3>4 DEF Served
                <4> QED
                    BY <1>20, <2>1, <3>2, <3>4, <4>1, <4>2
            <3>5. CASE Refuse(c) /\ Served(c, "text")
                BY <3>4, <3>5 DEF Refuse
            <3>6. CASE FailCall(c) /\ Served(c, "failed")
                BY <3>4, <3>6 DEF FailCall
            <3>7. CASE CreateGroup(c) /\ g \in storedGroups /\ Served(c, "text")
                BY <2>4, <3>4, <3>7 DEF CreateGroup
            <3>8. CASE CreateGroup(c) /\ g \notin storedGroups /\ Served(c, "ok")
                <4>1. g \in storedGroups' /\ c.op = "groupCreate"
                    BY <2>4, <3>8 DEF CreateGroup
                <4>2. \A d \in calls : d.on = g => d.stage # "ok"
                    BY <1>1, <2>1, <3>1, <3>8, <4>1
                <4>3. rows'[g] = 0
                    BY <1>1, <2>1, <3>8, <4>2 DEF RowsAgree
                <4>4. \A d \in calls' : d.on = g => d.op = "groupCreate"
                    BY <3>1, <3>8, <4>1 DEF Served
                <4>5. \A d, e \in calls' :
                         d.on = g /\ e.on = g /\ d.stage = "ok" /\ e.stage = "ok" => d = e
                    BY <3>8, <4>2 DEF Served
                <4>6. \E d \in calls' : d.on = g /\ d.stage = "ok"
                    BY <2>4, <3>1, <3>8 DEF Served
                <4> QED
                    BY <3>2, <4>1, <4>3, <4>4, <4>5, <4>6 DEF GroupAgrees, CallsOn
            <3>9. CASE DeleteGroup(c) /\ Served(c, "ok")
                <4>1. PathGroup[g] = g /\ c.op = "groupDelete"
                    BY <2>4, <3>9 DEF DeleteGroup, Doubt
                <4>2. g \notin storedGroups'
                    BY <2>4, <3>9, <4>1 DEF DeleteGroup
                <4>3. rows'[g] <= 1
                    <5>1. CASE \E d \in calls : d.on = g /\ d.stage = "ok"
                        BY <1>1, <2>1, <3>1, <4>1, <5>1
                    <5>2. CASE \A d \in calls : d.on = g => d.stage # "ok"
                        BY <1>1, <2>1, <5>2 DEF RowsAgree
                    <5> QED
                        BY <5>1, <5>2
                <4>4. \A d \in calls' : d.on = g => d.op = "groupDelete"
                    BY <3>1, <3>9, <4>1 DEF Served
                <4>5. \E d \in calls' : d.on = g /\ d.stage = "ok"
                    BY <2>4, <3>1, <3>9 DEF Served
                <4> QED
                    BY <3>2, <4>2, <4>3, <4>4, <4>5 DEF GroupAgrees, CallsOn
            <3> QED
                BY <1>7, <2>4, <3>1, <3>5, <3>6, <3>7, <3>8, <3>9, ServeStages
                   DEF ReadRow, WriteRow
        <2> QED
            BY <2>3, <2>4
    <1>8. ASSUME NEW c \in calls, Drop(c) PROVE GroupAgrees(g)'
        <2>1. g \notin unsure /\ rows' = rows /\ storedGroups' = storedGroups
            BY <1>8 DEF Drop, browser, server, doubts
        <2>2. c.on # g
            BY <1>1, <1>8, <2>1 DEF Drop
        <2> QED
            BY <1>2, <1>8, <2>1, <2>2 DEF Drop
    <1>9. ASSUME NEW c \in calls, UpdateSucceeds(c) PROVE GroupAgrees(g)'
        <2>1. c.on # g
            BY <1>9, Types DEF UpdateSucceeds
        <2>2. g \notin unsure /\ rows' = rows /\ storedGroups' = storedGroups
              /\ calls' = calls \ {c}
            BY <1>9, <2>1 DEF UpdateSucceeds, server
        <2> QED
            BY <1>2, <2>1, <2>2
    <1>10. ASSUME NEW c \in calls,
                  GroupCreated(c) \/ GroupDeleted(c) \/ GroupRefused(c) \/ CallFails(c)
           PROVE  GroupAgrees(g)'
        <2>1. g \notin unsure /\ storedGroups' = storedGroups /\ calls' = calls \ {c}
            BY <1>10 DEF GroupCreated, GroupDeleted, GroupRefused, CallFails, Failure, server,
                         doubts
        <2>2. CASE c.on # g
            <3>1. c.on \in Groups \/ CallFails(c)
                BY <1>10, Types DEF GroupCreated, GroupDeleted, GroupRefused
            <3>2. rows'[g] = rows[g]
                BY <1>0, <1>10, <2>2, <3>1
                   DEF GroupCreated, GroupDeleted, GroupRefused, CallFails, Failure
            <3> QED
                BY <1>2, <2>1, <2>2, <3>2
        <2>3. CASE c.on = g /\ (GroupRefused(c) \/ CallFails(c))
            <3>1. rows' = rows /\ c.stage # "ok"
                BY <2>3 DEF GroupRefused, CallFails, Failure, Hear
            <3> QED
                BY <1>1, <1>20, <2>1, <3>1
        <2>4. CASE c.on = g /\ GroupCreated(c)
            <3>1. c.op = "groupCreate" /\ c.stage = "ok" /\ rows'[g] = rows[g] + 1
                BY <1>0, <2>4 DEF GroupCreated, Hear
            <3>2. g \in storedGroups' /\ rows'[g] = 1
                BY <1>1, <2>1, <2>4, <3>1
            <3>3. \A d \in calls' : d.on = g => d.stage # "ok"
                BY <1>1, <2>1, <2>4, <3>1
            <3>4. \A d, e \in calls' : d.on = g /\ e.on = g => d.op = e.op
                BY <1>1, <2>1
            <3> QED
                BY <3>2, <3>3, <3>4 DEF GroupAgrees, RowsAgree, CallsOn
        <2>5. CASE c.on = g /\ GroupDeleted(c)
            <3>1. /\ c.op = "groupDelete" /\ c.stage = "ok"
                  /\ rows'[g] = IF rows[g] > 0 THEN rows[g] - 1 ELSE 0
                BY <1>0, <2>5 DEF GroupDeleted, Hear
            <3>2. g \notin storedGroups' /\ rows'[g] = 0
                BY <1>0, <1>1, <2>1, <2>5, <3>1
            <3>3. \A d \in calls' : d.on = g => d.op = "groupDelete"
                BY <1>1, <2>1, <2>5, <3>1
            <3> QED
                BY <3>2, <3>3 DEF GroupAgrees, RowsAgree, CallsOn
        <2> QED
            BY <1>10, <2>2, <2>3, <2>4, <2>5
    <1>11. ASSUME NEW c \in calls, TimeOut(c) PROVE GroupAgrees(g)'
        <2>1. g \notin unsure /\ c.on # g /\ rows' = rows /\ storedGroups' = storedGroups
              /\ calls' = (calls \ {c}) \cup Unheard({c})
            BY <1>11 DEF TimeOut, Failure, Doubt, server
        <2>2. \A d \in Unheard({c}) : d.on = c.on
            <3>1. {c} \in SUBSET Calls
                BY Types
            <3> QED
                BY <3>1, UnheardCalls
        <2> QED
            BY <1>2, <2>1, <2>2
    <1>12. CASE ShowPage
        <2>1. \A d \in Unheard(calls) : d.on # g
            BY <1>12 DEF ShowPage
        <2> QED
            BY <1>3, <1>12, <2>1 DEF ShowPage, server
    <1>13. CASE DeletePolicy \/ PolicyGoes
        BY <1>13 DEF DeletePolicy, PolicyGoes
    <1>14. CASE Dismiss \/ SessionEnds \/ SessionResumes \/ UNCHANGED vars
        BY <1>2, <1>14 DEF Dismiss, SessionEnds, SessionResumes, vars, browser, network,
                           server, doubts
    <1>15. ASSUME NEW row \in [Fields -> Values], OtherUpdates(row) PROVE GroupAgrees(g)'
        <2>1. /\ g \notin unsure /\ storedGroups' = storedGroups /\ rows' = rows
              /\ calls' = calls
            BY <1>15 DEF OtherUpdates, Doubt, browser, network
        <2> QED
            BY <1>2, <2>1
    <1>16. ASSUME NEW h \in Groups, OtherGroups(h) PROVE GroupAgrees(g)'
        <2>1. g # h /\ g \notin unsure /\ rows' = rows /\ calls' = calls
            BY <1>16 DEF OtherGroups, Doubt, browser, network
        <2>2. g \in storedGroups' <=> g \in storedGroups
            BY <1>16, <2>1 DEF OtherGroups
        <2> QED
            BY <1>2, <2>1, <2>2
    <1> QED
        BY <1>4, <1>6, <1>7, <1>8, <1>9, <1>10, <1>11, <1>12, <1>13, <1>14, <1>15, <1>16
           DEF Next, User, Handle, Others

--------------------------------------------------------------------------------
(* The inductive invariant and the theorems.                                 *)

PageInv ==
    /\ TypeOK
    /\ ClockInv
    /\ IdleIsReadonly
    /\ StoredInv
    /\ LostAreUnsure
    /\ FieldsAgree
    /\ GroupsAgree

LEMMA InitInv == Init => PageInv
    <1> SUFFICES ASSUME Init PROVE PageInv
        OBVIOUS
    <1>1. \A f \in Fields : /\ field[f].shown = Seed[f] /\ field[f].oldvalue = Seed[f]
                            /\ field[f].readonly = TRUE
                            /\ field[f].buttons = {"edit"}
        BY ButtonSets DEF Init, Shown
    <1>7. halted = {}
        BY DEF Init
    <1>2. ClockInv /\ IdleIsReadonly
        BY <1>1, <1>7 DEF ClockInv, ClockMeansCall, IdleIsReadonly, Waiting
    <1>3. StoredInv
        BY <1>1 DEF Init, StoredInv, AnsweredWereStored, OldValueWasStored
    <1>4. LostAreUnsure
        BY DEF Init, LostAreUnsure
    <1>5. FieldsAgree
        BY <1>1 DEF Init, FieldsAgree, FieldAgrees, CallsOn
    <1>6. GroupsAgree
        BY DEF Init, GroupsAgree, GroupAgrees, RowsAgree, CallsOn
    <1> QED
        BY <1>2, <1>3, <1>4, <1>5, <1>6, TypeInit DEF PageInv

LEMMA StepInv == PageInv /\ [Next]_vars => PageInv'
    BY TypeStep, ClockStep, ReadonlyStep, StoredStep, LostStep, FieldsStep, GroupsStep
       DEF PageInv, StoredInv

LEMMA InvHolds == Spec => []PageInv
    BY InitInv, StepInv, PTL DEF Spec

(* No field is left waiting: while it shows the clock, the page listens to a *)
(* call on it or its failure handler stands at the alert, however many calls *)
(* a click sent and however they end.                                        *)
THEOREM ClockHasCall == Spec => []ClockMeansCall
    <1>1. PageInv => ClockMeansCall
        BY DEF PageInv, ClockInv
    <1> QED
        BY <1>1, InvHolds, PTL

(* What Cancel brings back has been stored, as long as there is the policy,  *)
(* but for a field whose last answer was a refusal taken for success.        *)
THEOREM CancelBringsBackStored == Spec => []OldValueWasStored
    <1>1. PageInv => OldValueWasStored
        BY DEF PageInv, StoredInv
    <1> QED
        BY <1>1, InvHolds, PTL

(* At rest the page and the database agree on all that is not in doubt: for  *)
(* any number of fields, whose updates each read a row and write it back,    *)
(* and of groups, calls, edits and other administrators.                     *)
THEOREM PageIsTrue == Spec => []PageTellsTheStore
    <1>1. PageInv => PageTellsTheStore
        <2> SUFFICES ASSUME PageInv, gate # "noPolicy"
                     PROVE  PageTellsTheStore
            BY DEF PageTellsTheStore
        <2>1. ASSUME NEW f \in Fields \ unsure, CallsOn(f) = {}
              PROVE  /\ field[f].oldvalue = stored[f]
                     /\ Idle(f) => field[f].shown = stored[f]
            BY <2>1 DEF PageInv, FieldsAgree, FieldAgrees
        <2>2. ASSUME NEW g \in Groups \ unsure, CallsOn(g) = {}
              PROVE  rows[g] = IF g \in storedGroups THEN 1 ELSE 0
            BY <2>2 DEF PageInv, GroupsAgree, GroupAgrees, RowsAgree
        <2> QED
            BY <2>1, <2>2 DEF PageTellsTheStore
    <1> QED
        BY <1>1, InvHolds, PTL
=============================================================================
