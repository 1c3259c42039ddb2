-------------------------------- MODULE Editors --------------------------------
(***************************************************************************)
(* The lists and forms of frontend/src/components through which a user     *)
(* changes what the server keeps: each handler sends a request, and when   *)
(* it is answered brings what is shown up to date in a way of its own.     *)
(* The handlers are closures: they go on with the selection, the list and  *)
(* the object of the moment they were called at.                           *)
(*                                                                         *)
(* A value is the number of the change it came with; a behaviour is that   *)
(* of one panel, chosen at the start, in one tab, with no other user.      *)
(***************************************************************************)
EXTENDS Integers, Sequences, SequencesExt

CONSTANTS
    Scopes,         \* workspaces or organizations to choose from
    Fields,         \* rows of a list, or fields of a form
    Summary,        \* of an entity, made by the server
    Relationships,  \* of an entity, changed one at a time
    MaxSent,        \* bound: requests under way
    MaxWrites,     \* bound: requests for a change
    MaxSelects,     \* bound: selections
    MaxFaults       \* bound: requests that fail

ASSUME EditorsAssumption ==
    /\ Summary \notin Fields /\ Relationships \notin Fields /\ Summary # Relationships
    /\ MaxSent \in Nat \ {0} /\ MaxWrites \in Nat /\ MaxSelects \in Nat /\ MaxFaults \in Nat

Entries == Fields \cup {Summary, Relationships}
Missing == -1       \* nothing is shown for the row
Typed == -2         \* what the user typed, a value when it is stored

------------------------------------------------------------------------------
(* The ways of the handlers.  rows: what they change; once: their control is  *)
(* disabled while they are under way; form: they send all fields of a form.   *)

Way(via, rows, once, form) == [via |-> via, rows |-> rows, once |-> once, form |-> form]

Patch == Way("patch", Fields, FALSE, FALSE)         \* setList((prev) => ...)
PutBack == Way("captured", Fields, FALSE, FALSE)    \* setList(list.filter(...))
Reload == Way("reload", Fields, FALSE, FALSE)       \* ask for the list again
Save == Way("object", Fields, TRUE, TRUE)           \* setSettings(updated)
EditMetadata == Way("metadata", Fields, TRUE, TRUE) \* onUpdated(updated)
Generate == Way("captured", {Summary}, TRUE, FALSE) \* onUpdated({ ...entity, summary })
Relate == Way("awaited", {Relationships}, TRUE, FALSE) \* await onChanged()
None == Way("none", {}, FALSE, FALSE)

(* The panels.  scoped: what is shown belongs to a selection; hides: it is    *)
(* not shown while a request for it is under way; clears: it is dropped when  *)
(* that request fails.                                                        *)

Editor(scoped, hides, clears, ways) ==
    [scoped |-> scoped, hides |-> hides, clears |-> clears, ways |-> ways]

EditWorkspaceMembers == Editor(TRUE, TRUE, FALSE, {Reload})
EditOrgMembers == EditWorkspaceMembers
EditLinks == Editor(TRUE, FALSE, TRUE, {Reload})
EditOrgLinks == EditLinks
EditChannelMembers == Editor(FALSE, FALSE, FALSE, {Reload})
EditAdminChannelMembers == EditChannelMembers
EditUserOrgs == Editor(FALSE, TRUE, FALSE, {Reload})
EditAdminChannels == EditUserOrgs
EditAccounts == EditUserOrgs
EditAllOrganizations == Editor(FALSE, FALSE, TRUE, {Reload})
EditAllWorkspaces == Editor(FALSE, FALSE, TRUE, {Patch, Reload})
EditOwnWorkspaces == Editor(FALSE, FALSE, FALSE, {Patch, Reload, PutBack})
EditOwnOrganizations == Editor(FALSE, FALSE, FALSE, {Patch, PutBack})
EditAiSettings == Editor(FALSE, TRUE, FALSE, {Save})
EditEntity == Editor(FALSE, TRUE, FALSE, {EditMetadata, Generate, Relate})

Editors ==
    {EditWorkspaceMembers, EditOrgMembers, EditLinks, EditOrgLinks, EditChannelMembers, EditAdminChannelMembers,
     EditUserOrgs, EditAdminChannels, EditAccounts, EditAllOrganizations, EditAllWorkspaces, EditOwnWorkspaces,
     EditOwnOrganizations, EditAiSettings, EditEntity}

------------------------------------------------------------------------------
VARIABLES
    editor,         \* the panel this behaviour is about
    scope,          \* what is selected
    stored,         \* what the server keeps of each scope
    display,        \* what the panel shows, and of which scope it is
    loading,        \* rows are hidden
    form,           \* the fields being edited
    sent,           \* the requests under way, in the order they were made
    clock,          \* changes the server has made
    spent,          \* changes, selections and faults so far
    heard,          \* history: the newest change of each scope whose answer came, or was lost
    undone,         \* history: rows an answer from before that left wrong
    unheard,        \* history: rows with a value the panel was not told of
    astray,         \* history: what is shown was an answer for another scope, or stayed
    reverted        \* history: rows a form was opened on when one of the two held

editorVars == <<editor, scope, stored, display, loading, form, sent, clock, spent, heard, undone,
               unheard, astray, reverted>>

Closed == [open |-> FALSE, has |-> [f \in Fields |-> Missing]]

\* A request, for what is shown or for a change of it.
Call(step, way, s, sends, seen) ==
    [step |-> step, way |-> way, scope |-> s, sends |-> sends,
     seen |-> IF way.via = "captured" THEN seen ELSE <<>>, got |-> <<>>, at |-> 0]

Ask(way, s) == Call("load", way, s, <<>>, [r \in Entries |-> Missing])

EditorsInit ==
    /\ editor \in Editors /\ scope \in Scopes
    /\ stored = [s \in Scopes |-> [r \in Entries |-> 0]]
    /\ display = [of |-> scope, rows |-> [r \in Entries |-> Missing]]
    /\ loading = editor.hides /\ form = Closed
    /\ sent = <<Ask(None, scope)>>
    /\ clock = 0 /\ spent = [changes |-> 0, selects |-> 0, faults |-> 0]
    /\ heard = [s \in Scopes |-> 0]
    /\ undone = {} /\ unheard = {} /\ astray = FALSE /\ reverted = {}

Spend(what, bound) == spent[what] < bound /\ spent' = [spent EXCEPT ![what] = @ + 1]

Send(request) == Len(sent) < MaxSent /\ sent' = Append(sent, request)
Busy(way) == way.once /\ \E k \in DOMAIN sent : sent[k].way = way

\* A row can be acted on when it is there to be seen; a new one, at any time.
Visible(row) == editor.hides => ~loading /\ display.rows[row] # Missing

------------------------------------------------------------------------------
(* What the user does.                                                        *)

Select(s) ==
    /\ editor.scoped /\ s # scope
    /\ Spend("selects", MaxSelects)
    /\ scope' = s /\ loading' = editor.hides
    /\ Send(Ask(None, s))
    /\ undone' = {} /\ unheard' = {}
    /\ UNCHANGED <<editor, heard, stored, display, form, clock, astray, reverted>>

\* A row's control is used.
Act(way, row) ==
    /\ way \in editor.ways /\ ~way.form /\ row \in way.rows
    /\ Visible(row) /\ ~Busy(way)
    /\ way.via = "captured" /\ ~editor.hides => display.rows[row] # Missing
    /\ Spend("changes", MaxWrites)
    /\ Send(Call("change", way, scope, [r \in {row} |-> Typed], display.rows))
    /\ UNCHANGED <<editor, heard, scope, stored, display, loading, form, clock, undone, unheard, astray, reverted>>

\* What a save under way is about to write back.
Reverting == IF \E k \in DOMAIN sent : sent[k].way.form THEN reverted ELSE {}

\* Mutant: the form keeps the fields it had when it was first opened.
EditWithOldFields ==
    /\ \E way \in editor.ways : way.form
    /\ ~form.open /\ \A f \in Fields : Visible(f)
    /\ form' = [open |-> TRUE, has |-> [f \in Fields |-> 0]]
    /\ reverted' = (Fields \cap (undone \cup unheard)) \cup Reverting
    /\ UNCHANGED <<editor, heard, scope, stored, display, loading, sent, clock, spent, undone, unheard, astray>>

\* startEditing: the form takes its fields from what is shown.
Edit ==
    /\ \E way \in editor.ways : way.form
    /\ ~form.open /\ \A f \in Fields : Visible(f)
    /\ form' = [open |-> TRUE, has |-> [f \in Fields |-> display.rows[f]]]
    /\ reverted' = (Fields \cap (undone \cup unheard)) \cup Reverting
    /\ UNCHANGED <<editor, heard, scope, stored, display, loading, sent, clock, spent, undone, unheard, astray>>

Cancel ==
    /\ form.open /\ form' = Closed
    /\ UNCHANGED <<editor, heard, scope, stored, display, loading, sent, clock, spent, undone, unheard, astray, reverted>>

\* handleSave: one field was typed in, and all are sent.
Submit(way, field) ==
    LET has == [form.has EXCEPT ![field] = Typed] IN
    /\ way \in editor.ways /\ way.form /\ form.open
    /\ ~loading /\ ~Busy(way)
    /\ Spend("changes", MaxWrites)
    /\ form' = [form EXCEPT !.has = has]
    /\ Send(Call("change", way, scope, has, display.rows))
    /\ UNCHANGED <<editor, heard, scope, stored, display, loading, clock, undone, unheard, astray, reverted>>

------------------------------------------------------------------------------
(* The server.                                                                *)

\* A typed value is new; the others of a form are written back as they are.
Stored(sends, now) ==
    [r \in Entries |-> IF r \notin DOMAIN sends THEN now[r]
                    ELSE IF sends[r] = Typed THEN clock + 1 ELSE sends[r]]

Serve(k) ==
    LET request == sent[k]
        now == stored[request.scope]
        then == IF request.step = "change" THEN Stored(request.sends, now) ELSE now
    IN
    /\ request.got = <<>>
    /\ stored' = [stored EXCEPT ![request.scope] = then]
    /\ clock' = IF request.step = "change" THEN clock + 1 ELSE clock
    /\ sent' = [sent EXCEPT ![k].got = then, ![k].at = clock']
    /\ UNCHANGED <<editor, heard, scope, display, loading, form, spent, undone, unheard, astray, reverted>>

------------------------------------------------------------------------------
(* The answers.                                                               *)

\* What is wrong stays so until the right value is shown.
Wrong(of, rows) == {r \in Entries : rows[r] # stored[of][r]}

Hear(of, at) == heard' = [heard EXCEPT ![of] = IF at > @ THEN at ELSE @]

Late(request) ==
    IF request.way.via = "captured" THEN request.seen # display.rows
    ELSE request.at < heard[request.scope]

Shows(of, rows, late) ==
    /\ display' = [of |-> of, rows |-> rows]
    /\ undone' = Wrong(of, rows) \cap (undone \cup IF late THEN Entries ELSE {})
    /\ unheard' = IF of = scope THEN unheard \cap Wrong(of, rows) ELSE unheard

\* The list, or the object, that was asked for.
AnswerLoad(k) ==
    LET request == sent[k] IN
    /\ request.step = "load" /\ request.got # <<>>
    /\ Shows(request.scope, request.got, Late(request)) /\ Hear(request.scope, request.at)
    /\ loading' = FALSE
    /\ astray' = (request.scope # scope)
    /\ sent' = RemoveAt(sent, k)
    /\ UNCHANGED <<editor, scope, stored, form, clock, spent, reverted>>

\* Mutant: a control that does not ask again.
NowForgetting(request) == display.rows

\* What the handler makes of the answer to its change, for the ways that show it.
Now(request) ==
    LET way == request.way
        written == DOMAIN request.sends
        Set(rows) == [r \in Entries |-> IF r \in written THEN request.got[r] ELSE rows[r]]
    IN
    CASE way.via = "patch" -> Set(display.rows)
      [] way.via = "captured" -> Set(request.seen)
      [] way.via = "object" -> request.got
      [] way.via = "metadata" -> [r \in Entries |-> IF r \in Fields THEN request.got[r] ELSE Missing]
      [] OTHER -> display.rows

AsksAgain(way) == way.via \in {"reload", "awaited"}

AnswerChange(k) ==
    LET request == sent[k]
        way == request.way
    IN
    /\ request.step = "change" /\ request.got # <<>>
    /\ IF AsksAgain(way)
       THEN /\ sent' = [sent EXCEPT ![k] =
                   Ask(IF way.via = "awaited" THEN way ELSE None, request.scope)]
            /\ loading' = (loading \/ (editor.hides /\ way.via = "reload"))
            /\ UNCHANGED <<display, undone, unheard>>
       ELSE /\ sent' = RemoveAt(sent, k)
            /\ Shows(display.of, Now(request), Late(request))
            /\ UNCHANGED loading
    /\ Hear(request.scope, request.at)
    /\ form' = IF way.form THEN Closed ELSE form
    /\ UNCHANGED <<editor, scope, stored, clock, spent, astray, reverted>>

\* A request is refused, or lost, before it is carried out or after.
Lose(k) ==
    LET request == sent[k]
        load == request.step = "load"
        rows == IF load /\ editor.clears THEN [r \in Entries |-> Missing] ELSE display.rows
    IN
    /\ Spend("faults", MaxFaults)
    /\ sent' = RemoveAt(sent, k)
    /\ display' = [display EXCEPT !.rows = rows]
    /\ loading' = (loading /\ ~(load /\ request.way = None))
    /\ unheard' = unheard \cup
           IF load THEN {r \in Entries : rows[r] # stored[scope][r]}
           ELSE IF request.got # <<>> /\ request.scope = scope THEN DOMAIN request.sends ELSE {}
    /\ astray' = (astray \/ (load /\ display.of # scope))
    /\ reverted' = IF form.open THEN reverted \cup (unheard' \cap Fields) ELSE reverted
    /\ IF load \/ request.got = <<>> THEN UNCHANGED heard ELSE Hear(request.scope, request.at)
    /\ UNCHANGED <<editor, scope, stored, form, clock, undone>>

EditorsNext ==
    \/ Edit \/ Cancel
    \/ \E s \in Scopes : Select(s)
    \/ \E way \in editor.ways : \E r \in Entries : Act(way, r)
    \/ \E way \in editor.ways : \E f \in Fields : Submit(way, f)
    \/ \E k \in DOMAIN sent : Serve(k) \/ AnswerLoad(k) \/ AnswerChange(k) \/ Lose(k)

EditorsSpec == EditorsInit /\ [][EditorsNext]_editorVars

------------------------------------------------------------------------------
Changeable == UNION {way.rows : way \in editor.ways}
Settled == sent = <<>>

\* When every request is answered, what a panel shows is what the server keeps of the
\* selected scope, however changes, reloads and selections overlapped, but for answers
\* that came for an older value or another scope, or never; only the form that sends and
\* takes the whole object is never set back.  Saving an entity's metadata takes the
\* rest of it off the editor.
ShownIsStored ==
    /\ Settled => display.of = scope \/ astray
    /\ Settled /\ display.of = scope => \A r \in Changeable :
           \/ display.rows[r] = stored[scope][r]
           \/ r \in undone \cup unheard
           \/ display.rows[r] = Missing /\ r \notin Fields /\ EditMetadata \in editor.ways
    /\ undone # {} => Save \notin editor.ways

\* Saving one field of a form never writes an older value of another field back, unless
\* the panel showed that older value because of an answer that came late, or never.
SaveKeepsSaves ==
    [][\A s \in Scopes : \A r \in Entries :
           stored'[s][r] < stored[s][r] => r \in reverted]_editorVars

==============================================================================
