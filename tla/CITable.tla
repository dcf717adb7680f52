------------------------------- MODULE CITable -------------------------------
(***************************************************************************)
(* An admin page's table of records and its cell editor: CITable,          *)
(* CIRequest and CIForm of cip.src.js, with the four configurations of     *)
(* admin/customers/edit.html.erb that change records and the controller    *)
(* actions they call.                                                      *)
(*                                                                         *)
(* A handler of the page runs to its end: it is one step.  Every send      *)
(* makes a new XMLHttpRequest, so requests are in flight together and      *)
(* their answers come in any order; one may be lost, and one made after    *)
(* the session has expired is redirected to the login page, which reaches  *)
(* the handlers as a success whose JSON is null, or as an error.           *)
(*                                                                         *)
(* The text of a cell or of a form is a value; what is typed is any value. *)
(***************************************************************************)
EXTENDS Naturals, Sequences, FiniteSets, Functions

CONSTANTS
    Kinds,       \* the tables whose page is opened
    Values,      \* what a record says
    Refused,     \* values PropertiesController does not store: a long state
    MaxRecords,  \* bound: records there ever are
    MaxRequests, \* bound: requests that the user makes; reloads come on top
    MaxInFlight, \* bound: requests in flight when the user makes another
    MaxFaults    \* bound: requests that are lost or meet an expired session

ASSUME KindsAssumption ==
    Kinds \subseteq {"properties", "notes", "claims", "cards"}
ASSUME RefusedAssumption == Refused \subseteq Values
ASSUME MaxRecordsAssumption == MaxRecords \in Nat
ASSUME MaxRequestsAssumption == MaxRequests \in Nat

VARIABLES
    kind,      \* which table the page shows
    db,        \* server: the customer's records, in the order of the list
    made,      \* server: records created so far; their ids are 1..made
    rows,      \* CITable.collection, the rendered rows
    hud,       \* CITable.editingHud: where the cell editor is open
    busy,      \* whether the title's indicator is shown
    requests,  \* requests in flight
    sent,      \* requests the user has made
    faults,    \* requests that were lost or met an expired session
    served,    \* observer: the records the server has answered with
    writes,    \* observer: changes of db so far
    shownAt,   \* observer: the value of writes when rows were listed
    calm       \* observer: nothing failed, expired or overtook, see Receive

serverVars == <<kind, db, made, served, writes, faults>>
vars == <<serverVars, rows, hud, busy, requests, sent, shownAt, calm>>

Records == [id : 1..MaxRecords, value : Values]

\* Editable cells: every table here but the credit cards.
Editable == kind # "cards"

\* Adding a record: "cards" uses the table's own post, the others a CIForm,
\* whose request shows the form's indicator and not the table's.
OwnRequest(q) == q.verb # "create" \/ kind = "cards"

\* `opened` is an observer: the record the editor was opened on.
Requests ==
    [n : Nat, verb : {"get", "update", "create", "delete"},
     id : 0..MaxRecords, value : Values, opened : 0..MaxRecords,
     state : {"sent", "answered", "login", "failed"},
     answer : Seq(Records), at : Nat]

Huds == [row : Nat, opened : 0..MaxRecords, attached : BOOLEAN]

None == [row |-> 0, opened |-> 0, attached |-> FALSE]

TypeOK ==
    /\ kind \in Kinds
    /\ db \in Seq(Records)
    /\ made \in 0..MaxRecords
    /\ rows \in Seq(Records)
    /\ hud \in Huds
    /\ busy \in BOOLEAN
    /\ requests \subseteq Requests
    /\ sent \in Nat /\ faults \in Nat
    /\ served \subseteq Records
    /\ writes \in Nat /\ shownAt \in Nat
    /\ calm \in BOOLEAN

AnyValue == CHOOSE v \in Values : TRUE

\* The page opens with an empty table and selects a tab, which calls getData.
\* The customer may have records already.
FirstGet ==
    [n |-> 0, verb |-> "get", id |-> 0, value |-> AnyValue, opened |-> 0,
     state |-> "sent", answer |-> <<>>, at |-> 0]

Init ==
    /\ kind \in Kinds
    /\ \E v \in Values, k \in 0..MaxRecords :
          /\ made = k
          /\ db = [i \in 1..k |-> [id |-> i, value |-> v]]
    /\ rows = <<>> /\ hud = None /\ busy = TRUE
    /\ requests = {FirstGet} /\ sent = 0 /\ faults = 0
    /\ served = {} /\ writes = 0 /\ shownAt = 0 /\ calm = TRUE

-----------------------------------------------------------------------------
(* CIRequest.send                                                          *)

\* `n` tells the requests in flight apart.
Unused == CHOOSE n \in 0..Cardinality(requests) : \A q \in requests : q.n # n

Request(verb, id, value, opened) ==
    [n |-> Unused, verb |-> verb, id |-> id, value |-> value,
     opened |-> opened, state |-> "sent", answer |-> <<>>, at |-> 0]

Get == Request("get", 0, AnyValue, 0)

\* A request made by a click.
Send(q) ==
    /\ sent < MaxRequests /\ Cardinality(requests) <= MaxInFlight
    /\ sent' = sent + 1
    /\ requests' = requests \cup {q}
    /\ busy' = (busy \/ OwnRequest(q))
    /\ UNCHANGED <<serverVars, rows, hud, shownAt, calm>>

-----------------------------------------------------------------------------
(* The user                                                                *)

\* getData: selecting the tab, or the reload icon.
GetData == Send(Get)

\* _onEditCell: an editor open on another cell is closed first; the cell that
\* is being edited is left alone.  A row that was rendered again is another
\* cell.
EditCell(i) ==
    /\ Editable
    /\ i \in DOMAIN rows
    /\ ~(hud.attached /\ hud.row = i)
    /\ hud' = [row |-> i, opened |-> rows[i].id, attached |-> TRUE]
    /\ UNCHANGED <<serverVars, rows, busy, requests, sent, shownAt, calm>>

\* stopEditing, by Cancel or Escape.
StopEditing ==
    /\ hud # None
    /\ hud' = None
    /\ UNCHANGED <<serverVars, rows, busy, requests, sent, shownAt, calm>>

\* commitChanges, by Save or Enter: posts to the record of the row the cell is
\* in.  It leaves the editor open and the link enabled.  The cell of a row that
\* has been rendered again has no parent: the handler raises before it posts.
CommitChanges(v) ==
    /\ hud.attached
    /\ Send(Request("update", rows[hud.row].id, v, hud.opened))

\* CIForm.submit of the add form, or postRecord of the credit cards.
AddRecord(v) == Send(Request("create", 0, v, 0))

\* deleteRecord, once its prompt is confirmed.
DeleteRecord(i) ==
    /\ kind = "cards"
    /\ i \in DOMAIN rows
    /\ Send(Request("delete", rows[i].id, AnyValue, 0))

-----------------------------------------------------------------------------
(* The server                                                              *)

Answer(q, state, list) ==
    /\ requests' = (requests \ {q}) \cup
                       {[q EXCEPT !.state = state, !.answer = list,
                                  !.at = writes]}
    /\ served' = served \cup Range(list)
    /\ writes' = IF db' = db THEN writes ELSE writes + 1
    /\ faults' = IF state = "login" THEN faults + 1 ELSE faults
    /\ UNCHANGED <<kind, rows, hud, busy, sent, shownAt, calm>>

\* Notes and claims are listed newest first, the others oldest first.
Insert(r) ==
    IF kind \in {"notes", "claims"} THEN <<r>> \o db ELSE Append(db, r)

ServeGet(q) ==
    /\ q.verb = "get"
    /\ UNCHANGED <<db, made>>
    /\ Answer(q, "answered", db)

\* async_update: a property with a long state is answered without being saved.
ServeUpdate(q) ==
    \E i \in DOMAIN db :
       /\ q.verb = "update"
       /\ db[i].id = q.id
       /\ db' = IF kind = "properties" /\ q.value \in Refused
                THEN db
                ELSE [db EXCEPT ![i].value = q.value]
       /\ Answer(q, "answered", <<db'[i]>>)
       /\ UNCHANGED made

ServeCreate(q) ==
    /\ q.verb = "create"
    /\ made < MaxRecords
    /\ LET r == [id |-> made + 1, value |-> q.value]
       IN  db' = Insert(r) /\ Answer(q, "answered", <<r>>)
    /\ made' = made + 1

ServeDelete(q) ==
    \E i \in DOMAIN db :
       /\ q.verb = "delete"
       /\ db[i].id = q.id
       /\ db' = SubSeq(db, 1, i - 1) \o SubSeq(db, i + 1, Len(db))
       /\ Answer(q, "answered", <<db[i]>>)
       /\ UNCHANGED made

\* find raises for a record that is gone: status 404.
NotFound(q) ==
    /\ q.verb \in {"update", "delete"}
    /\ \A i \in DOMAIN db : db[i].id # q.id
    /\ UNCHANGED <<db, made>>
    /\ Answer(q, "failed", <<>>)

\* check_login: the session has expired; nothing is done.  The login page is
\* html only: a browser that sends Accept again gets an error (Lose), one that
\* does not gets the page.
Redirect(q) ==
    /\ faults < MaxFaults
    /\ UNCHANGED <<db, made>>
    /\ Answer(q, "login", <<>>)

Serve(q) ==
    /\ q.state = "sent"
    /\ \/ ServeGet(q)
       \/ ServeUpdate(q)
       \/ ServeCreate(q)
       \/ ServeDelete(q)
       \/ NotFound(q)
       \/ Redirect(q)

\* The request or its answer is lost.
Lose(q) ==
    /\ q.state \in {"sent", "answered", "login"}
    /\ faults < MaxFaults
    /\ faults' = faults + 1
    /\ requests' = (requests \ {q}) \cup {[q EXCEPT !.state = "failed"]}
    /\ UNCHANGED <<kind, db, made, served, writes, rows, hud, busy, sent, shownAt, calm>>

-----------------------------------------------------------------------------
(* The handlers of an answer                                               *)

\* Mutant: the indicator is hidden by a success only.
FinishOnSuccess(q, reload) ==
    /\ requests' = (requests \ {q}) \cup (IF reload THEN {Get} ELSE {})
    /\ busy' = (reload \/ (busy /\ ~(OwnRequest(q) /\ q.state # "failed")))
    /\ UNCHANGED <<serverVars, sent>>

\* Before any handler the indicator is hidden; a handler that reloads the
\* table sends a get, which shows it again.
Finish(q, reload) ==
    /\ requests' = (requests \ {q}) \cup (IF reload THEN {Get} ELSE {})
    /\ busy' = (reload \/ (busy /\ ~OwnRequest(q)))
    /\ UNCHANGED <<serverVars, sent>>

\* RequestFailed: no table or form here listens to it.
RequestFailed(q) ==
    /\ q.state = "failed"
    /\ Finish(q, FALSE)
    /\ UNCHANGED <<rows, hud, shownAt>>

Succeeded(q) == q.state \in {"answered", "login"}

\* GotData: setCollection and render.  The rows are destroyed and made anew, so
\* the cell of an open editor is detached.  Null becomes an empty table; the
\* claims table's own handler reads a property of the null and raises.
GotData(q) ==
    /\ q.verb = "get" /\ Succeeded(q)
    /\ Finish(q, FALSE)
    /\ IF kind = "claims" /\ q.state = "login"
       THEN UNCHANGED <<rows, hud, shownAt>>
       ELSE /\ rows' = q.answer
            /\ shownAt' = q.at
            /\ hud' = IF hud = None THEN None
                      ELSE [hud EXCEPT !.attached = FALSE]

\* _onPostedData takes the row from the editor that is open now, wherever the
\* request was made from, closes the editor and updates that row; it raises
\* when that row is no longer in the page, or when the record is null.
PostRaises(q) == hud # None /\ (~hud.attached \/ q.state = "login")

\* Mutants: the answer, a list of one record, is stored as the record; the
\* editor stays open; the row takes the text that was posted.
PostedUpdateList(q) ==
    /\ q.verb = "update" /\ Succeeded(q)
    /\ Finish(q, kind = "notes" \/ (kind = "claims" /\ ~PostRaises(q)))
    /\ hud' = IF hud.attached THEN None ELSE hud
    /\ rows' = IF hud.attached THEN [rows EXCEPT ![hud.row] = q.answer] ELSE rows
    /\ UNCHANGED shownAt

PostedUpdateStaysOpen(q) ==
    /\ q.verb = "update" /\ Succeeded(q)
    /\ Finish(q, kind = "notes" \/ (kind = "claims" /\ ~PostRaises(q)))
    /\ rows' = IF hud.attached /\ q.state = "answered"
               THEN [rows EXCEPT ![hud.row] = q.answer[1]]
               ELSE rows
    /\ UNCHANGED <<hud, shownAt>>

PostedUpdateTyped(q) ==
    /\ q.verb = "update" /\ Succeeded(q)
    /\ Finish(q, kind = "notes" \/ (kind = "claims" /\ ~PostRaises(q)))
    /\ hud' = IF hud.attached THEN None ELSE hud
    /\ rows' = IF hud.attached THEN [rows EXCEPT ![hud.row].value = q.value]
               ELSE rows
    /\ UNCHANGED shownAt

\* The notes table reloads before _onPostedData runs, the claims table after it
\* and therefore not when it raises.
PostedUpdate(q) ==
    /\ q.verb = "update" /\ Succeeded(q)
    /\ Finish(q, kind = "notes" \/ (kind = "claims" /\ ~PostRaises(q)))
    /\ hud' = IF hud.attached THEN None ELSE hud
    /\ rows' = IF hud.attached /\ q.state = "answered"
               THEN [rows EXCEPT ![hud.row] = q.answer[1]]
               ELSE rows
    /\ UNCHANGED shownAt

\* Mutant: the table is not reloaded.
ChangedUnseen(q) ==
    /\ q.verb \in {"create", "delete"} /\ Succeeded(q)
    /\ Finish(q, FALSE)
    /\ UNCHANGED <<rows, hud, shownAt>>

\* The add form is cleared and the table reloaded; the credit cards reload.
Changed(q) ==
    /\ q.verb \in {"create", "delete"} /\ Succeeded(q)
    /\ Finish(q, TRUE)
    /\ UNCHANGED <<rows, hud, shownAt>>

\* `calm` stays true while every answer is a success, no list arrives after a
\* newer one, and no raise costs the claims table its reload.
Receive(q) ==
    /\ \/ RequestFailed(q)
       \/ GotData(q)
       \/ PostedUpdate(q)
       \/ Changed(q)
    /\ calm' = (/\ calm
                /\ q.state = "answered"
                /\ q.verb = "get" => q.at >= shownAt
                /\ ~(kind = "claims" /\ q.verb = "update" /\ PostRaises(q)))

User ==
    \/ GetData
    \/ \E i \in DOMAIN rows : EditCell(i) \/ DeleteRecord(i)
    \/ StopEditing
    \/ \E v \in Values : CommitChanges(v) \/ AddRecord(v)

Next ==
    \/ User
    \/ \E q \in requests : Serve(q) \/ Lose(q) \/ Receive(q)

Spec == Init /\ [][Next]_vars

-----------------------------------------------------------------------------
(* Properties                                                              *)

\* What is posted by Save goes to the record whose cell was opened, whatever
\* was reloaded, saved or received while the editor was open.
SaveTargetsOpened ==
    \A q \in requests : q.verb = "update" => q.id = q.opened

\* A row shows a record as the server once answered it: never typed text that
\* was refused or lost, never a mixture of two records.
RowsWereServed == Range(rows) \subseteq served

\* The indicator is shown only while a request of the table is in flight, in
\* whatever order the requests end and however they do.
BusyMeansWaiting == busy => \E q \in requests : OwnRequest(q)

\* A table that reloads itself after a change shows the records of the server
\* once nothing is in flight, if it was calm.
QuietTableIsFresh ==
    kind # "properties" /\ requests = {} /\ calm => rows = db

\* "just the table row is updated": a row keeps its record, so no record is
\* listed twice.
NoRecordTwice ==
    \A i, j \in DOMAIN rows : i # j => rows[i].id # rows[j].id
=============================================================================
