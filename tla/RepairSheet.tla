----------------------------- MODULE RepairSheet -----------------------------
(***************************************************************************)
(* Assigning a contractor to a claim on the customer page: the sheets,     *)
(* buttons and tables of contractor-map.js over CISheet, CIButton and      *)
(* CITable, the claims table of admin/customers/edit.html.erb they serve,  *)
(* and the controller actions they call.                                   *)
(*                                                                         *)
(* One sheet object serves every claim: the claim, the selection and the   *)
(* buttons' state live in globals that outlast a showing.  Requests are in *)
(* flight together and their answers come in any order; see CITable.       *)
(*                                                                         *)
(* Animations are left out: show and hide take effect at once.  Editing a  *)
(* listed contractor only searches again and is not told apart from that.  *)
(***************************************************************************)
EXTENDS Integers, FiniteSets

CONSTANTS
    Claims,       \* the customer's claims
    Known,        \* contractors there are already, 1..Known
    MaxNew,       \* bound: contractors that are added
    MaxRequests,  \* bound: requests the user makes; those of handlers come on top
    MaxInFlight,  \* bound: requests in flight when the user makes another
    MaxFaults     \* bound: requests that are lost or meet an expired session

ASSUME KnownAssumption == Known \in Nat
ASSUME MaxNewAssumption == MaxNew \in Nat
ASSUME MaxRequestsAssumption == MaxRequests \in Nat

VARIABLES
    repair,    \* server: per claim, the contractor_id of its repair
    made,      \* server: contractors so far
    shown,     \* claimsTable's rows: `repair` as it was last listed
    listed,    \* contractorsTable's rows
    claim,     \* addRepairSheet.claim: [id, has], has: whether it had a repair
    sheet, newSheet, prompt,  \* which of the sheets are in the page
    located,   \* customerMarker has been set
    selected,  \* contractorsTable.selected
    disabled,  \* per button
    requests,  \* requests in flight
    sent,      \* requests the user has made
    faults,    \* requests that were lost or met an expired session
    writes, shownAt, calm  \* observers, as in CITable

serverVars == <<repair, made, writes, faults>>
tableVars  == <<shown, shownAt, listed, located>>
sheetVars  == <<claim, sheet, newSheet, prompt>>
vars == <<serverVars, tableVars, sheetVars, selected, disabled,
          requests, sent, calm>>

Contractors == 1..(Known + MaxNew)

\* A claim without repair, and a repair without contractor.
NoRepair == -1
Nobody == 0
Repairs == Contractors \cup {NoRepair, Nobody}

\* Nothing selected, and the {id: null} that a null answer leaves selected.
Nothing == -1
NullId == 0
Selections == Contractors \cup {Nothing, NullId}

Buttons == {"unassign", "assign", "assignNew", "addAssign"}

\* `meant` is an observer: the claim on the sheet when the user clicked.
Requests ==
    [n : Nat, verb : {"geocode", "find", "assign", "unassign", "create", "list"},
     claim : Claims, contractor : Selections, meant : Claims,
     state : {"sent", "answered", "login", "failed"},
     rows : SUBSET Contractors, repairs : [Claims -> Repairs],
     id : Selections, at : Nat]

TypeOK ==
    /\ repair \in [Claims -> Repairs]
    /\ made \in 0..(Known + MaxNew)
    /\ shown \in [Claims -> Repairs]
    /\ listed \subseteq Contractors
    /\ claim \in [id : Claims, has : BOOLEAN]
    /\ sheet \in BOOLEAN /\ newSheet \in BOOLEAN /\ prompt \in BOOLEAN
    /\ located \in BOOLEAN
    /\ selected \in Selections
    /\ disabled \in [Buttons -> BOOLEAN]
    /\ requests \subseteq Requests
    /\ sent \in Nat /\ faults \in Nat /\ writes \in Nat /\ shownAt \in Nat
    /\ calm \in BOOLEAN

\* The page is loaded and its claims table shows the claims; no sheet is open.
\* `claim` is undefined until a sheet is, and is not read before.
Init ==
    /\ repair \in [Claims -> {NoRepair} \cup 1..Known]
    /\ made = Known
    /\ shown = repair
    /\ listed = {} /\ located = FALSE
    /\ claim \in [id : Claims, has : {FALSE}]
    /\ claim.id = CHOOSE c \in Claims : TRUE
    /\ sheet = FALSE /\ newSheet = FALSE /\ prompt = FALSE
    /\ selected = Nothing
    /\ disabled = [b \in Buttons |-> b \in {"unassign", "assign"}]
    /\ requests = {} /\ sent = 0 /\ faults = 0
    /\ writes = 0 /\ shownAt = 0 /\ calm = TRUE

-----------------------------------------------------------------------------
(* CIRequest.send; CIButton.requestData ignores `disabled`                 *)

\* `n` tells the requests in flight apart.
Unused == CHOOSE n \in 0..Cardinality(requests) : \A q \in requests : q.n # n

Request(verb, c, k, meant) ==
    [n |-> Unused, verb |-> verb, claim |-> c, contractor |-> k,
     meant |-> meant, state |-> "sent", rows |-> {},
     repairs |-> [d \in Claims |-> NoRepair],
     id |-> Nothing, at |-> 0]

Post(verb) == Request(verb, claim.id, selected, claim.id)

Ask(verb) == Request(verb, claim.id, Nothing, claim.id)

\* A request made by a click.
Send(q) ==
    /\ sent < MaxRequests /\ Cardinality(requests) <= MaxInFlight
    /\ sent' = sent + 1
    /\ requests' = requests \cup {q}
    /\ UNCHANGED <<serverVars, calm>>

\* CIButton._onClick.
Clicked(b) == ~disabled[b]

-----------------------------------------------------------------------------
(* The user; a sheet covers what lies under it                             *)

OnRepairSheet == sheet /\ ~newSheet /\ ~prompt

\* Mutant: the sheet's buttons are enabled whenever it is shown.
OpenSheetEnables(c) ==
    /\ ~sheet /\ ~newSheet /\ ~prompt
    /\ claim' = [id |-> c, has |-> shown[c] # NoRepair]
    /\ sheet' = TRUE
    /\ disabled' = [b \in Buttons |-> FALSE]
    /\ Send(Request("geocode", c, Nothing, c))
    /\ UNCHANGED <<tableVars, newSheet, prompt, selected>>

\* "Assign Contractor..." of a claim's row, and the sheet's Shown handler:
\* Unassign is enabled for a claim with a repair, and never disabled for one
\* without.
OpenSheet(c) ==
    /\ ~sheet /\ ~newSheet /\ ~prompt
    /\ claim' = [id |-> c, has |-> shown[c] # NoRepair]
    /\ sheet' = TRUE
    /\ disabled' = [disabled EXCEPT !["unassign"] = @ /\ ~claim'.has]
    /\ Send(Request("geocode", c, Nothing, c))
    /\ UNCHANGED <<tableVars, newSheet, prompt, selected>>

\* Cancel hides the sheet; its Hidden handler reloads the claims table.
CancelSheet ==
    /\ OnRepairSheet
    /\ sheet' = FALSE
    /\ Send(Ask("list"))
    /\ UNCHANGED <<tableVars, claim, newSheet, prompt, selected, disabled>>

\* searchContractors: its parameters need the customer's marker.
Search ==
    /\ OnRepairSheet /\ located
    /\ Send(Ask("find"))
    /\ UNCHANGED <<tableVars, sheetVars, selected, disabled>>

\* A row or its marker is clicked.
Select(k) ==
    /\ OnRepairSheet
    /\ k \in listed
    /\ selected' = k
    /\ disabled' = [disabled EXCEPT !["assign"] = FALSE]
    /\ UNCHANGED <<serverVars, tableVars, sheetVars, requests, sent,
                   calm>>

ClickAssign ==
    /\ OnRepairSheet /\ Clicked("assign")
    /\ disabled' = [disabled EXCEPT !["unassign"] = TRUE,
                                    !["assignNew"] = TRUE, !["assign"] = TRUE]
    /\ Send(Post("assign"))
    /\ UNCHANGED <<tableVars, sheetVars, selected>>

\* Unassign has no Clicked handler and stays enabled.
ClickUnassign ==
    /\ OnRepairSheet /\ Clicked("unassign")
    /\ Send(Ask("unassign"))
    /\ UNCHANGED <<tableVars, sheetVars, selected, disabled>>

ClickAssignNew ==
    /\ OnRepairSheet /\ Clicked("assignNew")
    /\ newSheet' = TRUE
    /\ UNCHANGED <<serverVars, tableVars, claim, sheet, prompt, selected,
                   disabled, requests, sent, calm>>

ClickAdd ==
    /\ newSheet /\ ~prompt /\ Clicked("addAssign")
    /\ disabled' = [disabled EXCEPT !["addAssign"] = TRUE]
    /\ Send(Ask("create"))
    /\ UNCHANGED <<tableVars, sheetVars, selected>>

CancelNew ==
    /\ newSheet /\ ~prompt
    /\ newSheet' = FALSE
    /\ UNCHANGED <<serverVars, tableVars, claim, sheet, prompt, selected,
                   disabled, requests, sent, calm>>

\* Either button of "Could Not Locate Address" hides the repair sheet too.
AnswerPrompt ==
    /\ prompt
    /\ prompt' = FALSE
    /\ sheet' = FALSE
    /\ IF sheet
       THEN Send(Ask("list"))
       ELSE UNCHANGED <<serverVars, requests, sent, calm>>
    /\ UNCHANGED <<tableVars, claim, newSheet, selected, disabled>>

-----------------------------------------------------------------------------
(* The server                                                              *)

Reply(q, r) ==
    /\ requests' = (requests \ {q}) \cup {r}
    /\ UNCHANGED <<tableVars, sheetVars, selected, disabled, sent, calm>>

Answered(q) == [q EXCEPT !.state = "answered"]

\* async_update_claim_or_repair creates or updates the claim's repair.  A null
\* contractor_id is left out of the query string, and nothing is done.
ServeAssign(q) ==
    /\ q.verb = "assign"
    /\ repair' = IF q.contractor \in Contractors
                 THEN [repair EXCEPT ![q.claim] = q.contractor]
                 ELSE repair
    /\ writes' = writes + 1
    /\ Reply(q, Answered(q))
    /\ UNCHANGED <<made, faults>>

\* async_unassign_contractor_for_claim.
ServeUnassign(q) ==
    /\ q.verb = "unassign"
    /\ repair' = [repair EXCEPT ![q.claim] =
                     IF @ = NoRepair THEN NoRepair ELSE Nobody]
    /\ writes' = writes + 1
    /\ Reply(q, Answered(q))
    /\ UNCHANGED <<made, faults>>

\* Mutant: the id answered is one too high.
ServeCreateNextId(q) ==
    /\ q.verb = "create"
    /\ made < Known + MaxNew
    /\ made' = made + 1
    /\ Reply(q, [Answered(q) EXCEPT !.id = made + 2])
    /\ UNCHANGED <<repair, writes, faults>>

\* Contractors async_create answers the new id.
ServeCreate(q) ==
    /\ q.verb = "create"
    /\ made < Known + MaxNew
    /\ made' = made + 1
    /\ Reply(q, [Answered(q) EXCEPT !.id = made + 1])
    /\ UNCHANGED <<repair, writes, faults>>

\* async_find_in_radius; which contractors are near is not told apart.
ServeFind(q) ==
    /\ q.verb = "find"
    /\ Reply(q, [Answered(q) EXCEPT !.rows = 1..made])
    /\ UNCHANGED serverVars

ServeList(q) ==
    /\ q.verb = "list"
    /\ Reply(q, [Answered(q) EXCEPT !.repairs = repair, !.at = writes])
    /\ UNCHANGED serverVars

Fault ==
    /\ faults < MaxFaults
    /\ faults' = faults + 1
    /\ UNCHANGED <<repair, made, writes>>

\* check_login: the session has expired; nothing is done.  The login page is
\* html only: a browser that sends Accept again gets an error (Lose), one that
\* does not gets the page.
Redirect(q) ==
    /\ q.verb # "geocode"
    /\ Fault
    /\ Reply(q, [q EXCEPT !.state = "login"])

Serve(q) ==
    /\ q.state = "sent"
    /\ \/ ServeAssign(q)
       \/ ServeUnassign(q)
       \/ ServeCreate(q)
       \/ ServeFind(q)
       \/ ServeList(q)
       \/ Redirect(q)

Lose(q) ==
    /\ q.verb # "geocode"
    /\ q.state \in {"sent", "answered", "login"}
    /\ requests' = (requests \ {q}) \cup {[q EXCEPT !.state = "failed"]}
    /\ Fault
    /\ UNCHANGED <<tableVars, sheetVars, selected, disabled, sent, calm>>

-----------------------------------------------------------------------------
(* The handlers of an answer                                               *)

Finish(q, more) ==
    /\ requests' = (requests \ {q}) \cup more
    /\ UNCHANGED <<serverVars, sent>>

Succeeded(q) == q.state \in {"answered", "login"}

\* The geocoder's callback sets the marker and searches.
Located(q) ==
    /\ q.verb = "geocode"
    /\ located' = TRUE
    /\ Finish(q, {Ask("find")})
    /\ UNCHANGED <<shown, shownAt, listed, sheetVars, selected, disabled>>

\* An address that neither the geocoder nor the claim's columns locate.
NotLocated(q) ==
    /\ q.verb = "geocode"
    /\ prompt' = TRUE
    /\ Finish(q, {})
    /\ UNCHANGED <<tableVars, claim, sheet, newSheet, selected, disabled>>

\* contractorsTable's GotData; a null collection raises before it is set.
\* `selected` is not touched.
GotContractors(q) ==
    /\ q.verb = "find" /\ Succeeded(q)
    /\ listed' = IF q.state = "login" THEN listed ELSE q.rows
    /\ Finish(q, {})
    /\ UNCHANGED <<shown, shownAt, located, sheetVars, selected, disabled>>

\* claimsTable's GotData; a null answer raises.
GotClaims(q) ==
    /\ q.verb = "list" /\ Succeeded(q)
    /\ IF q.state = "login"
       THEN UNCHANGED <<shown, shownAt>>
       ELSE shown' = q.repairs /\ shownAt' = q.at
    /\ Finish(q, {})
    /\ UNCHANGED <<listed, located, sheetVars, selected, disabled>>

\* Mutant: the sheet is hidden and the claims table not reloaded.
HidesOnly(q) ==
    /\ q.verb \in {"assign", "unassign"} /\ Succeeded(q)
    /\ sheet' = FALSE
    /\ Finish(q, {})
    /\ UNCHANGED <<tableVars, claim, newSheet, prompt, selected, disabled>>

\* Mutant: the sheet is hidden only when it still shows the claim.
HidesOwnClaim(q) ==
    /\ q.verb \in {"assign", "unassign"} /\ Succeeded(q)
    /\ sheet' = (sheet /\ claim.id # q.claim)
    /\ Finish(q, IF sheet /\ ~sheet' THEN {Ask("list")} ELSE {})
    /\ UNCHANGED <<tableVars, claim, newSheet, prompt, selected, disabled>>

\* PostedData of Assign and Unassign: addRepairSheet.hide(), whichever claim
\* the sheet is open for; nothing happens when it is not in the page.
Hides(q) ==
    /\ q.verb \in {"assign", "unassign"} /\ Succeeded(q)
    /\ sheet' = FALSE
    /\ Finish(q, IF sheet THEN {Ask("list")} ELSE {})
    /\ UNCHANGED <<tableVars, claim, newSheet, prompt, selected, disabled>>

\* PostedData of Add & Assign: the new contractor becomes the selection and
\* Assign's request is made, for the claim that the sheet has now.
Added(q) ==
    /\ q.verb = "create" /\ Succeeded(q)
    /\ selected' = IF q.state = "login" THEN NullId ELSE q.id
    /\ newSheet' = FALSE
    /\ Finish(q, {Request("assign", claim.id, selected', q.meant)})
    /\ UNCHANGED <<tableVars, claim, sheet, prompt, disabled>>

\* Mutant: a failure leaves Assign at "Working...".
AssignFailedWorking(q) ==
    /\ q.verb = "assign" /\ q.state = "failed"
    /\ disabled' = [disabled EXCEPT !["unassign"] = FALSE, !["assignNew"] = FALSE]
    /\ Finish(q, {})
    /\ UNCHANGED <<tableVars, sheetVars, selected>>

\* RequestFailed of Assign enables the three buttons.  When the sheet is not in
\* the page, enabling the first raises after its flag is set.
AssignFailed(q) ==
    /\ q.verb = "assign" /\ q.state = "failed"
    /\ disabled' = IF sheet
                   THEN [disabled EXCEPT !["unassign"] = FALSE,
                             !["assignNew"] = FALSE, !["assign"] = FALSE]
                   ELSE [disabled EXCEPT !["unassign"] = FALSE]
    /\ Finish(q, {})
    /\ UNCHANGED <<tableVars, sheetVars, selected>>

\* Mutant: what failed is asked for again.
OtherFailedRetries(q) ==
    /\ q.verb \notin {"assign", "geocode"} /\ q.state = "failed"
    /\ Finish(q, {Ask(q.verb)})
    /\ UNCHANGED <<tableVars, sheetVars, selected, disabled>>

\* No other button or table listens to RequestFailed.
OtherFailed(q) ==
    /\ q.verb \notin {"assign", "geocode"} /\ q.state = "failed"
    /\ Finish(q, {})
    /\ UNCHANGED <<tableVars, sheetVars, selected, disabled>>

\* `calm`: every answer is a success, no list arrives after a newer one, and
\* no answer to an assignment arrives when the sheet has gone.
Receive(q) ==
    /\ \/ Located(q)
       \/ NotLocated(q)
       \/ GotContractors(q)
       \/ GotClaims(q)
       \/ Hides(q)
       \/ Added(q)
       \/ AssignFailed(q)
       \/ OtherFailed(q)
    /\ calm' = (/\ calm
                /\ q.verb # "geocode" => q.state = "answered"
                /\ q.verb = "list" => q.at >= shownAt
                /\ q.verb \in {"assign", "unassign"} => sheet)

User ==
    \/ \E c \in Claims : OpenSheet(c)
    \/ CancelSheet
    \/ Search
    \/ \E k \in listed : Select(k)
    \/ ClickAssign
    \/ ClickUnassign
    \/ ClickAssignNew
    \/ ClickAdd
    \/ CancelNew
    \/ AnswerPrompt

Network(q) == Serve(q) \/ Lose(q) \/ Receive(q)

Next == User \/ \E q \in requests : Network(q)

Spec == Init /\ [][Next]_vars

\* The browser ends every request, by an answer or by giving up, and runs its
\* handlers.  Requests are finitely many here, so one conjunct is enough.
Fairness == WF_vars(\E q \in requests : Network(q))

FairSpec == Spec /\ Fairness

-----------------------------------------------------------------------------
(* Properties                                                              *)

\* Assign can be clicked only when its parameters can be read: a contractor,
\* if only a null one, is selected.  It is enabled by three handlers and by
\* none of them in the step that selects.
EnabledMeansSelected == ~disabled["assign"] => selected # Nothing

\* Once the sheet is closed and nothing is in flight, the claims table shows
\* the contractors as the server has them, if it was calm: every way an
\* assignment can end reloads the table after it.
QuietTableShowsAssignments ==
    requests = {} /\ calm /\ ~sheet => shown = repair

\* What a request has still to bring about: the requests its handlers make one
\* after the other, then its own way through the network.
Chain(verb) ==
    CASE verb = "create"                          -> 2
      [] verb \in {"assign", "unassign", "geocode"} -> 1
      [] OTHER                                    -> 0

Ahead(q) ==
    4 * Chain(q.verb) + CASE q.state = "sent"               -> 3
                          [] q.state \in {"answered", "login"} -> 2
                          [] OTHER                          -> 1

\* Handlers that make requests, whose handlers make requests, come to an end:
\* whatever takes the place of a request has less ahead of it, so that once the
\* user waits the page comes to rest (onSuccess and onFailure of every request
\* of contractor-map.js).
RequestsRunOut ==
    [][\A q \in requests \ requests', r \in requests' \ requests :
          Ahead(r) < Ahead(q)]_vars

\* The step in which an assignment ends under an open sheet, by whatever
\* answer and for whichever claim, closes the sheet or enables Assign (the
\* handlers of assignButton).
AssignSettles ==
    [][sheet /\ (\E q \in requests : /\ q.verb = "assign"
                                     /\ \A r \in requests' : r.n # q.n)
          => ~sheet' \/ ~disabled'["assign"]]_vars

\* An assignment in flight under an open sheet ends with the sheet closed or
\* with Assign enabled again: it cannot be left at "Working..." for good.
AssignEnds ==
    (sheet /\ \E q \in requests : q.verb = "assign")
        ~> (~sheet \/ ~disabled["assign"])

\* "You are about to assign a new Contractor to this Claim": the contractor is
\* assigned to the claim for which Add & Assign was clicked.
AssignedToThisClaim ==
    \A q \in requests : q.verb = "assign" => q.claim = q.meant
=============================================================================
