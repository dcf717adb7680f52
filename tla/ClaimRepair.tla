----------------------------- MODULE ClaimRepair -----------------------------
(***************************************************************************)
(* A claim, its settlement and invoice columns, and its repairs:           *)
(* Admin::ClaimsController, Admin::RepairsController, Claim and Repair.     *)
(*                                                                         *)
(* A request loads its records, works on the copies and saves; other       *)
(* requests run in between.  A save writes only the columns that differ    *)
(* from what was loaded (ActiveRecord's partial updates).  The edit page   *)
(* adds a longer gap: the fields of its two forms hold what the row was    *)
(* when the page was rendered, and a form that is sent sends all of them.  *)
(***************************************************************************)
EXTENDS Naturals, Sequences

CONSTANTS
    Requests,     \* slots for requests; one serves any number, one at a time
    Handlers,     \* the kinds of request that are made
    Settlements,  \* buyouts and reimbursements, in dollars
    Amounts,      \* repair amounts, in dollars
    Contractors, Statuses, Dates,
    Codes,        \* csids of the claim statuses
    ActiveCodes,  \* the ones that are active, which the edit page lists
    FirstActive,  \* and the first of them
    Misread,      \* what ActiveRecord's parser makes of a month/day/year text
    MaxRequests   \* bound: requests that are made

None  == "none"  \* NULL
Blank == ""

ASSUME SettlementsAssumption == Settlements \subseteq Nat /\ 0 \in Settlements
ASSUME AmountsAssumption == Amounts \subseteq Nat /\ 0 \in Amounts
ASSUME CodesAssumption == {0, 1, 2} \subseteq Codes
ASSUME ActiveAssumption == ActiveCodes \subseteq Codes /\ FirstActive \in ActiveCodes
ASSUME StatusesAssumption == "Received" \in Statuses
ASSUME MisreadAssumption == Misread \in [Dates -> Dates \cup {None}]

VARIABLES
    claim,    \* the row of claims
    repairs,  \* the rows of repairs with its claim_id; claim.repair is the first
    pc, req,  \* per request: where it is, and its parameters
    copy,     \* per request: the records it loaded
    clean,    \* observer: no one else wrote since this form was rendered
    begun     \* requests begun, for the bound

vars == <<claim, repairs, pc, req, copy, clean, begun>>

(***************************************************************************)
(* claims.buyout and claims.reimbursement are text columns.  A text is an  *)
(* amount and how it is written: "0.0" is the Float zero the model writes  *)
(* (or NULL), "10.00" what the form shows, "10" what an agent types.       *)
(***************************************************************************)
Texts     == [amount : Settlements, written : {"float", "fixed", "typed"}]
FloatZero == [amount |-> 0, written |-> "float"]
Fixed(t)  == [t EXCEPT !.written = "fixed"]

Unauthorized == "unauthorized"  \* the column's default; 0 and 1 are saved as text

Claims ==
    [buyout : Texts, reimbursement : Texts, invoice_receive : Dates \cup {None},
     invoice_status : Statuses \cup {None, Blank}, status_code : Codes]

Repairs ==
    [amount : Amounts, authorization : {Unauthorized, "0", "1"},
     contractor_id : Contractors \cup {None}, status : {0, 1}]

NewRepair ==
    [amount |-> 0, authorization |-> Unauthorized, contractor_id |-> None, status |-> 0]

\* claims#create and #async_create: placed by the customer, or by an agent.
Created(code) ==
    [buyout |-> FloatZero, reimbursement |-> FloatZero, invoice_receive |-> None,
     invoice_status |-> None, status_code |-> code]

Idle    == [kind |-> "idle"]
Nothing == [claim |-> Created(0), id |-> 0, repair |-> NewRepair]

Init ==
    /\ claim \in {Created(1), Created(2)}
    /\ repairs = <<>>
    /\ pc    = [r \in Requests |-> "idle"]
    /\ req   = [r \in Requests |-> Idle]
    /\ copy  = [r \in Requests |-> Nothing]
    /\ clean = [r \in Requests |-> FALSE]
    /\ begun = 0

-----------------------------------------------------------------------------
(* Parameters *)

\* claim.repair, or none; and what a request holds once it has loaded.
First == IF Len(repairs) = 0 THEN 0 ELSE 1

Loaded(id) ==
    [claim |-> claim, id |-> id, repair |-> IF id = 0 THEN NewRepair ELSE repairs[id]]

ById == {"toggle_status", "toggle_authorization", "complete"}  \* Repair.find

\* The small requests: cells of the claims table, popups, links.
Asks(ids) ==
    UNION {[kind : {"amount"}, amount : Amounts],
           [kind : {"blank_amount", "clear_receive", "unassign"}],
           [kind : {"assign"}, contractor : Contractors],
           [kind : {"status_code"}, code : Codes],
           [kind : {"async_receive", "receive"}, date : Dates],
           [kind : {"async_status"}, status : Statuses],
           [kind : {"invoice_status"}, status : Statuses \cup {None}],
           [kind : ById, id : ids]}

\* A select shows the value it has, or else its first option; one with a
\* prompt has a blank option only as long as it has no value.
Listed(code)   == IF code \in ActiveCodes THEN code ELSE FirstActive
Prompt(status) == IF status = None THEN Blank ELSE status

\* The first form of the edit page as it is rendered, and what an agent may
\* do to it before it is sent.
RenderedForm ==
    [kind |-> "form", code |-> Listed(claim.status_code), date |-> claim.invoice_receive,
     status |-> Prompt(claim.invoice_status), id |-> First,
     amount |-> Loaded(First).repair.amount, blank |-> FALSE]

FormEdits(f) ==
    [kind : {"form"}, code : ActiveCodes, date : Dates \cup {None},
     status : Statuses \cup {f.status}, id : {f.id},
     amount : IF f.id = 0 THEN {f.amount} ELSE Amounts,
     blank : IF f.id = 0 THEN {FALSE} ELSE BOOLEAN]

\* Its second form, "Update REL", the same way.
RenderedRelease ==
    [kind |-> "release", buyout |-> Fixed(claim.buyout),
     reimbursement |-> Fixed(claim.reimbursement)]

Typed == [amount : Settlements, written : {"typed"}]

ReleaseEdits(f) ==
    [kind : {"release"}, buyout : Typed \cup {f.buyout},
     reimbursement : Typed \cup {f.reimbursement}]

Edits(f) == IF f.kind = "form" THEN FormEdits(f) ELSE ReleaseEdits(f)

Begin(r) == pc[r] = "idle" /\ begun < MaxRequests /\ begun' = begun + 1

\* claims#edit: the page, of which one form will be sent.
Render(r) ==
    /\ Begin(r)
    /\ \E f \in {RenderedForm, RenderedRelease} :
          /\ f.kind \in Handlers
          /\ req' = [req EXCEPT ![r] = f]
    /\ pc'    = [pc EXCEPT ![r] = "form"]
    /\ clean' = [clean EXCEPT ![r] = TRUE]
    /\ UNCHANGED <<claim, repairs, copy>>

\* Claim.find (and claim.repair), or Repair.find.
Load(r) ==
    /\ \/ /\ pc[r] = "form"
          /\ \E f \in Edits(req[r]) : req' = [req EXCEPT ![r] = f]
          /\ copy' = [copy EXCEPT ![r] = Loaded(First)]
          /\ UNCHANGED begun
       \/ /\ Begin(r)
          /\ \E a \in Asks(1 .. Len(repairs)) :
                /\ a.kind \in Handlers
                /\ req'  = [req EXCEPT ![r] = a]
                /\ copy' = [copy EXCEPT ![r] =
                      Loaded(IF a.kind \in ById THEN a.id ELSE First)]
    /\ pc' = [pc EXCEPT ![r] = "loaded"]
    /\ UNCHANGED <<claim, repairs, clean>>

-----------------------------------------------------------------------------
(* Saving *)

\* A column that was assigned the value it was loaded with is not written.
Kept(new, loaded, stored) == IF new = loaded THEN stored ELSE new

\* Mutant: a zero is not written over a zero, as with a numeric column.
ZeroedIfPositive(loaded, stored) == IF loaded.amount = 0 THEN stored ELSE FloatZero

\* A Float assigned to a text column never equals the text: it is written.
Zeroed(loaded, stored) == FloatZero

\* Claim#buyout_or_reimbursement and the columns it leaves to be written.  In
\* the saves of the other requests neither sum has changed: it does nothing.
buyout_or_reimbursement(c, f) ==
    IF f.reimbursement # c.reimbursement /\ f.reimbursement.amount > 0
    THEN [claim EXCEPT !.buyout = Zeroed(c.buyout, @), !.reimbursement = f.reimbursement]
    ELSE IF f.buyout # c.buyout /\ f.buyout.amount > 0
    THEN [claim EXCEPT !.buyout = f.buyout, !.reimbursement = Zeroed(c.reimbursement, @)]
    ELSE [claim EXCEPT !.buyout = Kept(f.buyout, c.buyout, @),
                       !.reimbursement = Kept(f.reimbursement, c.reimbursement, @)]

At(r, kinds) == pc[r] = "loaded" /\ req[r].kind \in kinds

\* The request is answered, or ends without a trace.
Ends(r) ==
    /\ pc'  = [pc EXCEPT ![r] = "idle"]
    /\ req' = [req EXCEPT ![r] = Idle]
    /\ copy' = [copy EXCEPT ![r] = Nothing]
    /\ UNCHANGED begun

\* A request wrote: the forms others have open no longer show the rows.
Wrote(r) == clean' = [q \in Requests |-> clean[q] /\ q = r]

SaveClaim(r, row) ==
    /\ claim' = row
    /\ UNCHANGED repairs
    /\ Wrote(r)
    /\ Ends(r)

SaveRepair(r, row) ==
    /\ repairs' = [repairs EXCEPT ![copy[r].id] = row]
    /\ UNCHANGED claim
    /\ Wrote(r)
    /\ Ends(r)

CreateRepair(r, row) ==
    /\ repairs' = Append(repairs, row)
    /\ UNCHANGED claim
    /\ Wrote(r)
    /\ Ends(r)

\* An exception before or in the save, a request or page given up, a crash.
Stops(r) ==
    /\ clean' = [clean EXCEPT ![r] = FALSE]
    /\ Ends(r)
    /\ UNCHANGED <<claim, repairs>>

-----------------------------------------------------------------------------
(* claims#async_update_claim_or_repair *)

\* Mutant: a zero amount is pre-authorized like any small one.
AuthorizationOfZero(amount, stored) == IF amount <= 100 THEN "1" ELSE stored

\* At most $100 is pre-authorized, $0 is not; above that the column is left.
\* The numbers 0 and 1 never equal the text loaded, so they are written.
Authorization(amount, stored) ==
    IF amount = 0 THEN "0" ELSE IF amount <= 100 THEN "1" ELSE stored

Amount(r) ==
    /\ At(r, {"amount"})
    /\ LET new == req[r].amount
           id  == copy[r].id
       IN  IF id = 0
           THEN CreateRepair(r, [NewRepair EXCEPT
                    !.amount = new, !.authorization = Authorization(new, @)])
           ELSE SaveRepair(r, [repairs[id] EXCEPT
                    !.amount = Kept(new, copy[r].repair.amount, @),
                    !.authorization = Authorization(new, @)])

\* A blank amount is NULL: repairs.amount takes none, so the database rejects
\* it or, outside strict mode, an UPDATE stores 0.
BlankAmount(r) ==
    /\ At(r, {"blank_amount"})
    /\ \/ Stops(r)
       \/ /\ copy[r].id # 0
          /\ SaveRepair(r, [repairs[copy[r].id] EXCEPT
                 !.amount = Kept(0, copy[r].repair.amount, @)])

Assign(r) ==
    /\ At(r, {"assign"})
    /\ LET new == req[r].contractor
           id  == copy[r].id
       IN  IF id = 0
           THEN CreateRepair(r, [NewRepair EXCEPT !.contractor_id = new])
           ELSE SaveRepair(r, [repairs[id] EXCEPT
                    !.contractor_id = Kept(new, copy[r].repair.contractor_id, @)])

StatusCode(r) ==
    /\ At(r, {"status_code"})
    /\ SaveClaim(r, [claim EXCEPT
           !.status_code = Kept(req[r].code, copy[r].claim.status_code, @)])

\* async_status here, invoice_status in claims#update: the same assignment.
InvoiceStatus(r) ==
    /\ At(r, {"async_status", "invoice_status"})
    /\ SaveClaim(r, [claim EXCEPT
           !.invoice_status = Kept(req[r].status, copy[r].claim.invoice_status, @)])

\* The text goes to the model as it is.
AsyncReceive(r) ==
    /\ At(r, {"async_receive"})
    /\ SaveClaim(r, [claim EXCEPT
           !.invoice_receive = Kept(Misread[req[r].date], copy[r].claim.invoice_receive, @)])

-----------------------------------------------------------------------------
(* claims#update *)

Receive(r) ==
    /\ At(r, {"receive"})
    /\ SaveClaim(r, [claim EXCEPT
           !.invoice_receive = Kept(req[r].date, copy[r].claim.invoice_receive, @),
           !.invoice_status  = Kept("Received", copy[r].claim.invoice_status, @)])

ClearReceive(r) ==
    /\ At(r, {"clear_receive"})
    /\ SaveClaim(r, [claim EXCEPT
           !.invoice_receive = Kept(None, copy[r].claim.invoice_receive, @)])

\* Mutant: the status is set to Received when the date was there already.
FormStatusSame(c, f) ==
    IF f.date # None /\ f.date = c.invoice_receive THEN "Received" ELSE f.status

\* A date that is not the one loaded means that the invoice was received.
FormStatus(c, f) ==
    IF f.date # None /\ f.date # c.invoice_receive THEN "Received" ELSE f.status

\* update_attributes(params[:claim]): the claim and its repair in one
\* transaction, the date as the model's parser reads it.
SaveForm(r) ==
    /\ At(r, {"form"})
    /\ LET f    == req[r]
           c    == copy[r].claim
           read == IF f.date = None THEN None ELSE Misread[f.date]
           new  == IF f.blank THEN 0 ELSE f.amount
       IN  /\ claim' = [claim EXCEPT
                  !.status_code     = Kept(f.code, c.status_code, @),
                  !.invoice_receive = Kept(read, c.invoice_receive, @),
                  !.invoice_status  = Kept(FormStatus(c, f), c.invoice_status, @)]
           /\ repairs' = IF f.id = 0 THEN repairs
                         ELSE [repairs EXCEPT ![f.id].amount =
                                  Kept(new, copy[r].repair.amount, @)]
           /\ pc' = [pc EXCEPT ![r] = IF f.date = None THEN "saved" ELSE "date"]
    /\ Wrote(r)
    /\ UNCHANGED <<req, copy, begun>>

\* The same for the second form, which has no date.
SaveRelease(r) ==
    /\ At(r, {"release"})
    /\ claim' = buyout_or_reimbursement(copy[r].claim, req[r])
    /\ pc' = [pc EXCEPT ![r] = "saved"]
    /\ Wrote(r)
    /\ UNCHANGED <<repairs, req, copy, begun>>

\* The second save puts the date right.
SaveDate(r) ==
    /\ pc[r] = "date"
    /\ claim' = [claim EXCEPT
           !.invoice_receive = Kept(req[r].date, Misread[req[r].date], @)]
    /\ pc' = [pc EXCEPT ![r] = "saved"]
    /\ Wrote(r)
    /\ UNCHANGED <<repairs, req, copy, begun>>

Answer(r) == pc[r] = "saved" /\ Stops(r)

-----------------------------------------------------------------------------
(* repairs#async_toggle_status, #async_toggle_authorization, #complete and  *)
(* #async_unassign_contractor_for_claim                                     *)

\* Mutant: the status is counted up.
toggle_status_up(r) ==
    /\ At(r, {"toggle_status"})
    /\ SaveRepair(r, [repairs[copy[r].id] EXCEPT !.status = 1 + copy[r].repair.status])

toggle_status(r) ==
    /\ At(r, {"toggle_status"})
    /\ SaveRepair(r, [repairs[copy[r].id] EXCEPT !.status = 1 - copy[r].repair.status])

\* A text never equals 0: the toggle only ever withdraws.
toggle_authorization(r) ==
    /\ At(r, {"toggle_authorization"})
    /\ SaveRepair(r, [repairs[copy[r].id] EXCEPT !.authorization = "0"])

\* The note names the contractor's company; without a contractor it raises.
complete(r) ==
    /\ At(r, {"complete"})
    /\ IF copy[r].repair.contractor_id = None THEN Stops(r)
       ELSE SaveRepair(r, [repairs[copy[r].id] EXCEPT
                !.status = Kept(1, copy[r].repair.status, @)])

unassign(r) ==
    /\ At(r, {"unassign"})
    /\ IF copy[r].id = 0 THEN Stops(r)
       ELSE SaveRepair(r, [repairs[copy[r].id] EXCEPT
                !.contractor_id = Kept(None, copy[r].repair.contractor_id, @)])

-----------------------------------------------------------------------------
GiveUp(r) == pc[r] \in {"form", "loaded", "date"} /\ Stops(r)

Step(r) ==
    \/ Render(r) \/ Load(r) \/ SaveForm(r) \/ SaveDate(r) \/ SaveRelease(r)
    \/ Answer(r)
    \/ Amount(r) \/ BlankAmount(r) \/ Assign(r) \/ StatusCode(r)
    \/ InvoiceStatus(r) \/ AsyncReceive(r) \/ Receive(r) \/ ClearReceive(r)
    \/ toggle_status(r) \/ toggle_authorization(r) \/ complete(r)
    \/ unassign(r) \/ GiveUp(r)

Quiescent ==
    /\ begun = MaxRequests
    /\ \A r \in Requests : pc[r] = "idle"
    /\ UNCHANGED vars

Next == (\E r \in Requests : Step(r)) \/ Quiescent

Spec == Init /\ [][Next]_vars

-----------------------------------------------------------------------------
(* Properties *)

Forms ==
    [kind : {"form"}, code : ActiveCodes, date : Dates \cup {None},
     status : Statuses \cup {Blank}, id : {0, 1}, amount : Amounts, blank : BOOLEAN]

Releases == [kind : {"release"}, buyout : Texts, reimbursement : Texts]

Pages == Forms \cup Releases

\* Every column and every loaded copy holds a value of its kind, and a request
\* that is past its page holds the form or the id of a repair that exists.
TypeOK ==
    /\ claim \in Claims
    /\ repairs \in Seq(Repairs)
    /\ pc \in [Requests -> {"idle", "form", "loaded", "date", "saved"}]
    /\ clean \in [Requests -> BOOLEAN]
    /\ begun \in Nat
    /\ copy \in [Requests -> [claim : Claims, id : Nat, repair : Repairs]]
    /\ req \in [Requests -> Pages \cup Asks(1 .. Len(repairs)) \cup {Idle}]
    /\ \A r \in Requests :
          /\ pc[r] \in {"form", "saved"} => req[r] \in Pages
          /\ pc[r] = "date" => req[r] \in Forms /\ req[r].date # None
          /\ req[r].kind = "form" => req[r].id <= Len(repairs)
          /\ At(r, ById) => copy[r].id # 0
          /\ copy[r].id <= Len(repairs)

\* Claim#buyout_or_reimbursement: a claim is settled by a buyout or by a
\* reimbursement, never both, also when two agents save at once.  It rests on
\* the zero being written whether or not the row that was loaded had one.
OneSettlement == ~(claim.buyout.amount > 0 /\ claim.reimbursement.amount > 0)

\* claims#update: once a form is saved, and no one else wrote since it was
\* rendered, the rows hold what was sent, the claim status among it, and all
\* that the form does not have is as it was: the passage through texts, the
\* before_save and the two saves of the date change nothing else.  (A browser
\* does not send two sums that are both positive.)
FormTakesEffect ==
    \A r \in Requests : pc[r] = "saved" /\ clean[r] =>
        LET f == req[r]
            c == copy[r].claim
        IN  /\ f.kind = "form" =>
                  /\ claim = [c EXCEPT
                        !.status_code     = f.code,
                        !.invoice_receive = f.date,
                        !.invoice_status  = IF f.date \in {None, c.invoice_receive}
                                            THEN f.status ELSE "Received"]
                  /\ f.id = 1 => repairs[1] = [copy[r].repair EXCEPT
                                     !.amount = IF f.blank THEN 0 ELSE f.amount]
            /\ f.kind = "release" =>
                  /\ claim = [c EXCEPT !.buyout = claim.buyout,
                                       !.reimbursement = claim.reimbursement]
                  /\ ~(f.buyout.amount > 0 /\ f.reimbursement.amount > 0) =>
                        /\ claim.buyout.amount = f.buyout.amount
                        /\ claim.reimbursement.amount = f.reimbursement.amount

\* claims#async_update_claim_or_repair, "Never authorize $0 or allow null
\* amounts": a repair comes to be authorized for nothing only by the edit form
\* or a blank amount, which do not touch the authorization, or by a request
\* whose copy of the repair was no longer the row.
AuthorizedForNothing(row) == row.authorization = "1" /\ row.amount = 0

ZeroIsNeverAuthorizedAfresh ==
    [][\A i \in 1 .. Len(repairs') : AuthorizedForNothing(repairs'[i]) =>
          \/ i <= Len(repairs) /\ AuthorizedForNothing(repairs[i])
          \/ \E r \in Requests :
                /\ pc[r] = "loaded" /\ pc'[r] # "loaded"
                /\ \/ req[r].kind \in {"form", "blank_amount"}
                   \/ copy[r].id = i /\ copy[r].repair # repairs[i]]_vars

\* claims#async_update_claim_or_repair, "Pre-authorize under or equal to
\* $100": nothing else authorizes, so an authorized repair is at most $100.
AuthorizedWithinLimit ==
    \A i \in 1 .. Len(repairs) : repairs[i].authorization = "1" => repairs[i].amount <= 100
=============================================================================
