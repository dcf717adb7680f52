----------------------------- MODULE NmiBilling -----------------------------
(***************************************************************************)
(* Billing through the NMI gateway: Admin::SubscriptionsController, the    *)
(* charge methods of CreditCard, Subscription and the gateway client       *)
(* GwApi.                                                                  *)
(*                                                                         *)
(* A request is one call of a controller action by an agent.  It runs in   *)
(* steps, because every save and every gateway call is a point where       *)
(* another request may run, where the answer may be lost (doPost gives up  *)
(* after 15 seconds) and where the process may die.  A request creates at  *)
(* most one row in each table, so the tables are functions of the request  *)
(* that creates the row.                                                   *)
(***************************************************************************)
EXTENDS Naturals

CONSTANTS
    Requests,    \* the calls agents make
    Amounts,     \* the amounts an agent may type
    MinBilling,  \* the smallest amount nmi_billing and manual_billing accept (1.0)
    LocalDates   \* what the server's local date may be, compared with Time.zone's

ASSUME AmountsAssumption == Amounts \subseteq Nat
ASSUME MinBillingAssumption == MinBilling \in Nat \ {0}
ASSUME LocalDatesAssumption == LocalDates \subseteq {"today", "other"}

VARIABLES
    pc,         \* the step each request is at
    req,        \* the parameters of each request
    answer,     \* the 'response' the gateway gave to it
    loaded,     \* transaction.refund as the request read it
    captured,   \* gateway: the amount captured by the request's sale
    vault,      \* gateway: the recurring subscription the request added
    refunded,   \* gateway: the amount given back on the request's sale
    subStatus,  \* subscriptions.status, "none" when there is no row
    subStart,   \* subscriptions.start_date
    cancelled,  \* subscriptions.is_cancel_subscription
    txn,        \* transactions.response_code, "none" when there is no row
    refund,     \* transactions.refund
    note,       \* the note the request left on the customer
    raced       \* observer: transactions on which two refund requests overlapped

gateway == <<captured, vault, refunded>>
tables  == <<subStatus, subStart, cancelled, txn, refund>>
vars    == <<pc, req, answer, loaded, gateway, tables, note, raced>>

SubscriptionKinds == {"nmi_billing", "manual_billing", "bill_subscription_nmi"}
ChargeKinds == SubscriptionKinds \cup {"bill_manual_nmi"}
CancelKinds == {"del_subscription", "delete_subscription"}
Kinds == ChargeKinds \cup CancelKinds \cup {"none", "refund", "void_transaction"}

Dates     == {"none", "today", "other"}  \* compared with the day of the request
EndDates  == {"none", "other"}
Responses == {"1", "2", "3"}             \* approved, declined, error
Running   == {"sale", "subscription", "transaction", "refund", "saveRefund",
              "cancel", "saveCancel", "note"}
Ended     == {"done", "aborted"}

\* target: the request whose transaction or subscription row the call is about.
NoRequest(r) ==
    [kind |-> "none", amount |-> 0, start |-> "none", end |-> "none", target |-> r]

-----------------------------------------------------------------------------
(* Settings the handlers look up before they call the gateway. *)

\* states and merchant_accounts, as far as one customer's state goes: whether
\* the state is known, names a merchant account, and a default account exists.
Settings == [known : BOOLEAN, own : BOOLEAN, default : BOOLEAN]

\* Subscription.nmi_login.  State has no merchant_account association, so a
\* state that names an account makes the call raise.
nmi_login(s) ==
    IF s.known /\ s.own THEN "raises"
    ELSE IF s.default THEN "account" ELSE "none"

\* Where a charge goes once its parameters are accepted: to the gateway, to
\* the note that says 'Invalid Merchant Account', or into an exception
\* (nmi_login, or params[:start_date].to_date on a missing date).
ChargeEntry(s, start, occurances) ==
    CASE nmi_login(s) = "raises" -> "aborted"
      [] nmi_login(s) = "none"   -> "note"
      [] OTHER -> IF occurances /\ start = "none" THEN "aborted" ELSE "sale"

\* Mutant: the gateway's code is stored instead of its name.
StatusAsCode(response) == response

Status(response) ==
    CASE response = "1" -> "Approved"
      [] response = "2" -> "Declined"
      [] OTHER          -> "Error"

\* Subscription#update_occuranges, run by after_create: the row gets a start
\* date of its own only when both dates are missing.
update_occuranges(start, end, localDate) ==
    IF start = "none" /\ end = "none" THEN localDate ELSE start

-----------------------------------------------------------------------------
Init ==
    /\ pc        = [r \in Requests |-> "idle"]
    /\ req       = [r \in Requests |-> NoRequest(r)]
    /\ answer    = [r \in Requests |-> "0"]
    /\ loaded    = [r \in Requests |-> 0]
    /\ captured  = [r \in Requests |-> 0]
    /\ vault     = [r \in Requests |-> "none"]
    /\ refunded  = [r \in Requests |-> 0]
    /\ subStatus = [r \in Requests |-> "none"]
    /\ subStart  = [r \in Requests |-> "none"]
    /\ cancelled = [r \in Requests |-> FALSE]
    /\ txn       = [r \in Requests |-> "none"]
    /\ refund    = [r \in Requests |-> 0]
    /\ note      = [r \in Requests |-> "none"]
    /\ raced     = {}

-----------------------------------------------------------------------------
(* The controller actions, up to the gateway call. *)

Call(r, params, entry) ==
    /\ pc[r] = "idle"
    /\ pc'  = [pc  EXCEPT ![r] = entry]
    /\ req' = [req EXCEPT ![r] = params]
    /\ UNCHANGED <<answer, gateway, tables, note>>

Charge(r, kind, amount, start, end) ==
    [kind |-> kind, amount |-> amount, start |-> start, end |-> end, target |-> r]

nmi_billing(r) ==
    /\ \E amount \in Amounts, start \in Dates \ {"none"}, end \in EndDates,
          s \in Settings, occurances \in BOOLEAN :
          Call(r, Charge(r, "nmi_billing", amount, start, end),
               IF amount >= MinBilling
               THEN ChargeEntry(s, start, occurances) ELSE "done")
    /\ UNCHANGED <<loaded, raced>>

manual_billing(r) ==
    /\ \E amount \in Amounts, s \in Settings :
          Call(r, Charge(r, "manual_billing", amount, "none", "none"),
               IF amount >= MinBilling
               THEN ChargeEntry(s, "none", FALSE) ELSE "done")
    /\ UNCHANGED <<loaded, raced>>

\* An amount of 0 skips the charge and still leaves a note; 'Invalid End Date'
\* leaves none.
bill_subscription_nmi(r) ==
    /\ \E amount \in Amounts, start \in Dates, end \in EndDates,
          s \in Settings, occurances, endRequired \in BOOLEAN :
          Call(r, Charge(r, "bill_subscription_nmi", amount, start, end),
               IF endRequired /\ end = "none" THEN "done"
               ELSE IF amount > 0 THEN ChargeEntry(s, start, occurances) ELSE "note")
    /\ UNCHANGED <<loaded, raced>>

bill_manual_nmi(r) ==
    /\ \E amount \in Amounts, s \in Settings :
          Call(r, Charge(r, "bill_manual_nmi", amount, "none", "none"),
               IF amount > 0 THEN ChargeEntry(s, "none", FALSE) ELSE "note")
    /\ UNCHANGED <<loaded, raced>>

About(kind, amount, t) ==
    [kind |-> kind, amount |-> amount, start |-> "none", end |-> "none", target |-> t]

Refunding(r, t) == req[r].kind = "refund" /\ req[r].target = t

\* Mutant: the refund is asked for whether or not there is a transaction row.
RefundAnySale(r) ==
    /\ \E t \in Requests, amount \in Amounts : Call(r, About("refund", amount, t), "refund")
    /\ UNCHANGED <<loaded, raced>>

\* refund reads the row, and what it read is what it will add to.
Refund(r) ==
    \E t \in Requests, amount \in Amounts, s \in Settings, valid \in BOOLEAN :
        LET entry == CASE nmi_login(s) = "raises" -> "aborted"
                       [] nmi_login(s) = "none"   -> "done"
                       [] OTHER -> IF valid THEN "refund" ELSE "note"
        IN /\ txn[t] # "none"
           /\ Call(r, About("refund", amount, t), entry)
           /\ loaded' = [loaded EXCEPT ![r] = refund[t]]
           /\ raced'  = IF /\ entry = "refund"
                           /\ \E o \in Requests : /\ Refunding(o, t)
                                                  /\ pc[o] \in {"refund", "saveRefund"}
                        THEN raced \cup {t} ELSE raced

\* Mutant: the check for a transaction row is dropped.
del_subscription_unchecked(r) ==
    /\ \E t \in Requests :
          /\ subStatus[t] # "none"
          /\ Call(r, About("del_subscription", 0, t), "cancel")
    /\ UNCHANGED <<loaded, raced>>

\* Only a subscription whose transaction row carries a subscription id reaches
\* the gateway; any other gets 'Invalid Subscription ID'.
del_subscription(r) ==
    /\ \E t \in Requests, s \in Settings :
          /\ subStatus[t] # "none"
          /\ Call(r, About("del_subscription", 0, t),
                  CASE nmi_login(s) = "raises" -> "aborted"
                    [] nmi_login(s) = "none"   -> "done"
                    [] OTHER -> IF txn[t] = "1" THEN "cancel" ELSE "done")
    /\ UNCHANGED <<loaded, raced>>

\* The other cancel action asks the gateway's demo account, and dereferences
\* the transaction row without looking whether there is one.
delete_subscription(r) ==
    /\ \E t \in Requests :
          /\ subStatus[t] # "none"
          /\ Call(r, About("delete_subscription", 0, t),
                  IF txn[t] = "none" THEN "aborted" ELSE "cancel")
    /\ UNCHANGED <<loaded, raced>>

\* doVoid is given the row's integer id and raises while it builds its query.
void_transaction(r) ==
    /\ \E t \in Requests :
          /\ txn[t] # "none"
          /\ Call(r, About("void_transaction", 0, t), "aborted")
    /\ UNCHANGED <<loaded, raced>>

-----------------------------------------------------------------------------
(* The gateway calls (external).  The gateway acts, then its answer reaches *)
(* the request or is lost: doPost raises and nothing catches it.            *)

Answered(r, response, delivered, next) ==
    /\ answer' = [answer EXCEPT ![r] = IF delivered THEN response ELSE @]
    /\ pc'     = [pc EXCEPT ![r] = IF delivered THEN next ELSE "aborted"]
    /\ UNCHANGED <<req, loaded, tables, note, raced>>

\* doSale, and doSale2, which also adds a recurring subscription.
doSale(r) ==
    /\ pc[r] = "sale"
    /\ \E response \in Responses, delivered \in BOOLEAN :
          /\ captured' = [captured EXCEPT ![r] = IF response = "1" THEN req[r].amount ELSE @]
          /\ vault' = [vault EXCEPT ![r] = IF /\ response = "1"
                                              /\ req[r].kind \in SubscriptionKinds
                                           THEN "active" ELSE @]
          /\ Answered(r, response, delivered,
                      IF req[r].kind \in SubscriptionKinds
                      THEN "subscription" ELSE "transaction")
    /\ UNCHANGED refunded

\* Mutant: the refund is saved whatever the gateway answered.
doRefundUnchecked(r) ==
    /\ pc[r] = "refund"
    /\ \E response \in Responses : Answered(r, response, TRUE, "saveRefund")
    /\ UNCHANGED gateway

doRefund(r) ==
    /\ pc[r] = "refund"
    /\ \E response \in Responses, delivered \in BOOLEAN :
          /\ response = "1" => captured[req[r].target] > 0
          /\ refunded' = [refunded EXCEPT ![req[r].target] =
                             IF response = "1" THEN @ + req[r].amount ELSE @]
          /\ Answered(r, response, delivered,
                      IF response = "1" THEN "saveRefund" ELSE "note")
    /\ UNCHANGED <<captured, vault>>

\* Mutant: the subscription is marked cancelled whatever the gateway answered.
cancelUnchecked(r) ==
    /\ pc[r] = "cancel"
    /\ \E response \in Responses : Answered(r, response, TRUE, "saveCancel")
    /\ UNCHANGED gateway

\* The demo account does not hold the merchant's subscriptions.
cancelSubscription(r) ==
    /\ pc[r] = "cancel"
    /\ \E response \in Responses, delivered \in BOOLEAN :
          /\ vault' = [vault EXCEPT ![req[r].target] =
                          IF response = "1" /\ req[r].kind = "del_subscription"
                          THEN "deleted" ELSE @]
          /\ Answered(r, response, delivered,
                      IF response = "1" THEN "saveCancel" ELSE "note")
    /\ UNCHANGED <<captured, refunded>>

-----------------------------------------------------------------------------
(* What is written after the answer, one save at a time. *)

\* Mutant: the comparison with the current date is inverted.
SaveSubscriptionInverted(r) ==
    /\ pc[r] = "subscription"
    /\ subStatus' = [subStatus EXCEPT ![r] = Status(answer[r])]
    /\ subStart'  = [subStart EXCEPT ![r] = req[r].start]
    /\ pc' = [pc EXCEPT ![r] = IF req[r].start = "today" THEN "note" ELSE "transaction"]
    /\ UNCHANGED <<req, answer, loaded, gateway, cancelled, txn, refund, note, raced>>

\* charge_cents2!: the subscription row, then a transaction row only for a
\* subscription that starts today; a row without start date raises there.
SaveSubscription(r) ==
    /\ pc[r] = "subscription"
    /\ \E localDate \in LocalDates :
          LET start == update_occuranges(req[r].start, req[r].end, localDate)
          IN /\ subStatus' = [subStatus EXCEPT ![r] = Status(answer[r])]
             /\ subStart'  = [subStart EXCEPT ![r] = start]
             /\ pc' = [pc EXCEPT ![r] = CASE start = "today" -> "transaction"
                                          [] start = "other" -> "note"
                                          [] OTHER           -> "aborted"]
    /\ UNCHANGED <<req, answer, loaded, gateway, cancelled, txn, refund, note, raced>>

SaveTransaction(r) ==
    /\ pc[r] = "transaction"
    /\ txn' = [txn EXCEPT ![r] = answer[r]]
    /\ pc'  = [pc EXCEPT ![r] = "note"]
    /\ UNCHANGED <<req, answer, loaded, gateway, subStatus, subStart, cancelled,
                   refund, note, raced>>

\* Mutant: the earlier refunds are forgotten.
SaveRefundOverwrites(r) ==
    /\ pc[r] = "saveRefund"
    /\ refund' = [refund EXCEPT ![req[r].target] = req[r].amount]
    /\ pc' = [pc EXCEPT ![r] = "note"]
    /\ UNCHANGED <<req, answer, loaded, gateway, subStatus, subStart, cancelled,
                   txn, note, raced>>

\* ActiveRecord writes a column only when its value changed.
SaveRefund(r) ==
    /\ pc[r] = "saveRefund"
    /\ refund' = [refund EXCEPT ![req[r].target] =
                     IF req[r].amount = 0 THEN @ ELSE loaded[r] + req[r].amount]
    /\ pc' = [pc EXCEPT ![r] = "note"]
    /\ UNCHANGED <<req, answer, loaded, gateway, subStatus, subStart, cancelled,
                   txn, note, raced>>

\* Mutant: the save after the assignment is missing.
SaveCancelUnsaved(r) ==
    /\ pc[r] = "saveCancel"
    /\ pc' = [pc EXCEPT ![r] = "note"]
    /\ UNCHANGED <<req, answer, loaded, gateway, tables, note, raced>>

SaveCancel(r) ==
    /\ pc[r] = "saveCancel"
    /\ cancelled' = [cancelled EXCEPT ![req[r].target] = TRUE]
    /\ pc' = [pc EXCEPT ![r] = "note"]
    /\ UNCHANGED <<req, answer, loaded, gateway, subStatus, subStart, txn,
                   refund, note, raced>>

\* Mutant: only an error, and not a decline, counts as a failure.
SaveNoteDeclinedToo(r) ==
    /\ pc[r] = "note"
    /\ note' = [note EXCEPT ![r] = IF answer[r] = "3" THEN "failure" ELSE "success"]
    /\ pc'   = [pc EXCEPT ![r] = "done"]
    /\ UNCHANGED <<req, answer, loaded, gateway, tables, raced>>

SaveNote(r) ==
    /\ pc[r] = "note"
    /\ note' = [note EXCEPT ![r] = IF answer[r] = "1" THEN "success" ELSE "failure"]
    /\ pc'   = [pc EXCEPT ![r] = "done"]
    /\ UNCHANGED <<req, answer, loaded, gateway, tables, raced>>

\* The process dies, or a save or a mail raises.
Abort(r) ==
    /\ pc[r] \in Running
    /\ pc' = [pc EXCEPT ![r] = "aborted"]
    /\ UNCHANGED <<req, answer, loaded, gateway, tables, note, raced>>

Quiescent ==
    /\ \A r \in Requests : pc[r] \in Ended
    /\ UNCHANGED vars

Start(r) ==
    \/ nmi_billing(r) \/ manual_billing(r) \/ bill_subscription_nmi(r)
    \/ bill_manual_nmi(r) \/ Refund(r) \/ del_subscription(r)
    \/ delete_subscription(r) \/ void_transaction(r)

Continue(r) ==
    \/ doSale(r) \/ doRefund(r) \/ cancelSubscription(r)
    \/ SaveSubscription(r) \/ SaveTransaction(r) \/ SaveRefund(r)
    \/ SaveCancel(r) \/ SaveNote(r)

Next ==
    \/ \E r \in Requests : Start(r) \/ Continue(r) \/ Abort(r)
    \/ Quiescent

Spec == Init /\ [][Next]_vars

-----------------------------------------------------------------------------
(* Properties *)

TypeOK ==
    /\ pc \in [Requests -> {"idle"} \cup Running \cup Ended]
    /\ req \in [Requests -> [kind : Kinds, amount : Nat, start : Dates,
                             end : EndDates, target : Requests]]
    /\ answer \in [Requests -> Responses \cup {"0"}]
    /\ loaded \in [Requests -> Nat]
    /\ captured \in [Requests -> Nat]
    /\ vault \in [Requests -> {"none", "active", "deleted"}]
    /\ refunded \in [Requests -> Nat]
    /\ subStatus \in [Requests -> {"none", "Approved", "Declined", "Error"}]
    /\ subStart \in [Requests -> Dates]
    /\ cancelled \in [Requests -> BOOLEAN]
    /\ txn \in [Requests -> Responses \cup {"0", "none"}]
    /\ refund \in [Requests -> Nat]
    /\ note \in [Requests -> {"none", "success", "failure"}]
    /\ raced \in SUBSET Requests

\* The note a billing request leaves tells the truth about the card: 'Billed'
\* only when the gateway captured the amount, 'Attempted to bill' only when it
\* captured nothing, so that billing again after such a note charges once
\* (nmi_charge, bill_manual_nmi, bill_subscription_nmi).
NoteTellsTruth ==
    \A r \in Requests : req[r].kind \in ChargeKinds =>
        /\ note[r] = "success" => captured[r] = req[r].amount
        /\ note[r] = "failure" => captured[r] = 0

\* Captured money is in the transactions table, except in three cases: the
\* request is still running, it died after the gateway call, or it billed a
\* subscription whose start date is not today, for which charge_cents2! writes
\* no transaction although it asked for a sale.
CaptureIsRecorded ==
    \A r \in Requests : captured[r] > 0 =>
        \/ txn[r] = "1"
        \/ pc[r] \in {"subscription", "transaction", "aborted"}
        \/ pc[r] \in {"note", "done"} /\ subStart[r] = "other"

\* No row is invented: an approved transaction stands for captured money and
\* an approved subscription for one the gateway holds or held.
ApprovedIsCaptured ==
    \A r \in Requests :
        /\ txn[r] = "1" => captured[r] = req[r].amount /\ captured[r] > 0
        /\ subStatus[r] = "Approved" => vault[r] # "none"

\* transactions.refund never exceeds what the gateway gave back, whatever the
\* overlap of refund requests and wherever they die (refund).
RefundNeverOverstated ==
    \A t \in Requests : refund[t] <= refunded[t]

\* The refund column is exact when the refund requests on the row came one
\* after the other and none was cut off between the gateway and the save.
InFlightRefund(r, t) == Refunding(r, t) /\ pc[r] \in {"refund", "saveRefund"}
CutOffRefund(r, t)   == Refunding(r, t) /\ pc[r] = "aborted"
RefundExactWhenSerial ==
    \A t \in Requests :
        (/\ t \notin raced
         /\ \A r \in Requests : ~InFlightRefund(r, t) /\ ~CutOffRefund(r, t))
        => refund[t] = refunded[t]

\* A subscription marked cancelled was deleted at the gateway, unless the mark
\* comes from delete_subscription, which asks the demo account.
CancelledMeansDeleted ==
    \A t \in Requests : cancelled[t] =>
        \/ vault[t] = "deleted"
        \/ \E r \in Requests : /\ req[r].kind = "delete_subscription"
                               /\ req[r].target = t
                               /\ answer[r] = "1"

\* A subscription deleted at the gateway is marked cancelled, or the request
\* that deleted it has not saved yet or never will.
DeletedMeansCancelled ==
    \A t \in Requests : vault[t] = "deleted" =>
        \/ cancelled[t]
        \/ \E r \in Requests : /\ req[r].kind = "del_subscription"
                               /\ req[r].target = t
                               /\ pc[r] \in {"saveCancel", "aborted"}

\* A subscription that starts on another day is never stopped: it has no
\* transaction row, and del_subscription finds the gateway's id only there.
OnlyTodayIsStopped ==
    \A t \in Requests : vault[t] = "deleted" => subStart[t] = "today" /\ txn[t] = "1"

\* The refinement mapping: the office has written down as taken what its
\* approved transaction rows say.
Booked == [r \in Requests |-> IF txn[r] = "1" THEN req[r].amount ELSE 0]
Books == INSTANCE GatewayBooks
    WITH Sales <- Requests, took <- captured, given <- refunded, plan <- vault,
         booked <- Booked, back <- refund, listed <- subStatus, ended <- cancelled

\* Overlapping requests, lost answers and dead processes come to no more than
\* the two books of GatewayBooks: no money is given back on a sale and no
\* subscription stopped that the office has not written down, and nothing is
\* written down twice or before the gateway acted (SubscriptionsController).
ImplementsBooks == Books!BooksSpec
=============================================================================
