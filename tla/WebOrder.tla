------------------------------- MODULE WebOrder -------------------------------
(***************************************************************************)
(* Buying a contract on the public site: SiteController's purchase and     *)
(* billing, over the browser's cookie, the customers table and the         *)
(* Authorize.net gateway.                                                  *)
(*                                                                         *)
(* One browser has several pages open, so requests run at the same time.   *)
(* billing makes three calls to the gateway and writes five tables without *)
(* a transaction; each call and each write is a step.  An exception (a     *)
(* gateway timeout, a mail that is refused) ends the request with an error *)
(* page, and Rails then sends no Set-Cookie header.                        *)
(*                                                                         *)
(* Every order of this browser gives the same e-mail address.  Addresses,  *)
(* card data, contract length and the texts of the mails are left out, and *)
(* the price with and without a discount is one number.                    *)
(***************************************************************************)
EXTENDS Integers, Sequences, FiniteSets

CONSTANTS
    Requests,          \* billing requests that may run at the same time
    Price,             \* the price of the contract
    Plans,             \* numbers of payments the purchase page offers
    Modes,             \* payment modes sent from the billing page
    Statuses,          \* status_ids an agent gives
    MaxCustomers,      \* bound: quotes asked for
    MaxSubscriptions,  \* bound: subscriptions the gateway opens
    MaxFaults          \* bound: requests ended by an exception

ASSUME PriceAssumption == Price \in Nat
ASSUME PlansAssumption == Plans \subseteq Nat \ {0}
ASSUME ModesAssumption == Modes \subseteq {"scriptless", "single", "monthly"}
ASSUME StatusesAssumption == Statuses \subseteq Nat

VARIABLES
    customers,      \* the customers table, in the order of the ids
    accounts,       \* accounts rows with the visitor's e-mail address
    cookie,         \* incomplete_gaq_customer_id in the browser, 0: none
    subscriptions,  \* the gateway's, in the order of their ids
    pc,             \* per request, its next step in billing
    order,          \* per request, its local variables
    faults,         \* requests ended by an exception
    thanked,        \* observer: customers told "Thank you for your order"
    cut,            \* observer: a request has ended after the gateway was asked
    overlapped      \* observer: two billing requests have run at the same time

orderVars == <<customers, accounts, cookie, subscriptions, pc, order, faults,
               thanked, cut, overlapped>>

Steps == {"idle", "profile", "recurring", "save", "renew", "validate",
          "insert", "mail", "terms", "card"}

\* What a customer row or a form says of the payments.
Terms == [pay : Nat, num : Nat]

\* sub: subscription_id (0: none); renewals, cards: how many rows there are.
Customers == [pay : Nat, num : Nat, sub : Nat, status : Nat,
              renewals : Nat, cards : Nat]

\* of: whose profile it was opened with; shown: what the page said.
Subscriptions == [pay : Nat, num : Nat, of : Nat, shown : Terms]

NoTerms == [pay |-> 0, num |-> 0]

\* pay, num: the row as `billing` read it; sub: the gateway's answer.
NoOrder == [customer |-> 0, pay |-> 0, num |-> 0, form |-> NoTerms, sub |-> 0]
Orders == [customer : Nat, pay : Nat, num : Nat, form : Terms, sub : Nat]

OrderTypeOK ==
    /\ customers \in Seq(Customers)
    /\ accounts \in Nat
    /\ cookie \in Nat
    /\ subscriptions \in Seq(Subscriptions)
    /\ pc \in [Requests -> Steps]
    /\ order \in [Requests -> Orders]
    /\ faults \in Nat
    /\ thanked \subseteq Nat
    /\ cut \in BOOLEAN /\ overlapped \in BOOLEAN

OrderInit ==
    /\ customers = <<>> /\ accounts = 0 /\ cookie = 0
    /\ subscriptions = <<>>
    /\ pc = [r \in Requests |-> "idle"]
    /\ order = [r \in Requests |-> NoOrder]
    /\ faults = 0
    /\ thanked = {} /\ cut = FALSE /\ overlapped = FALSE

-----------------------------------------------------------------------------
(* purchase                                                                *)

\* perform_payment_get: every quote makes a customer of its own, with the
\* default number of payments, and points the cookie at it.
Quote ==
    /\ Len(customers) < MaxCustomers
    /\ customers' = Append(customers,
           [pay |-> Price, num |-> 0, sub |-> 0, status |-> 0,
            renewals |-> 0, cards |-> 0])
    /\ cookie' = Len(customers) + 1
    /\ UNCHANGED <<accounts, subscriptions, pc, order, faults,
                   thanked, cut, overlapped>>

\* perform_payment_post: the plan chosen, unless an agent has taken the lead on.
Purchase(n) ==
    /\ cookie # 0
    /\ customers[cookie].status = 0
    /\ customers' = [customers EXCEPT ![cookie].pay = Price \div n,
                                      ![cookie].num = n]
    /\ UNCHANGED <<accounts, cookie, subscriptions, pc, order, faults,
                   thanked, cut, overlapped>>

\* Admin::CustomersController#change_status.
ChangeStatus(c, s) ==
    /\ customers[c].status # s
    /\ customers' = [customers EXCEPT ![c].status = s]
    /\ UNCHANGED <<accounts, cookie, subscriptions, pc, order, faults,
                   thanked, cut, overlapped>>

-----------------------------------------------------------------------------
(* billing                                                                 *)

\* The page's hidden fields.  Its script clicks the single payment when the
\* page is ready; where the script does not run, the amount stays empty.
Form(mode) ==
    CASE mode = "scriptless" -> [pay |-> 0, num |-> 1]
      [] mode = "single"     -> [pay |-> Price, num |-> 1]
      [] mode = "monthly"    -> [pay |-> Price \div 12, num |-> 12]

\* The "Pay Amount" next to them.
Shown(form) ==
    IF form.num = 12 THEN form ELSE [pay |-> Price, num |-> 1]

\* Mutant: what the row had is taken for the list price, and reduced.
NewTermsReduced(o) ==
    IF o.form.num = 12
        THEN [pay |-> o.pay - (Price - o.form.pay), num |-> 12]
        ELSE o.form

\* What the row gets in the end: a twelfth, rounded, of what it had.
NewTerms(o) ==
    IF o.form.num = 12
        THEN [pay |-> (2 * o.pay + 12) \div 24, num |-> 12]
        ELSE o.form

Running(r) == pc[r] # "idle"

Goto(r, step) == pc' = [pc EXCEPT ![r] = step]

\* The request is over; its variables are gone.
End(r) ==
    /\ Goto(r, "idle")
    /\ order' = [order EXCEPT ![r] = NoOrder]

\* Enroll Now: the row is read and the billing name and address are stored.
Billing(r, form) ==
    /\ ~Running(r)
    /\ cookie # 0
    /\ Goto(r, "profile")
    /\ order' = [order EXCEPT ![r] =
           [customer |-> cookie, pay |-> customers[cookie].pay,
            num |-> customers[cookie].num, form |-> form, sub |-> 0]]
    /\ overlapped' = (overlapped \/ \E q \in Requests : Running(q))
    /\ UNCHANGED <<customers, accounts, cookie, subscriptions, faults,
                   thanked, cut>>

\* create_customer_profile and create_customer_payment_profile: both ids or
\* the error page.
CreateProfiles(r) ==
    /\ pc[r] = "profile"
    /\ \/ Goto(r, "recurring") /\ UNCHANGED order
       \/ End(r)
    /\ UNCHANGED <<customers, accounts, cookie, subscriptions, faults,
                   thanked, cut, overlapped>>

\* The gateway's side of `recurring`: it charges what the row said when it was
\* read, and refuses a subscription of no payments.
Opened(o) ==
    [pay |-> o.pay, num |-> o.num, of |-> o.customer, shown |-> Shown(o.form)]

CanOpen(o) == o.num # 0 /\ Len(subscriptions) < MaxSubscriptions

\* Mutant: nobody looks at whether the gateway accepted.
RecurringUnchecked(r) ==
    /\ pc[r] = "recurring"
    /\ \/ /\ CanOpen(order[r])
          /\ subscriptions' = Append(subscriptions, Opened(order[r]))
          /\ order' = [order EXCEPT ![r].sub = Len(subscriptions) + 1]
       \/ UNCHANGED <<order, subscriptions>>
    /\ Goto(r, "save")
    /\ UNCHANGED <<customers, accounts, cookie, faults,
                   thanked, cut, overlapped>>

Recurring(r) ==
    /\ pc[r] = "recurring"
    /\ \/ /\ CanOpen(order[r])
          /\ subscriptions' = Append(subscriptions, Opened(order[r]))
          /\ order' = [order EXCEPT ![r].sub = Len(subscriptions) + 1]
          /\ Goto(r, "save")
       \/ End(r) /\ UNCHANGED subscriptions
    /\ UNCHANGED <<customers, accounts, cookie, faults,
                   thanked, cut, overlapped>>

\* The gateway opens the subscription and its answer is lost.
RecurringLost(r) ==
    /\ pc[r] = "recurring"
    /\ CanOpen(order[r])
    /\ faults < MaxFaults
    /\ faults' = faults + 1
    /\ subscriptions' = Append(subscriptions, Opened(order[r]))
    /\ End(r)
    /\ cut' = TRUE
    /\ UNCHANGED <<customers, accounts, cookie, thanked, overlapped>>

\* Mutant: the subscription opened last is taken for the request's own.
SaveSubscriptionLatest(r) ==
    /\ pc[r] = "save"
    /\ customers' = [customers EXCEPT ![order[r].customer].sub = Len(subscriptions)]
    /\ Goto(r, "renew")
    /\ UNCHANGED <<accounts, cookie, subscriptions, order, faults,
                   thanked, cut, overlapped>>

SaveSubscription(r) ==
    /\ pc[r] = "save"
    /\ customers' = [customers EXCEPT ![order[r].customer].sub = order[r].sub]
    /\ Goto(r, "renew")
    /\ UNCHANGED <<accounts, cookie, subscriptions, order, faults,
                   thanked, cut, overlapped>>

CreateRenewal(r) ==
    /\ pc[r] = "renew"
    /\ customers' = [customers EXCEPT ![order[r].customer].renewals = @ + 1]
    /\ Goto(r, "validate")
    /\ UNCHANGED <<accounts, cookie, subscriptions, order, faults,
                   thanked, cut, overlapped>>

\* Mutant: the address is not looked for.
ValidateNothing(r) ==
    /\ pc[r] = "validate"
    /\ Goto(r, "insert")
    /\ UNCHANGED <<customers, accounts, cookie, subscriptions, order, faults,
                   thanked, cut, overlapped>>

\* my_account.save: a query decides whether the address is taken, and nobody
\* looks at the outcome.
ValidateAccount(r) ==
    /\ pc[r] = "validate"
    /\ Goto(r, IF accounts = 0 THEN "insert" ELSE "mail")
    /\ UNCHANGED <<customers, accounts, cookie, subscriptions, order, faults,
                   thanked, cut, overlapped>>

InsertAccount(r) ==
    /\ pc[r] = "insert"
    /\ accounts' = accounts + 1
    /\ Goto(r, "mail")
    /\ UNCHANGED <<customers, cookie, subscriptions, order, faults,
                   thanked, cut, overlapped>>

SendMails(r) ==
    /\ pc[r] = "mail"
    /\ Goto(r, "terms")
    /\ UNCHANGED <<customers, accounts, cookie, subscriptions, order, faults,
                   thanked, cut, overlapped>>

UpdateTerms(r) ==
    /\ pc[r] = "terms"
    /\ customers' = [customers EXCEPT
           ![order[r].customer].pay = NewTerms(order[r]).pay,
           ![order[r].customer].num = NewTerms(order[r]).num]
    /\ Goto(r, "card")
    /\ UNCHANGED <<accounts, cookie, subscriptions, order, faults,
                   thanked, cut, overlapped>>

\* Mutant: the cookie is kept.
AddCardKeepsCookie(r) ==
    /\ pc[r] = "card"
    /\ customers' = [customers EXCEPT ![order[r].customer].cards = @ + 1]
    /\ thanked' = thanked \cup {order[r].customer}
    /\ End(r)
    /\ UNCHANGED <<accounts, cookie, subscriptions, faults, cut, overlapped>>

\* add_for_customer_credit_card, and the answer: only now does the browser
\* drop the cookie, whichever customer it names.
AddCard(r) ==
    /\ pc[r] = "card"
    /\ customers' = [customers EXCEPT ![order[r].customer].cards = @ + 1]
    /\ cookie' = 0
    /\ thanked' = thanked \cup {order[r].customer}
    /\ End(r)
    /\ UNCHANGED <<accounts, subscriptions, faults, cut, overlapped>>

\* An exception in the step that comes next, or the process is killed.
Abort(r) ==
    /\ Running(r)
    /\ faults < MaxFaults
    /\ faults' = faults + 1
    /\ cut' = (cut \/ pc[r] \notin {"profile", "recurring"})
    /\ End(r)
    /\ UNCHANGED <<customers, accounts, cookie, subscriptions,
                   thanked, overlapped>>

Step(r) ==
    \/ CreateProfiles(r)
    \/ Recurring(r)
    \/ SaveSubscription(r)
    \/ CreateRenewal(r)
    \/ ValidateAccount(r)
    \/ InsertAccount(r)
    \/ SendMails(r)
    \/ UpdateTerms(r)
    \/ AddCard(r)

OrderNext ==
    \/ Quote
    \/ \E n \in Plans : Purchase(n)
    \/ \E c \in DOMAIN customers, s \in Statuses : ChangeStatus(c, s)
    \/ \E r \in Requests :
           \/ \E mode \in Modes : Billing(r, Form(mode))
           \/ Step(r)
           \/ RecurringLost(r)
           \/ Abort(r)

OrderSpec == OrderInit /\ [][OrderNext]_orderVars

-----------------------------------------------------------------------------
(* Properties                                                              *)

\* A customer who has been thanked has it all: a subscription, a contract
\* period, a card and a login under the address, whatever failed before or ran
\* beside it (site_controller.rb, billing).
ThankedMeansRecorded ==
    \A c \in thanked :
        /\ customers[c].sub # 0
        /\ customers[c].renewals > 0 /\ customers[c].cards > 0
        /\ accounts > 0

\* The subscription on a customer's row was opened for that customer, even
\* when another page has meanwhile pointed the cookie at another one.
RecordedIsOwn ==
    \A c \in DOMAIN customers :
        customers[c].sub # 0 =>
            /\ customers[c].sub \in DOMAIN subscriptions
            /\ subscriptions[customers[c].sub].of = c

\* When billing requests ran one at a time and none was cut short after the
\* gateway was asked, no subscription is charged that no row knows.  The cookie
\* is all that prevents a second order.
NoOrphanWhenSerial ==
    ~cut /\ ~overlapped =>
        \A s \in DOMAIN subscriptions :
            \/ customers[subscriptions[s].of].sub = s
            \/ \E r \in Requests : pc[r] = "save" /\ order[r].sub = s

\* When billing requests ran one at a time, at most one account has the
\* address, also after a request that failed and was made again.
OneAccountWhenSerial == ~overlapped => accounts <= 1

\* The refinement mapping: a subscription may still be recorded as long as a
\* request is about to save it.
RecordOf == [c \in DOMAIN customers |-> customers[c].sub]
HolderOf == [s \in DOMAIN subscriptions |-> subscriptions[s].of]
Saving == {r \in Requests : pc[r] = "save"}
Awaited == {order[r].sub : r \in Saving}
Enrol == INSTANCE Enrolment
    WITH record <- RecordOf, holder <- HolderOf, pending <- Awaited, welcomed <- thanked

\* Pages, repeated orders and requests cut short come to no more than
\* Enrolment: each subscription is recorded at most once, on the row of the
\* customer it was opened for, and one whose request has ended never is
\* (SiteController#billing).
ImplementsEnrolment == Enrol!EnrolmentSpec

\* The gateway charges what the billing page showed next to "Pay Amount".
ChargedAsShown ==
    \A s \in DOMAIN subscriptions :
        [pay |-> subscriptions[s].pay, num |-> subscriptions[s].num]
            = subscriptions[s].shown
=============================================================================
