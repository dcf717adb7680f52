------------------------------ MODULE SilentPost ------------------------------
(***************************************************************************)
(* How money taken by Authorize.net gets on the books.  The gateway        *)
(* charges the subscriptions that WebOrder opened and the cards an agent   *)
(* bills, and tells the application of each transaction with a post, the   *)
(* silent post; TransactionsController#authorize_silent_post finds the     *)
(* customer it belongs to and adds a row to the transactions table.        *)
(*                                                                         *)
(* Posts are lost, repeated and overtake each other.  What the handler     *)
(* answers (200, or an error if it raised) is left out: a post may be      *)
(* repeated whatever it was.  So are amounts, agents and merchant names:   *)
(* merchant_nickname is not attr_accessible, so clearing it does nothing.  *)
(*                                                                         *)
(* Subscription ids all have the same length, so that LIKE '%id%' is       *)
(* equality here.                                                          *)
(***************************************************************************)
EXTENDS WebOrder, FiniteSetsExt

CONSTANTS
    EmailKnown,   \* whether the gateway's subscriptions have an e-mail address
    MaxLedger,    \* bound: transactions at the gateway
    MaxNotes      \* bound: attempts to bill a card

ASSUME EmailKnownAssumption == EmailKnown \in BOOLEAN
ASSUME MaxLedgerAssumption == MaxLedger \in Nat

VARIABLES
    ledger,        \* the gateway's transactions, in the order of their ids
    posts,         \* posts under way
    transactions,  \* the transactions table, in the order of the ids
    notes,         \* the notes `bill` writes, in the order of the ids
    orderly        \* observer: posts have come once each, and in order

postVars == <<ledger, posts, transactions, notes, orderly>>
vars == <<orderVars, postVars>>

Deleted == 2

\* sub, invoice: what it was charged for (0: none); email: whether the post
\* gives the customer's address.
Charges == [kind : {"auth_capture", "credit"}, ok : BOOLEAN, sub : Nat,
            invoice : Nat, email : BOOLEAN, voided : BOOLEAN]

Posts == [trans : Nat, type : {"auth_capture", "credit", "void"}]

TypeOK ==
    /\ OrderTypeOK
    /\ ledger \in Seq(Charges)
    /\ posts \subseteq Posts
    /\ transactions \in Seq([trans : Nat, code : {1, 2, -1, -2, -3},
                             customer : Nat])
    /\ notes \in Seq([customer : Nat, text : {"Billed", "Attempted"}])
    /\ orderly \in BOOLEAN

Init ==
    /\ OrderInit
    /\ ledger = <<>> /\ posts = {} /\ transactions = <<>> /\ notes = <<>>
    /\ orderly = TRUE

-----------------------------------------------------------------------------
(* The gateway                                                             *)

\* A transaction is made and its post is sent.
Enter(charge) ==
    /\ Len(ledger) < MaxLedger
    /\ ledger' = Append(ledger, charge)
    /\ posts' = posts \cup {[trans |-> Len(ledger) + 1, type |-> charge.kind]}

\* A payment of a subscription falls due, at the earliest a week after the
\* request that opened it.
PaymentDue(s, ok) ==
    /\ \A r \in Requests : order[r].sub # s
    /\ Enter([kind |-> "auth_capture", ok |-> ok, sub |-> s, invoice |-> 0,
              email |-> EmailKnown, voided |-> FALSE])
    /\ UNCHANGED <<orderVars, transactions, notes, orderly>>

\* At the merchant's console a charge is refunded or voided.
Credit(t) ==
    /\ ledger[t].kind = "auth_capture" /\ ledger[t].ok /\ ~ledger[t].voided
    /\ Enter([ledger[t] EXCEPT !.kind = "credit"])
    /\ UNCHANGED <<orderVars, transactions, notes, orderly>>

Void(t) ==
    /\ ledger[t].ok /\ ~ledger[t].voided
    /\ ledger' = [ledger EXCEPT ![t].voided = TRUE]
    /\ posts' = posts \cup {[trans |-> t, type |-> "void"]}
    /\ UNCHANGED <<orderVars, transactions, notes, orderly>>

-----------------------------------------------------------------------------
(* CreditCardsController#bill                                              *)

\* What `purchase` was given: contract_number stands for the customer.
CardCharge(c, ok) ==
    [kind |-> "auth_capture", ok |-> ok, sub |-> 0, invoice |-> c,
     email |-> FALSE, voided |-> FALSE]

\* Mutant: an answer that did not come is taken for a success.
BillHopeful(c, ok, heard) ==
    /\ customers[c].cards > 0
    /\ Len(notes) < MaxNotes
    /\ Enter(CardCharge(c, ok))
    /\ notes' = Append(notes, [customer |-> c,
           text |-> IF heard => ok THEN "Billed" ELSE "Attempted"])
    /\ UNCHANGED <<orderVars, transactions, orderly>>

\* charge_cents! turns every exception into nil, and the note then gives no
\* reason; `heard`: the answer came within two minutes.
Bill(c, ok, heard) ==
    /\ customers[c].cards > 0
    /\ Len(notes) < MaxNotes
    /\ Enter(CardCharge(c, ok))
    /\ notes' = Append(notes, [customer |-> c,
           text |-> IF heard /\ ok THEN "Billed" ELSE "Attempted"])
    /\ UNCHANGED <<orderVars, transactions, orderly>>

\* The gateway is not reached, none is set up or the amount is zero.
BillNothing(c) ==
    /\ customers[c].cards > 0
    /\ Len(notes) < MaxNotes
    /\ notes' = Append(notes, [customer |-> c, text |-> "Attempted"])
    /\ UNCHANGED <<orderVars, ledger, posts, transactions, orderly>>

-----------------------------------------------------------------------------
(* authorize_silent_post                                                   *)

\* find(:first) of the customers that are not deleted and match.
FirstOf(S) == IF S = {} THEN 0 ELSE Min(S)

NotDeleted == {c \in DOMAIN customers : customers[c].status # Deleted}

\* Mutant: the address is tried before the subscription.
DeduceByEmailFirst(charge) ==
    LET bySubscription ==
            {c \in NotDeleted : charge.sub # 0 /\ customers[c].sub = charge.sub}
        byEmail == {c \in NotDeleted : charge.email}
    IN  IF charge.invoice # 0 THEN charge.invoice
        ELSE IF byEmail # {} THEN Min(byEmail)
        ELSE FirstOf(bySubscription)

\* In order of accuracy: contract number, subscription, e-mail address.
Deduce(charge) ==
    LET bySubscription ==
            {c \in NotDeleted : charge.sub # 0 /\ customers[c].sub = charge.sub}
        byEmail == {c \in NotDeleted : charge.email}
    IN  IF charge.invoice # 0 THEN charge.invoice
        ELSE IF bySubscription # {} THEN Min(bySubscription)
        ELSE FirstOf(byEmail)

\* Mutant: a declined transaction keeps the gateway's own code for it.
ResponseCodeRaw(post) ==
    CASE post.type = "credit" -> -1
      [] post.type = "void" -> -2
      [] OTHER -> IF ledger[post.trans].ok THEN 1 ELSE 0

ResponseCode(post) ==
    CASE post.type = "credit" -> -1
      [] post.type = "void" -> -2
      [] OTHER -> IF ledger[post.trans].ok THEN 1 ELSE 2

\* Mutant: the row of the voided transaction is left as it is.
MarkNothing(post) == transactions

\* The first row of the voided transaction becomes "Voided", if there is one.
MarkVoided(post) ==
    LET rows == {i \in DOMAIN transactions : transactions[i].trans = post.trans}
    IN  IF post.type = "void" /\ rows # {}
            THEN [transactions EXCEPT ![Min(rows)].code = -3]
            ELSE transactions

SilentPost(post) ==
    transactions' = Append(MarkVoided(post),
        [trans |-> post.trans, code |-> ResponseCode(post),
         customer |-> Deduce(ledger[post.trans])])

Deliver(post) ==
    /\ SilentPost(post)
    /\ posts' = posts \ {post}
    /\ orderly' = (orderly /\ \A p \in posts :
           p.trans = post.trans => p.type = post.type \/ post.type # "void")
    /\ UNCHANGED <<orderVars, ledger, notes>>

\* Posts that go wrong count as faults, like requests that do.
PostFault ==
    /\ faults < MaxFaults
    /\ faults' = faults + 1
    /\ UNCHANGED <<customers, accounts, cookie, subscriptions, pc, order,
                   thanked, cut, overlapped>>

\* The post arrives, its answer does not, and the gateway will post it again.
Repeat(post) ==
    /\ PostFault
    /\ SilentPost(post)
    /\ orderly' = FALSE
    /\ UNCHANGED <<ledger, posts, notes>>

LosePost(post) ==
    /\ PostFault
    /\ posts' = posts \ {post}
    /\ orderly' = FALSE
    /\ UNCHANGED <<ledger, transactions, notes>>

Order == OrderNext /\ UNCHANGED postVars

Next ==
    \/ Order
    \/ \E s \in DOMAIN subscriptions, ok \in BOOLEAN : PaymentDue(s, ok)
    \/ \E t \in DOMAIN ledger : Credit(t) \/ Void(t)
    \/ \E c \in DOMAIN customers :
           \/ \E ok, heard \in BOOLEAN : Bill(c, ok, heard)
           \/ BillNothing(c)
    \/ \E post \in posts : Deliver(post) \/ Repeat(post) \/ LosePost(post)

Spec == Init /\ [][Next]_vars

-----------------------------------------------------------------------------
(* Properties                                                              *)

Owner(charge) ==
    IF charge.invoice # 0 THEN charge.invoice ELSE subscriptions[charge.sub].of

\* Every transaction is put on the books of the customer it was charged to,
\* unless that customer is deleted and was charged by subscription, as long as
\* billing requests ran one at a time and none was cut short: two components
\* agree through nothing but the subscription id one saved and the other finds.
PaymentsReachOwner ==
    [][Len(transactions') > Len(transactions) /\ ~cut /\ ~overlapped =>
        LET row == transactions'[Len(transactions')]
            charge == ledger[row.trans]
        IN  \/ row.customer = Owner(charge)
            \/ charge.invoice = 0 /\ customers[Owner(charge)].status = Deleted
      ]_vars

\* Once the posts are in, each once and in order, a charge is approved on the
\* books exactly when the gateway took the money and has not voided it.
ApprovedMatchesGateway ==
    orderly /\ posts = {} =>
        \A t \in DOMAIN ledger :
            Cardinality({i \in DOMAIN transactions :
                transactions[i].trans = t /\ transactions[i].code = 1})
              = IF ledger[t].kind = "auth_capture" /\ ledger[t].ok
                   /\ ~ledger[t].voided THEN 1 ELSE 0

\* No note claims a charge the books will not have: a customer has at least as
\* many rows of taken card charges as notes that say "Billed", whatever
\* answers came too late and whatever orders overlapped.
BilledIsOnTheBooks ==
    orderly /\ posts = {} =>
        \A c \in DOMAIN customers :
            Cardinality({i \in DOMAIN notes :
                notes[i] = [customer |-> c, text |-> "Billed"]})
              <= Cardinality({i \in DOMAIN transactions :
                     /\ transactions[i].customer = c
                     /\ transactions[i].code \in {1, -3}
                     /\ ledger[transactions[i].trans].invoice = c})
=============================================================================
