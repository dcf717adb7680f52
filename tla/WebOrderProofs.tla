--------------------------- MODULE WebOrderProofs ---------------------------
(***************************************************************************)
(* What WebOrder promises of orders, for any number of requests, quotes,   *)
(* subscriptions and faults.                                               *)
(***************************************************************************)
EXTENDS WebOrder, SequenceTheorems, TLAPS

-----------------------------------------------------------------------------
(* Amounts and rows *)

LEMMA Share == ASSUME NEW a \in Nat, NEW n \in Nat \ {0} PROVE a \div n \in Nat
OBVIOUS

LEMMA FormType == ASSUME NEW mode \in Modes PROVE Form(mode) \in Terms
<1>1. Price \div 12 \in Nat BY PriceAssumption
<1> QED BY <1>1, PriceAssumption, ModesAssumption DEF Form, Terms

LEMMA NewTermsType == ASSUME NEW o \in Orders PROVE NewTerms(o) \in Terms
<1>1. o.pay \in Nat /\ o.form \in Terms BY DEF Orders
<1>2. (2 * o.pay + 12) \div 24 \in Nat BY <1>1
<1> QED BY <1>1, <1>2 DEF NewTerms, Terms

LEMMA OpenedType == ASSUME NEW o \in Orders PROVE Opened(o) \in Subscriptions
BY PriceAssumption DEF Opened, Subscriptions, Orders, Shown, Terms

LEMMA NoOrderType == NoOrder \in Orders
BY DEF NoOrder, NoTerms, Orders, Terms

\* Writing one row of the customers table.
LEMMA Written ==
    ASSUME customers \in Seq(Customers), NEW c \in 1 .. Len(customers), NEW row \in Customers,
           customers' = [customers EXCEPT ![c] = row]
    PROVE  /\ customers' \in Seq(Customers)
           /\ Len(customers') = Len(customers)
           /\ customers'[c] = row
           /\ \A d \in 1 .. Len(customers) : d # c => customers'[d] = customers[d]
OBVIOUS

-----------------------------------------------------------------------------
(* Types *)

\* OrderTypeOK, and every customer that is named exists.
TypeInv ==
    /\ OrderTypeOK
    /\ cookie <= Len(customers)
    /\ thanked \subseteq 1 .. Len(customers)
    /\ \A s \in 1 .. Len(subscriptions) : subscriptions[s].of \in 1 .. Len(customers)
    /\ \A r \in Requests :
          /\ Running(r) => order[r].customer \in 1 .. Len(customers)
          /\ ~Running(r) => order[r] = NoOrder
          /\ order[r].sub # 0 => order[r].sub \in 1 .. Len(subscriptions)

\* How a row of the customers table may change in a step: its subscription is
\* set by the request at "save" alone, and nothing is taken from it.
Grows(c) ==
    /\ customers'[c].renewals >= customers[c].renewals
    /\ customers'[c].cards >= customers[c].cards
    /\ \/ customers'[c].sub = customers[c].sub
       \/ \E r \in Requests : /\ SaveSubscription(r)
                              /\ order[r].customer = c
                              /\ customers'[c].sub = order[r].sub

\* Rows are added without a subscription.
Rows ==
    /\ customers' \in Seq(Customers)
    /\ Len(customers) <= Len(customers')
    /\ \A c \in 1 .. Len(customers) : Grows(c)
    /\ \A c \in 1 .. Len(customers') : c > Len(customers) => customers'[c].sub = 0

LEMMA SameRow ==
    ASSUME customers \in Seq(Customers), NEW c \in 1 .. Len(customers),
           customers'[c].sub = customers[c].sub,
           customers'[c].renewals = customers[c].renewals,
           customers'[c].cards = customers[c].cards
    PROVE  Grows(c)
<1>1. customers[c] \in Customers OBVIOUS
<1>2. customers[c].renewals \in Nat /\ customers[c].cards \in Nat BY <1>1 DEF Customers
<1> QED BY <1>2 DEF Grows

LEMMA RowsKept == ASSUME OrderTypeOK, UNCHANGED customers PROVE Rows
<1>1. customers \in Seq(Customers) BY DEF OrderTypeOK
<1>2. \A c \in 1 .. Len(customers) : Grows(c) BY <1>1, SameRow
<1> QED BY <1>1, <1>2 DEF Rows

\* Writing row c, provided it grows.
LEMMA RowWritten ==
    ASSUME customers \in Seq(Customers), NEW c \in 1 .. Len(customers), NEW row \in Customers,
           customers' = [customers EXCEPT ![c] = row], customers'[c] = row => Grows(c)
    PROVE  Rows
<1>1. /\ customers' \in Seq(Customers) /\ Len(customers') = Len(customers)
      /\ customers'[c] = row
      /\ \A d \in 1 .. Len(customers) : d # c => customers'[d] = customers[d]
  BY Written
<1>2. ASSUME NEW d \in 1 .. Len(customers), d # c PROVE Grows(d)
  <2>1. customers'[d] = customers[d] BY <1>1, <1>2
  <2> QED BY <2>1, SameRow
<1>3. Grows(c) BY <1>1
<1> QED BY <1>1, <1>2, <1>3 DEF Rows

LEMMA QuoteRows == ASSUME OrderTypeOK, Quote PROVE Rows
<1> DEFINE row == [pay |-> Price, num |-> 0, sub |-> 0, status |-> 0,
                   renewals |-> 0, cards |-> 0]
<1>1. row \in Customers BY PriceAssumption DEF Customers
<1>2. customers \in Seq(Customers) /\ customers' = Append(customers, row)
  BY DEF OrderTypeOK, Quote
<1>3. /\ customers' \in Seq(Customers) /\ Len(customers') = Len(customers) + 1
      /\ \A c \in 1 .. Len(customers) : customers'[c] = customers[c]
      /\ customers'[Len(customers) + 1] = row
  BY <1>1, <1>2
<1>4. ASSUME NEW c \in 1 .. Len(customers) PROVE Grows(c)
  BY <1>2, <1>3, SameRow
<1>5. row.sub = 0 OBVIOUS
<1>6. Len(customers) \in Nat BY <1>2
<1>7. ASSUME NEW c \in 1 .. Len(customers'), c > Len(customers) PROVE customers'[c].sub = 0
  <2>1. c = Len(customers) + 1 BY <1>3, <1>6, <1>7
  <2> QED BY <2>1, <1>3, <1>5
<1> QED BY <1>3, <1>4, <1>6, <1>7 DEF Rows

LEMMA PurchaseRows == ASSUME TypeInv, NEW n \in Plans, Purchase(n) PROVE Rows
<1> DEFINE row == [customers[cookie] EXCEPT !.pay = Price \div n, !.num = n]
<1>1. customers \in Seq(Customers) /\ cookie \in 1 .. Len(customers)
  BY DEF TypeInv, OrderTypeOK, Purchase
<1>2. customers[cookie] \in Customers BY <1>1
<1>3. n \in Nat \ {0} /\ Price \div n \in Nat BY Share, PriceAssumption, PlansAssumption
<1>4. row \in Customers BY Zenon, <1>2, <1>3 DEF Customers
<1>5. customers' = [customers EXCEPT ![cookie] = row] BY Zenon, <1>1, <1>2 DEF Purchase, Customers
<1>6. customers'[cookie] = row => Grows(cookie) BY Zenon, <1>1, <1>2, SameRow DEF Customers
<1> QED BY Zenon, <1>1, <1>4, <1>5, <1>6, RowWritten

LEMMA StatusRows ==
    ASSUME TypeInv, NEW c \in DOMAIN customers, NEW s \in Statuses, ChangeStatus(c, s)
    PROVE  Rows
<1> DEFINE row == [customers[c] EXCEPT !.status = s]
<1>1. customers \in Seq(Customers) /\ c \in 1 .. Len(customers)
  BY DEF TypeInv, OrderTypeOK
<1>2. customers[c] \in Customers BY <1>1
<1>3. row \in Customers BY <1>2, StatusesAssumption DEF Customers
<1>4. customers' = [customers EXCEPT ![c] = row] BY <1>1, <1>2 DEF ChangeStatus, Customers
<1>5. customers'[c] = row => Grows(c) BY Zenon, <1>1, <1>2, SameRow DEF Customers
<1> QED BY Zenon, <1>1, <1>3, <1>4, <1>5, RowWritten

\* The four steps of billing that write the customer's row.
LEMMA BillingRows ==
    ASSUME TypeInv, NEW r \in Requests,
           SaveSubscription(r) \/ CreateRenewal(r) \/ UpdateTerms(r) \/ AddCard(r)
    PROVE  Rows
<1> DEFINE c == order[r].customer
<1>1. /\ customers \in Seq(Customers) /\ c \in 1 .. Len(customers)
      /\ order[r] \in Orders
  BY DEF TypeInv, OrderTypeOK, Running, SaveSubscription, CreateRenewal, UpdateTerms, AddCard
<1>2. customers[c] \in Customers BY <1>1
<1>3. CASE SaveSubscription(r)
  <2> DEFINE row == [customers[c] EXCEPT !.sub = order[r].sub]
  <2>1. row \in Customers BY Zenon, <1>1, <1>2 DEF Customers, Orders
  <2>2. customers' = [customers EXCEPT ![c] = row]
    BY <1>1, <1>2, <1>3 DEF SaveSubscription, Customers
  <2>3. row.sub = order[r].sub /\ row.renewals = customers[c].renewals /\ row.cards = customers[c].cards
    BY <1>2 DEF Customers
  <2>4. customers[c].renewals \in Nat /\ customers[c].cards \in Nat BY <1>2 DEF Customers
  <2>5. customers'[c] = row => Grows(c) BY <1>3, <2>3, <2>4 DEF Grows
  <2> QED BY Zenon, <1>1, <2>1, <2>2, <2>5, RowWritten
<1>4. CASE CreateRenewal(r)
  <2> DEFINE row == [customers[c] EXCEPT !.renewals = customers[c].renewals + 1]
  <2>1. row \in Customers BY <1>2 DEF Customers
  <2>2. customers' = [customers EXCEPT ![c] = row]
    BY <1>1, <1>2, <1>4 DEF CreateRenewal, Customers
  <2>3. row.sub = customers[c].sub /\ row.renewals = customers[c].renewals + 1 /\ row.cards = customers[c].cards
    BY <1>2 DEF Customers
  <2>4. customers[c].renewals \in Nat /\ customers[c].cards \in Nat BY <1>2 DEF Customers
  <2>5. customers'[c] = row => Grows(c) BY <2>3, <2>4 DEF Grows
  <2> QED BY Zenon, <1>1, <2>1, <2>2, <2>5, RowWritten
<1>5. CASE UpdateTerms(r)
  <2> DEFINE terms == NewTerms(order[r])
             row == [customers[c] EXCEPT !.pay = terms.pay, !.num = terms.num]
  <2>1. terms.pay \in Nat /\ terms.num \in Nat BY <1>1, NewTermsType DEF Terms
  <2>2. row \in Customers BY Zenon, <1>2, <2>1 DEF Customers
  <2>3. customers' = [customers EXCEPT ![c] = row]
    BY Zenon, <1>1, <1>2, <1>5 DEF UpdateTerms, Customers
  <2>4. row.sub = customers[c].sub /\ row.renewals = customers[c].renewals /\ row.cards = customers[c].cards
    BY <1>2 DEF Customers
  <2>5. customers'[c] = row => Grows(c) BY Zenon, <1>1, <2>4, SameRow
  <2> QED BY Zenon, <1>1, <2>2, <2>3, <2>5, RowWritten
<1>6. CASE AddCard(r)
  <2> DEFINE row == [customers[c] EXCEPT !.cards = customers[c].cards + 1]
  <2>1. row \in Customers BY <1>2 DEF Customers
  <2>2. customers' = [customers EXCEPT ![c] = row]
    BY <1>1, <1>2, <1>6 DEF AddCard, Customers
  <2>3. row.sub = customers[c].sub /\ row.cards = customers[c].cards + 1 /\ row.renewals = customers[c].renewals
    BY <1>2 DEF Customers
  <2>4. customers[c].renewals \in Nat /\ customers[c].cards \in Nat BY <1>2 DEF Customers
  <2>5. customers'[c] = row => Grows(c) BY <2>3, <2>4 DEF Grows
  <2> QED BY Zenon, <1>1, <2>1, <2>2, <2>5, RowWritten
<1> QED BY <1>3, <1>4, <1>5, <1>6

LEMMA NextRows == ASSUME TypeInv, [OrderNext]_orderVars PROVE Rows
<1>1. OrderTypeOK BY DEF TypeInv
<1>2. CASE UNCHANGED customers BY <1>1, <1>2, RowsKept
<1>3. CASE Quote BY <1>1, <1>3, QuoteRows
<1>4. CASE \E n \in Plans : Purchase(n) BY <1>4, PurchaseRows
<1>5. CASE \E c \in DOMAIN customers, s \in Statuses : ChangeStatus(c, s) BY <1>5, StatusRows
<1>6. ASSUME NEW r \in Requests,
             (\E mode \in Modes : Billing(r, Form(mode))) \/ Step(r) \/ RecurringLost(r) \/ Abort(r)
      PROVE  Rows
  <2>1. CASE SaveSubscription(r) \/ CreateRenewal(r) \/ UpdateTerms(r) \/ AddCard(r)
    BY <2>1, BillingRows
  <2>2. CASE ~(SaveSubscription(r) \/ CreateRenewal(r) \/ UpdateTerms(r) \/ AddCard(r))
    <3>1. UNCHANGED customers
      BY <1>6, <2>2 DEF Billing, Step, CreateProfiles, Recurring, ValidateAccount,
                        InsertAccount, SendMails, RecurringLost, Abort
    <3> QED BY <1>2, <3>1
  <2> QED BY <2>1, <2>2
<1>7. CASE UNCHANGED orderVars BY <1>2, <1>7 DEF orderVars
<1> QED BY <1>3, <1>4, <1>5, <1>6, <1>7 DEF OrderNext

\* Subscriptions are only added, each for the customer of a request that waits
\* for the gateway.
Ledger ==
    /\ subscriptions' \in Seq(Subscriptions)
    /\ Len(subscriptions) <= Len(subscriptions')
    /\ \A s \in 1 .. Len(subscriptions) : subscriptions'[s] = subscriptions[s]
    /\ \A s \in 1 .. Len(subscriptions') : s > Len(subscriptions) =>
          \E r \in Requests :
             /\ Recurring(r) \/ RecurringLost(r)
             /\ s = Len(subscriptions) + 1
             /\ subscriptions'[s].of = order[r].customer

LEMMA LedgerKept == ASSUME TypeInv, UNCHANGED subscriptions PROVE Ledger
<1>1. subscriptions \in Seq(Subscriptions) BY DEF TypeInv, OrderTypeOK
<1> QED BY <1>1 DEF Ledger

LEMMA LedgerOpened ==
    ASSUME TypeInv, NEW r \in Requests, Recurring(r) \/ RecurringLost(r),
           subscriptions' = Append(subscriptions, Opened(order[r]))
    PROVE  Ledger /\ Len(subscriptions') = Len(subscriptions) + 1
<1>1. subscriptions \in Seq(Subscriptions) /\ order[r] \in Orders BY DEF TypeInv, OrderTypeOK
<1>2. Opened(order[r]) \in Subscriptions BY <1>1, OpenedType
<1>3. Opened(order[r]).of = order[r].customer BY DEF Opened
<1>4. /\ subscriptions' \in Seq(Subscriptions)
      /\ Len(subscriptions') = Len(subscriptions) + 1
      /\ \A s \in 1 .. Len(subscriptions) : subscriptions'[s] = subscriptions[s]
      /\ subscriptions'[Len(subscriptions) + 1] = Opened(order[r])
  BY <1>1, <1>2
<1>5. Len(subscriptions) \in Nat BY <1>1
<1> QED BY <1>3, <1>4, <1>5 DEF Ledger

LEMMA NextLedger == ASSUME TypeInv, [OrderNext]_orderVars PROVE Ledger
<1>1. CASE UNCHANGED subscriptions BY <1>1, LedgerKept
<1>2. ASSUME NEW r \in Requests, Recurring(r) \/ RecurringLost(r) PROVE Ledger
  <2>1. CASE UNCHANGED subscriptions BY <1>1, <2>1
  <2>2. CASE ~UNCHANGED subscriptions
    <3>1. subscriptions' = Append(subscriptions, Opened(order[r]))
      BY <1>2, <2>2 DEF Recurring, RecurringLost
    <3> QED BY <1>2, <3>1, LedgerOpened
  <2> QED BY <2>1, <2>2
<1>3. CASE UNCHANGED orderVars BY <1>1, <1>3 DEF orderVars
<1>4. CASE Quote \/ (\E n \in Plans : Purchase(n))
           \/ (\E c \in DOMAIN customers, s \in Statuses : ChangeStatus(c, s))
  BY Zenon, <1>1, <1>4 DEF Quote, Purchase, ChangeStatus
<1>5. ASSUME NEW r \in Requests,
             (\E mode \in Modes : Billing(r, Form(mode))) \/ Step(r) \/ RecurringLost(r) \/ Abort(r)
      PROVE  Ledger
  BY <1>1, <1>2, <1>5
     DEF Billing, Step, CreateProfiles, SaveSubscription, CreateRenewal, ValidateAccount,
         InsertAccount, SendMails, UpdateTerms, AddCard, Abort
<1> QED BY <1>3, <1>4, <1>5 DEF OrderNext

\* A step changes the variables of one request, or of none.
OneMoves(r) ==
    /\ pc' = [pc EXCEPT ![r] = pc'[r]]
    /\ order' = [order EXCEPT ![r] = order'[r]]

\* Where a running request goes: on with its order, or to its end.
Moves(r) ==
    /\ Running(r)
    /\ OneMoves(r)
    /\ \/ pc'[r] = "idle" /\ order'[r] = NoOrder
       \/ /\ pc'[r] \in Steps \ {"idle"}
          /\ order'[r].customer = order[r].customer
          /\ order'[r] \in Orders
          /\ \/ order'[r].sub = order[r].sub
             \/ /\ Recurring(r) /\ pc'[r] = "save"
                /\ order'[r].sub = Len(subscriptions')
                /\ Len(subscriptions') = Len(subscriptions) + 1
                /\ subscriptions'[Len(subscriptions')].of = order[r].customer

LEMMA StepMoves ==
    ASSUME TypeInv, NEW r \in Requests, Step(r) \/ RecurringLost(r) \/ Abort(r)
    PROVE  Moves(r)
<1>1. /\ pc \in [Requests -> Steps] /\ order \in [Requests -> Orders]
      /\ order[r] \in Orders
  BY DEF TypeInv, OrderTypeOK
<1>2. ASSUME End(r), Running(r) PROVE Moves(r)
  BY <1>1, <1>2 DEF End, Goto, Moves, OneMoves
<1>3. ASSUME NEW step \in Steps \ {"idle"}, Goto(r, step), UNCHANGED order, Running(r)
      PROVE  Moves(r)
  BY <1>1, <1>3 DEF Goto, Moves, OneMoves
<1>4. CASE CreateProfiles(r)
  BY <1>2, <1>3, <1>4 DEF CreateProfiles, Running, Steps
<1>5. CASE Recurring(r)
  <2>1. CASE End(r) BY <1>2, <1>5, <2>1 DEF Recurring, Running
  <2>2. CASE ~End(r)
    <3>1. /\ subscriptions' = Append(subscriptions, Opened(order[r]))
          /\ order' = [order EXCEPT ![r].sub = Len(subscriptions) + 1]
          /\ pc' = [pc EXCEPT ![r] = "save"]
      BY <1>5, <2>2 DEF Recurring, Goto
    <3>2. subscriptions \in Seq(Subscriptions) BY DEF TypeInv, OrderTypeOK
    <3>3. Opened(order[r]) \in Subscriptions BY <1>1, OpenedType
    <3>4. /\ Len(subscriptions') = Len(subscriptions) + 1 /\ Len(subscriptions) \in Nat
          /\ subscriptions'[Len(subscriptions')] = Opened(order[r])
      BY <3>1, <3>2, <3>3
    <3>5. Opened(order[r]).of = order[r].customer BY DEF Opened
    <3>6. /\ order'[r] = [order[r] EXCEPT !.sub = Len(subscriptions) + 1]
          /\ pc'[r] = "save"
      BY <1>1, <3>1
    <3>7. /\ order'[r] \in Orders /\ order'[r].customer = order[r].customer
          /\ order'[r].sub = Len(subscriptions) + 1
      <4> DEFINE n == Len(subscriptions) + 1
      <4>1. n \in Nat BY <3>4
      <4>2. [order[r] EXCEPT !.sub = n] \in Orders BY Zenon, <1>1, <4>1 DEF Orders
      <4>3. /\ [order[r] EXCEPT !.sub = n].customer = order[r].customer
            /\ [order[r] EXCEPT !.sub = n].sub = n
        BY <1>1 DEF Orders
      <4> QED BY <3>6, <4>2, <4>3
    <3>8. OneMoves(r) BY <1>1, <3>1, <3>6 DEF OneMoves
    <3>9. Running(r) BY <1>5 DEF Recurring, Running
    <3> QED BY <1>5, <3>4, <3>5, <3>6, <3>7, <3>8, <3>9 DEF Moves, Steps
  <2> QED BY <2>1, <2>2
<1>6. CASE SaveSubscription(r) \/ CreateRenewal(r) \/ InsertAccount(r) \/ SendMails(r) \/ UpdateTerms(r)
  BY <1>3, <1>6 DEF SaveSubscription, CreateRenewal, InsertAccount, SendMails, UpdateTerms,
                    Running, Steps
<1>7. CASE ValidateAccount(r)
  <2>1. CASE accounts = 0 BY <1>3, <1>7, <2>1 DEF ValidateAccount, Running, Steps
  <2>2. CASE accounts # 0 BY <1>3, <1>7, <2>2 DEF ValidateAccount, Running, Steps
  <2> QED BY <2>1, <2>2
<1>8. CASE AddCard(r) \/ RecurringLost(r) \/ Abort(r)
  BY <1>2, <1>8 DEF AddCard, RecurringLost, Abort, Running
<1> QED BY <1>4, <1>5, <1>6, <1>7, <1>8 DEF Step

LEMMA InitType == OrderInit => TypeInv
<1> SUFFICES ASSUME OrderInit PROVE TypeInv OBVIOUS
<1>1. /\ customers \in Seq(Customers) /\ Len(customers) = 0
      /\ subscriptions \in Seq(Subscriptions) /\ Len(subscriptions) = 0
  BY DEF OrderInit
<1>2. /\ pc \in [Requests -> Steps] /\ order \in [Requests -> Orders]
      /\ \A r \in Requests : pc[r] = "idle" /\ order[r] = NoOrder
  BY NoOrderType DEF OrderInit, Steps
<1>3. OrderTypeOK BY Zenon, <1>1, <1>2 DEF OrderInit, OrderTypeOK
<1>4. NoOrder.sub = 0 BY DEF NoOrder
<1> QED BY <1>1, <1>2, <1>3, <1>4 DEF OrderInit, TypeInv, Running

\* The part of TypeInv that no request's move can disturb.
LEMMA KeepsType ==
    ASSUME TypeInv, Rows, Ledger, UNCHANGED <<pc, order>>,
           cookie' \in Nat, cookie' <= Len(customers'), accounts' \in Nat, faults' \in Nat,
           thanked' = thanked, cut' \in BOOLEAN, overlapped' \in BOOLEAN, UNCHANGED subscriptions
    PROVE  TypeInv'
<1>1. Len(customers) \in Nat /\ Len(customers') \in Nat BY DEF TypeInv, OrderTypeOK, Rows
<1> QED BY <1>1 DEF TypeInv, OrderTypeOK, Rows, Running

LEMMA MovesType ==
    ASSUME TypeInv, Rows, Ledger, NEW r \in Requests, Moves(r),
           cookie' \in {cookie, 0}, accounts' \in Nat, faults' \in Nat,
           thanked' \subseteq thanked \cup {order[r].customer},
           cut' \in BOOLEAN, overlapped' \in BOOLEAN
    PROVE  TypeInv'
<1>1. /\ Len(customers) \in Nat /\ Len(customers') \in Nat
      /\ Len(subscriptions) \in Nat /\ Len(subscriptions') \in Nat
      /\ Len(customers) <= Len(customers') /\ Len(subscriptions) <= Len(subscriptions')
      /\ customers' \in Seq(Customers) /\ subscriptions' \in Seq(Subscriptions)
  BY DEF TypeInv, OrderTypeOK, Rows, Ledger
<1>2. /\ pc \in [Requests -> Steps] /\ order \in [Requests -> Orders]
      /\ order[r].customer \in 1 .. Len(customers)
  BY DEF TypeInv, OrderTypeOK, Moves
<1>3. /\ pc'[r] \in Steps /\ order'[r] \in Orders
      /\ pc'[r] # "idle" => order'[r].customer = order[r].customer
      /\ pc'[r] = "idle" => order'[r] = NoOrder
  BY NoOrderType DEF Moves, Steps
<1>4. /\ pc' \in [Requests -> Steps] /\ order' \in [Requests -> Orders]
      /\ \A q \in Requests : q # r => pc'[q] = pc[q] /\ order'[q] = order[q]
  BY <1>2, <1>3 DEF Moves, OneMoves
<1>5. OrderTypeOK'
  <2>1. thanked' \subseteq Nat /\ cookie' \in Nat BY <1>1, <1>2 DEF TypeInv, OrderTypeOK
  <2> QED BY <1>1, <1>4, <2>1 DEF OrderTypeOK
<1>6. cookie' <= Len(customers') /\ thanked' \subseteq 1 .. Len(customers')
  <2>1. cookie \in Nat /\ cookie <= Len(customers) /\ thanked \subseteq 1 .. Len(customers)
    BY DEF TypeInv, OrderTypeOK
  <2>2. cookie' <= Len(customers') BY <1>1, <2>1
  <2>3. 1 .. Len(customers) \subseteq 1 .. Len(customers') BY <1>1
  <2> QED BY <1>2, <2>1, <2>2, <2>3
<1>7. ASSUME NEW s \in 1 .. Len(subscriptions') PROVE subscriptions'[s].of \in 1 .. Len(customers')
  <2>1. CASE s <= Len(subscriptions)
    <3>1. subscriptions'[s] = subscriptions[s] BY <1>1, <2>1 DEF Ledger
    <3> QED BY <1>1, <2>1, <3>1 DEF TypeInv
  <2>2. CASE s > Len(subscriptions)
    <3>1. PICK q \in Requests : /\ Recurring(q) \/ RecurringLost(q)
                                /\ subscriptions'[s].of = order[q].customer
      BY <2>2 DEF Ledger
    <3>2. order[q].customer \in 1 .. Len(customers)
      BY <3>1 DEF TypeInv, Recurring, RecurringLost, Running
    <3> QED BY <1>1, <3>1, <3>2
  <2> QED BY <1>1, <2>1, <2>2
<1>8. ASSUME NEW q \in Requests
      PROVE  /\ Running(q)' => order'[q].customer \in 1 .. Len(customers')
             /\ ~Running(q)' => order'[q] = NoOrder
             /\ order'[q].sub # 0 => order'[q].sub \in 1 .. Len(subscriptions')
  <2>1. CASE q # r
    BY SMTT(60), <1>1, <1>4, <2>1 DEF TypeInv, Running
  <2>2. CASE q = r
    <3>1. /\ Running(r)' => order'[r].customer \in 1 .. Len(customers')
          /\ ~Running(r)' => order'[r] = NoOrder
      BY <1>1, <1>2, <1>3 DEF Running
    <3>2. NoOrder.sub = 0 BY DEF NoOrder
    <3>3. order'[r].sub # 0 => order'[r].sub \in 1 .. Len(subscriptions')
      BY SMTT(60), <1>1, <3>2 DEF Moves, TypeInv
    <3> QED BY <2>2, <3>1, <3>3
  <2> QED BY <2>1, <2>2
<1> QED BY <1>5, <1>6, <1>7, <1>8 DEF TypeInv

LEMMA BillingType ==
    ASSUME TypeInv, Rows, Ledger, NEW r \in Requests, NEW mode \in Modes, Billing(r, Form(mode))
    PROVE  TypeInv'
<1> DEFINE o == [customer |-> cookie, pay |-> customers[cookie].pay,
                 num |-> customers[cookie].num, form |-> Form(mode), sub |-> 0]
<1>1. /\ customers \in Seq(Customers) /\ cookie \in 1 .. Len(customers) /\ cookie \in Nat
      /\ pc \in [Requests -> Steps] /\ order \in [Requests -> Orders]
  BY DEF TypeInv, OrderTypeOK, Billing
<1>2. customers[cookie] \in Customers BY <1>1
<1>3. o \in Orders BY Zenon, <1>1, <1>2, FormType DEF Orders, Customers
<1>4. pc' = [pc EXCEPT ![r] = "profile"] /\ order' = [order EXCEPT ![r] = o]
  BY DEF Billing, Goto
<1>5. pc' \in [Requests -> Steps] /\ order' \in [Requests -> Orders]
  BY <1>1, <1>3, <1>4 DEF Steps
<1>6. overlapped' \in BOOLEAN
  BY DEF Billing, TypeInv, OrderTypeOK
<1>7. UNCHANGED <<customers, accounts, cookie, subscriptions, faults, thanked, cut>>
  BY DEF Billing
<1>8. OrderTypeOK' BY <1>5, <1>6, <1>7 DEF TypeInv, OrderTypeOK
<1>9. ASSUME NEW q \in Requests
      PROVE  /\ Running(q)' => order'[q].customer \in 1 .. Len(customers')
             /\ ~Running(q)' => order'[q] = NoOrder
             /\ order'[q].sub # 0 => order'[q].sub \in 1 .. Len(subscriptions')
  <2>1. CASE q = r
    <3>1. pc'[r] = "profile" /\ order'[r].customer = cookie /\ order'[r].sub = 0
      BY <1>1, <1>4
    <3> QED BY <1>1, <1>7, <2>1, <3>1 DEF Running
  <2>2. CASE q # r
    <3>1. pc'[q] = pc[q] /\ order'[q] = order[q] BY <1>1, <1>4, <2>2
    <3> QED BY <1>7, <3>1 DEF Running, TypeInv
  <2> QED BY <2>1, <2>2
<1> QED BY <1>7, <1>8, <1>9 DEF TypeInv

LEMMA NextType == TypeInv /\ [OrderNext]_orderVars => TypeInv'
<1> SUFFICES ASSUME TypeInv, [OrderNext]_orderVars PROVE TypeInv' OBVIOUS
<1>1. Rows /\ Ledger BY NextRows, NextLedger
<1>2. /\ cookie \in Nat /\ accounts \in Nat /\ faults \in Nat
      /\ cut \in BOOLEAN /\ overlapped \in BOOLEAN /\ cookie <= Len(customers)
      /\ Len(customers) \in Nat /\ Len(customers') \in Nat /\ Len(customers) <= Len(customers')
  BY <1>1 DEF TypeInv, OrderTypeOK, Rows
<1>3. CASE Quote
  <2>1. customers \in Seq(Customers) BY DEF TypeInv, OrderTypeOK
  <2>2. Len(customers') = Len(customers) + 1 BY <1>3, <2>1 DEF Quote
  <2> QED BY <1>1, <1>2, <1>3, <2>2, KeepsType DEF Quote
<1>4. CASE \E n \in Plans : Purchase(n)
  BY <1>1, <1>2, <1>4, KeepsType DEF Purchase
<1>5. CASE \E c \in DOMAIN customers, s \in Statuses : ChangeStatus(c, s)
  BY <1>1, <1>2, <1>5, KeepsType DEF ChangeStatus
<1>6. ASSUME NEW r \in Requests, \E mode \in Modes : Billing(r, Form(mode)) PROVE TypeInv'
  BY <1>1, <1>6, BillingType
<1>7. ASSUME NEW r \in Requests, Step(r) \/ RecurringLost(r) \/ Abort(r) PROVE TypeInv'
  <2>1. Moves(r) BY <1>7, StepMoves
  <2>2. /\ cookie' \in {cookie, 0} /\ accounts' \in Nat /\ faults' \in Nat
        /\ thanked' \subseteq thanked \cup {order[r].customer}
        /\ overlapped' \in BOOLEAN
    BY <1>2, <1>7
       DEF Step, CreateProfiles, Recurring, SaveSubscription, CreateRenewal, ValidateAccount,
           InsertAccount, SendMails, UpdateTerms, AddCard, RecurringLost, Abort
  <2>3. cut' \in BOOLEAN
    BY Zenon, <1>2, <1>7
       DEF Step, CreateProfiles, Recurring, SaveSubscription, CreateRenewal, ValidateAccount,
           InsertAccount, SendMails, UpdateTerms, AddCard, RecurringLost, Abort
  <2> QED BY <1>1, <2>1, <2>2, <2>3, MovesType
<1>8. CASE UNCHANGED orderVars
  BY <1>1, <1>2, <1>8, KeepsType DEF orderVars
<1> QED BY <1>3, <1>4, <1>5, <1>6, <1>7, <1>8 DEF OrderNext

LEMMA TypeInvariant == OrderSpec => []TypeInv
BY InitType, NextType, PTL DEF OrderSpec

\* Every variable keeps its type, for any prices, plans and bounds.
THEOREM TypeCorrect == OrderSpec => []OrderTypeOK
<1>1. TypeInv => OrderTypeOK BY DEF TypeInv
<1> QED BY <1>1, TypeInvariant, PTL

-----------------------------------------------------------------------------
(* Whose subscription it is *)

\* What a request got from the gateway, and what it saved, was opened for its
\* customer.
OwnInv ==
    /\ \A c \in 1 .. Len(customers) : customers[c].sub # 0 =>
          /\ customers[c].sub \in 1 .. Len(subscriptions)
          /\ subscriptions[customers[c].sub].of = c
    /\ \A r \in Requests :
          /\ order[r].sub # 0 => subscriptions[order[r].sub].of = order[r].customer
          /\ pc[r] = "save" => order[r].sub # 0

\* Only `recurring` leads to "save".
LEMMA ToSave ==
    ASSUME TypeInv, NEW r \in Requests, Step(r) \/ RecurringLost(r) \/ Abort(r), pc'[r] = "save"
    PROVE  Recurring(r) /\ order'[r].sub = Len(subscriptions) + 1
<1>1. pc \in [Requests -> Steps] /\ order \in [Requests -> Orders] BY DEF TypeInv, OrderTypeOK
<1>2. Recurring(r)
  BY <1>1 DEF Step, CreateProfiles, SaveSubscription, CreateRenewal, ValidateAccount,
           InsertAccount, SendMails, UpdateTerms, AddCard, RecurringLost, Abort, End, Goto
<1>3. order' = [order EXCEPT ![r].sub = Len(subscriptions) + 1]
  BY <1>1, <1>2 DEF Recurring, End, Goto
<1> QED BY <1>1, <1>2, <1>3 DEF Orders

\* Who moves in a step, if anyone does.
LEMMA WhoMoves ==
    ASSUME TypeInv, [OrderNext]_orderVars
    PROVE  \/ UNCHANGED <<pc, order>>
           \/ \E r \in Requests, mode \in Modes : Billing(r, Form(mode))
           \/ \E r \in Requests : Step(r) \/ RecurringLost(r) \/ Abort(r)
BY Zenon DEF OrderNext, orderVars, Quote, Purchase, ChangeStatus

LEMMA NextOwn == TypeInv /\ OwnInv /\ [OrderNext]_orderVars => OwnInv'
<1> SUFFICES ASSUME TypeInv, OwnInv, [OrderNext]_orderVars PROVE OwnInv' OBVIOUS
<1>1. Rows /\ Ledger BY NextRows, NextLedger
<1>2. /\ Len(customers) \in Nat /\ Len(subscriptions) \in Nat /\ Len(subscriptions') \in Nat
      /\ Len(subscriptions) <= Len(subscriptions')
      /\ pc \in [Requests -> Steps] /\ order \in [Requests -> Orders]
  BY <1>1 DEF TypeInv, OrderTypeOK, Rows, Ledger
<1>3. ASSUME NEW s \in 1 .. Len(subscriptions)
      PROVE  s \in 1 .. Len(subscriptions') /\ subscriptions'[s] = subscriptions[s]
  BY <1>1, <1>2 DEF Ledger
<1>4. ASSUME NEW c \in 1 .. Len(customers'), customers'[c].sub # 0
      PROVE  /\ customers'[c].sub \in 1 .. Len(subscriptions')
             /\ subscriptions'[customers'[c].sub].of = c
  <2>1. c \in 1 .. Len(customers) BY <1>1, <1>2, <1>4 DEF Rows
  <2>2. CASE customers'[c].sub = customers[c].sub
    BY <1>3, <1>4, <2>1, <2>2 DEF OwnInv
  <2>3. ASSUME NEW r \in Requests, SaveSubscription(r), order[r].customer = c,
               customers'[c].sub = order[r].sub
        PROVE  /\ customers'[c].sub \in 1 .. Len(subscriptions')
               /\ subscriptions'[customers'[c].sub].of = c
    <3>1. order[r].sub # 0 /\ order[r].sub \in 1 .. Len(subscriptions)
      BY <1>4, <2>3 DEF TypeInv
    <3> QED BY <1>3, <2>3, <3>1 DEF OwnInv
  <2> QED BY <1>1, <2>1, <2>2, <2>3 DEF Rows, Grows
<1>5. ASSUME NEW q \in Requests, pc'[q] = pc[q], order'[q] = order[q]
      PROVE  /\ order'[q].sub # 0 => subscriptions'[order'[q].sub].of = order'[q].customer
             /\ pc'[q] = "save" => order'[q].sub # 0
  BY <1>3, <1>5 DEF OwnInv, TypeInv
<1>6. ASSUME NEW q \in Requests
      PROVE  /\ order'[q].sub # 0 => subscriptions'[order'[q].sub].of = order'[q].customer
             /\ pc'[q] = "save" => order'[q].sub # 0
  <2>1. CASE UNCHANGED <<pc, order>> BY <1>5, <2>1
  <2>2. ASSUME NEW r \in Requests, NEW mode \in Modes, Billing(r, Form(mode))
        PROVE  /\ order'[q].sub # 0 => subscriptions'[order'[q].sub].of = order'[q].customer
               /\ pc'[q] = "save" => order'[q].sub # 0
    <3>1. CASE q # r BY <1>2, <1>5, <2>2, <3>1 DEF Billing, Goto
    <3>2. CASE q = r BY <1>2, <2>2, <3>2 DEF Billing, Goto
    <3> QED BY <3>1, <3>2
  <2>3. ASSUME NEW r \in Requests, Step(r) \/ RecurringLost(r) \/ Abort(r)
        PROVE  /\ order'[q].sub # 0 => subscriptions'[order'[q].sub].of = order'[q].customer
               /\ pc'[q] = "save" => order'[q].sub # 0
    <3>1. Moves(r) BY <2>3, StepMoves
    <3>2. CASE q # r
      <4>1. pc'[q] = pc[q] /\ order'[q] = order[q] BY <1>2, <3>1, <3>2 DEF Moves, OneMoves
      <4> QED BY <1>5, <4>1
    <3>3. CASE q = r
      <4>1. pc'[r] = "save" => order'[r].sub # 0 BY <1>2, <2>3, ToSave
      <4>2. NoOrder.sub = 0 BY DEF NoOrder
      <4>3. order'[r].sub # 0 => subscriptions'[order'[r].sub].of = order'[r].customer
        <5>1. CASE order'[r] = NoOrder BY <4>2, <5>1
        <5>2. CASE order'[r].customer = order[r].customer /\ order'[r].sub = order[r].sub
          BY <1>3, <5>2 DEF OwnInv, TypeInv
        <5> QED BY <3>1, <5>1, <5>2 DEF Moves
      <4> QED BY <3>3, <4>1, <4>3
    <3> QED BY <3>2, <3>3
  <2> QED BY <2>1, <2>2, <2>3, WhoMoves
<1> QED BY <1>4, <1>6 DEF OwnInv

LEMMA OwnInvariant == OrderSpec => []OwnInv
<1>1. OrderInit => OwnInv BY DEF OrderInit, OwnInv, NoOrder
<1> QED BY <1>1, NextOwn, TypeInvariant, PTL DEF OrderSpec

\* The subscription on a customer's row was opened for that customer, however
\* the quotes and orders of the browser overlap (SiteController#billing).
THEOREM SubscriptionsAreOwn == OrderSpec => []RecordedIsOwn
<1>1. TypeInv /\ OwnInv => RecordedIsOwn
  BY SMTT(30) DEF TypeInv, OrderTypeOK, OwnInv, RecordedIsOwn
<1> QED BY <1>1, TypeInvariant, OwnInvariant, PTL

-----------------------------------------------------------------------------
(* What has been recorded *)

Saved == {"renew", "validate", "insert", "mail", "terms", "card"}
Renewed == Saved \ {"renew"}
HasAccount == {"mail", "terms", "card"}

\* Each step that a request has passed has left its record.
RecordInv ==
    /\ \A r \in Requests :
          /\ pc[r] \in Saved => customers[order[r].customer].sub # 0
          /\ pc[r] \in Renewed => customers[order[r].customer].renewals > 0
          /\ pc[r] \in HasAccount => accounts > 0
    /\ ThankedMeansRecorded

\* The ways into these sets of steps.
LEMMA Enters ==
    ASSUME TypeInv, NEW r \in Requests, Step(r) \/ RecurringLost(r) \/ Abort(r)
    PROVE  /\ pc'[r] \in Saved => pc[r] \in Saved \/ SaveSubscription(r)
           /\ pc'[r] \in Renewed => pc[r] \in Renewed \/ CreateRenewal(r)
           /\ pc'[r] \in HasAccount =>
                 pc[r] \in HasAccount \/ InsertAccount(r) \/ (ValidateAccount(r) /\ accounts # 0)
<1>1. pc \in [Requests -> Steps] BY DEF TypeInv, OrderTypeOK
<1>2. CASE RecurringLost(r) \/ Abort(r) \/ AddCard(r)
  BY <1>1, <1>2 DEF RecurringLost, Abort, AddCard, End, Goto, Saved, Renewed, HasAccount
<1>3. CASE CreateProfiles(r) \/ Recurring(r)
  BY <1>1, <1>3 DEF CreateProfiles, Recurring, End, Goto, Saved, Renewed, HasAccount
<1>4. CASE SaveSubscription(r) \/ CreateRenewal(r)
  BY <1>1, <1>4 DEF SaveSubscription, CreateRenewal, Goto, Saved, Renewed, HasAccount
<1>5. CASE ValidateAccount(r) \/ InsertAccount(r)
  BY <1>1, <1>5 DEF ValidateAccount, InsertAccount, Goto, Saved, Renewed, HasAccount
<1>6. CASE SendMails(r) \/ UpdateTerms(r)
  BY <1>1, <1>6 DEF SendMails, UpdateTerms, Goto, Saved, Renewed, HasAccount
<1> QED BY <1>2, <1>3, <1>4, <1>5, <1>6 DEF Step

\* What is recorded stays.
LEMMA Stays ==
    ASSUME TypeInv, OwnInv, Rows, NEW c \in 1 .. Len(customers)
    PROVE  /\ customers[c].sub # 0 => customers'[c].sub # 0
           /\ customers[c].renewals > 0 => customers'[c].renewals > 0
           /\ customers[c].cards > 0 => customers'[c].cards > 0
<1>1. /\ customers \in Seq(Customers) /\ customers' \in Seq(Customers)
      /\ c \in 1 .. Len(customers')
  BY DEF TypeInv, OrderTypeOK, Rows
<1>2. customers[c] \in Customers /\ customers'[c] \in Customers BY <1>1
<1>3. /\ customers[c].renewals \in Nat /\ customers'[c].renewals \in Nat
      /\ customers[c].cards \in Nat /\ customers'[c].cards \in Nat
  BY Zenon, <1>2 DEF Customers
<1>4. Grows(c) BY DEF Rows
<1>5. customers[c].sub # 0 => customers'[c].sub # 0
  BY Zenon, <1>4 DEF Grows, OwnInv, SaveSubscription
<1> QED BY <1>3, <1>4, <1>5 DEF Grows

\* The steps that make the records.
LEMMA Makes ==
    ASSUME TypeInv, OwnInv, NEW r \in Requests
    PROVE  /\ SaveSubscription(r) => customers'[order[r].customer].sub # 0
           /\ CreateRenewal(r) => customers'[order[r].customer].renewals > 0
           /\ AddCard(r) => customers'[order[r].customer].cards > 0
<1> DEFINE c == order[r].customer
<1> SUFFICES ASSUME Running(r)
             PROVE  /\ SaveSubscription(r) => customers'[c].sub # 0
                    /\ CreateRenewal(r) => customers'[c].renewals > 0
                    /\ AddCard(r) => customers'[c].cards > 0
  BY DEF Running, SaveSubscription, CreateRenewal, AddCard
<1>1. customers \in Seq(Customers) /\ c \in 1 .. Len(customers)
  BY DEF TypeInv, OrderTypeOK
<1>2. customers[c] \in Customers BY <1>1
<1>3. customers[c].renewals \in Nat /\ customers[c].cards \in Nat BY <1>2 DEF Customers
<1>4. ASSUME SaveSubscription(r) PROVE customers'[c].sub # 0
  <2>1. customers'[c] = [customers[c] EXCEPT !.sub = order[r].sub]
    BY <1>1, <1>4 DEF SaveSubscription
  <2>2. order[r].sub # 0 BY <1>4 DEF SaveSubscription, OwnInv
  <2> QED BY <1>2, <2>1, <2>2 DEF Customers
<1>5. ASSUME CreateRenewal(r) PROVE customers'[c].renewals > 0
  <2>1. customers'[c] = [customers[c] EXCEPT !.renewals = customers[c].renewals + 1]
    BY <1>1, <1>5 DEF CreateRenewal
  <2>2. customers'[c].renewals = customers[c].renewals + 1 BY <1>2, <2>1 DEF Customers
  <2> QED BY <1>3, <2>2
<1>6. ASSUME AddCard(r) PROVE customers'[c].cards > 0
  <2>1. customers'[c] = [customers[c] EXCEPT !.cards = customers[c].cards + 1]
    BY <1>1, <1>6 DEF AddCard
  <2>2. customers'[c].cards = customers[c].cards + 1 BY <1>2, <2>1 DEF Customers
  <2> QED BY <1>3, <2>2
<1> QED BY <1>4, <1>5, <1>6

LEMMA AccountsGrow ==
    ASSUME TypeInv, [OrderNext]_orderVars
    PROVE  accounts \in Nat /\ accounts' \in Nat /\ accounts' >= accounts
<1>1. accounts \in Nat BY DEF TypeInv, OrderTypeOK
<1>2. CASE UNCHANGED accounts BY <1>1, <1>2
<1>3. CASE accounts' = accounts + 1 BY <1>1, <1>3
<1>4. UNCHANGED accounts \/ accounts' = accounts + 1
  BY Zenon DEF OrderNext, orderVars, Quote, Purchase, ChangeStatus, Billing, Step,
         CreateProfiles, Recurring, SaveSubscription, CreateRenewal, ValidateAccount,
         InsertAccount, SendMails, UpdateTerms, AddCard, RecurringLost, Abort
<1> QED BY <1>2, <1>3, <1>4

LEMMA NextRecord == TypeInv /\ OwnInv /\ RecordInv /\ [OrderNext]_orderVars => RecordInv'
<1> SUFFICES ASSUME TypeInv, OwnInv, RecordInv, [OrderNext]_orderVars PROVE RecordInv' OBVIOUS
<1>1. Rows BY NextRows
<1>2. pc \in [Requests -> Steps] /\ order \in [Requests -> Orders] BY DEF TypeInv, OrderTypeOK
<1>3. accounts > 0 => accounts' > 0 BY AccountsGrow
<1>4. ASSUME NEW q \in Requests, pc'[q] = pc[q], order'[q] = order[q]
      PROVE  /\ pc'[q] \in Saved => customers'[order'[q].customer].sub # 0
             /\ pc'[q] \in Renewed => customers'[order'[q].customer].renewals > 0
             /\ pc'[q] \in HasAccount => accounts' > 0
  <2>1. pc[q] \in HasAccount => accounts' > 0 BY <1>3 DEF RecordInv
  <2>2. pc[q] \in Saved => order[q].customer \in 1 .. Len(customers)
    BY DEF TypeInv, Running, Saved
  <2> QED BY <1>1, <1>4, <2>1, <2>2, Stays DEF RecordInv, Renewed
<1>5. ASSUME NEW r \in Requests, Step(r) \/ RecurringLost(r) \/ Abort(r)
      PROVE  /\ pc'[r] \in Saved => customers'[order'[r].customer].sub # 0
             /\ pc'[r] \in Renewed => customers'[order'[r].customer].renewals > 0
             /\ pc'[r] \in HasAccount => accounts' > 0
  <2>1. Moves(r) BY <1>5, StepMoves
  <2>2. order[r].customer \in 1 .. Len(customers) BY <2>1 DEF TypeInv, Moves
  <2>3. pc'[r] \in Saved => order'[r].customer = order[r].customer
    BY <2>1 DEF Moves, Saved
  <2>4. pc'[r] \in Saved => customers'[order[r].customer].sub # 0
    BY <1>1, <1>5, <2>2, Enters, Stays, Makes DEF RecordInv
  <2>5. pc'[r] \in Renewed => customers'[order[r].customer].renewals > 0
    BY <1>1, <1>5, <2>2, Enters, Stays, Makes DEF RecordInv
  <2>6. pc'[r] \in HasAccount => accounts' > 0
    <3>1. InsertAccount(r) => accounts' > 0 BY DEF InsertAccount, TypeInv, OrderTypeOK
    <3>2. ValidateAccount(r) /\ accounts # 0 => accounts' > 0
      BY DEF ValidateAccount, TypeInv, OrderTypeOK
    <3> QED BY <1>3, <1>5, <3>1, <3>2, Enters DEF RecordInv
  <2> QED BY <2>3, <2>4, <2>5, <2>6 DEF Renewed
<1>6. ASSUME NEW q \in Requests
      PROVE  /\ pc'[q] \in Saved => customers'[order'[q].customer].sub # 0
             /\ pc'[q] \in Renewed => customers'[order'[q].customer].renewals > 0
             /\ pc'[q] \in HasAccount => accounts' > 0
  <2>1. CASE UNCHANGED <<pc, order>> BY <1>4, <2>1
  <2>2. ASSUME NEW r \in Requests, NEW mode \in Modes, Billing(r, Form(mode)), q = r
        PROVE  pc'[q] \notin Saved \cup Renewed \cup HasAccount
    BY <1>2, <2>2 DEF Billing, Goto, Saved, Renewed, HasAccount
  <2>3. ASSUME NEW r \in Requests, NEW mode \in Modes, Billing(r, Form(mode)), q # r
        PROVE  pc'[q] = pc[q] /\ order'[q] = order[q]
    BY <1>2, <2>3 DEF Billing, Goto
  <2>4. ASSUME NEW r \in Requests, Step(r) \/ RecurringLost(r) \/ Abort(r), q # r
        PROVE  pc'[q] = pc[q] /\ order'[q] = order[q]
    BY <1>2, <2>4, StepMoves DEF Moves, OneMoves
  <2> QED BY <1>4, <1>5, <2>1, <2>2, <2>3, <2>4, WhoMoves
<1>7. ASSUME NEW c \in thanked'
      PROVE  /\ customers'[c].sub # 0
             /\ customers'[c].renewals > 0 /\ customers'[c].cards > 0
             /\ accounts' > 0
  <2>1. CASE c \in thanked
    BY <1>1, <1>3, <2>1, Stays DEF RecordInv, ThankedMeansRecorded, TypeInv
  <2>2. CASE c \notin thanked
    <3>1. PICK r \in Requests : AddCard(r) /\ c = order[r].customer
      BY Zenon, <1>7, <2>2
         DEF OrderNext, orderVars, Quote, Purchase, ChangeStatus, Billing, Step,
             CreateProfiles, Recurring, SaveSubscription, CreateRenewal, ValidateAccount,
             InsertAccount, SendMails, UpdateTerms, AddCard, RecurringLost, Abort
    <3>2. pc[r] = "card" BY <3>1 DEF AddCard
    <3>3. /\ customers[c].sub # 0 /\ customers[c].renewals > 0 /\ accounts > 0
          /\ c \in 1 .. Len(customers)
      BY <3>1, <3>2 DEF RecordInv, Saved, Renewed, HasAccount, TypeInv, Running
    <3> QED BY Zenon, <1>1, <1>3, <3>1, <3>3, Stays, Makes
  <2> QED BY <2>1, <2>2
<1> QED BY <1>6, <1>7 DEF RecordInv, ThankedMeansRecorded

LEMMA RecordInvariant == OrderSpec => []RecordInv
<1>1. OrderInit => RecordInv
  BY DEF OrderInit, RecordInv, ThankedMeansRecorded, Saved, Renewed, HasAccount
<1> QED BY <1>1, NextRecord, TypeInvariant, OwnInvariant, PTL DEF OrderSpec

\* A customer who has been thanked has a subscription, a contract period, a
\* card and a login, whatever failed before or ran beside the order
\* (SiteController#billing).
THEOREM ThanksAreDue == OrderSpec => []ThankedMeansRecorded
<1>1. RecordInv => ThankedMeansRecorded BY DEF RecordInv
<1> QED BY <1>1, RecordInvariant, PTL

-----------------------------------------------------------------------------
(* One order at a time *)

OneRuns == \A q, r \in Requests : Running(q) /\ Running(r) => q = r

\* The query for the address and the insert are not one step; what holds in
\* between is what the query found.
SerialInv ==
    ~overlapped =>
        /\ OneRuns
        /\ accounts <= 1
        /\ \A r \in Requests : pc[r] = "insert" => accounts = 0

LEMMA NextSerial == TypeInv /\ SerialInv /\ [OrderNext]_orderVars => SerialInv'
<1> SUFFICES ASSUME TypeInv, SerialInv, [OrderNext]_orderVars, ~overlapped'
             PROVE  OneRuns' /\ accounts' <= 1 /\ \A r \in Requests : pc'[r] = "insert" => accounts' = 0
  BY DEF SerialInv
<1>1. pc \in [Requests -> Steps] /\ accounts \in Nat BY Zenon DEF TypeInv, OrderTypeOK
<1>2. ~overlapped
  BY Zenon DEF OrderNext, orderVars, Quote, Purchase, ChangeStatus, Billing, Step,
         CreateProfiles, Recurring, SaveSubscription, CreateRenewal, ValidateAccount,
         InsertAccount, SendMails, UpdateTerms, AddCard, RecurringLost, Abort
<1>3. /\ OneRuns /\ accounts <= 1
      /\ \A r \in Requests : pc[r] = "insert" => accounts = 0
  BY <1>2 DEF SerialInv
<1>4. CASE UNCHANGED pc /\ UNCHANGED accounts
  BY <1>3, <1>4 DEF OneRuns, Running
<1>5. ASSUME NEW r \in Requests, NEW mode \in Modes, Billing(r, Form(mode))
      PROVE  OneRuns' /\ accounts' <= 1 /\ \A q \in Requests : pc'[q] = "insert" => accounts' = 0
  <2>1. \A q \in Requests : ~Running(q) BY Zenon, <1>5 DEF Billing
  <2>2. pc' = [pc EXCEPT ![r] = "profile"] /\ accounts' = accounts
    BY <1>5 DEF Billing, Goto
  <2> QED BY <1>1, <1>3, <2>1, <2>2 DEF OneRuns, Running
<1>6. ASSUME NEW r \in Requests, Step(r) \/ RecurringLost(r) \/ Abort(r)
      PROVE  OneRuns' /\ accounts' <= 1 /\ \A q \in Requests : pc'[q] = "insert" => accounts' = 0
  <2>1. Moves(r) BY <1>6, StepMoves
  <2>2. Running(r) /\ \A q \in Requests : q # r => pc'[q] = pc[q]
    BY <1>1, <2>1 DEF Moves, OneMoves
  <2>3. \A q \in Requests : q # r => pc'[q] = "idle"
    BY <1>3, <2>2 DEF OneRuns, Running
  <2>4. OneRuns' BY <2>3 DEF OneRuns, Running
  <2>5. CASE InsertAccount(r)
    <3>1. accounts = 0 /\ accounts' = accounts + 1 BY <1>3, <2>5 DEF InsertAccount
    <3>2. pc'[r] = "mail" BY <1>1, <2>5 DEF InsertAccount, Goto
    <3> QED BY <2>3, <2>4, <3>1, <3>2
  <2>6. CASE ValidateAccount(r)
    <3>1. accounts' = accounts BY <2>6 DEF ValidateAccount
    <3>2. pc'[r] = "insert" => accounts = 0 BY <1>1, <2>6 DEF ValidateAccount, Goto
    <3> QED BY <1>3, <2>3, <2>4, <3>1, <3>2
  <2>7. CASE ~InsertAccount(r) /\ ~ValidateAccount(r)
    <3>1. accounts' = accounts /\ pc'[r] # "insert"
      BY <1>1, <1>6, <2>7
         DEF Step, CreateProfiles, Recurring, SaveSubscription, CreateRenewal,
             SendMails, UpdateTerms, AddCard, RecurringLost, Abort, End, Goto
    <3> QED BY <1>3, <2>3, <2>4, <3>1
  <2> QED BY <2>4, <2>5, <2>6, <2>7
<1>7. CASE Quote \/ (\E n \in Plans : Purchase(n)) \/ UNCHANGED orderVars
           \/ (\E c \in DOMAIN customers, s \in Statuses : ChangeStatus(c, s))
  BY Zenon, <1>4, <1>7 DEF Quote, Purchase, ChangeStatus, orderVars
<1> QED BY <1>5, <1>6, <1>7 DEF OrderNext

LEMMA SerialInvariant == OrderSpec => []SerialInv
<1>1. OrderInit => SerialInv BY DEF OrderInit, SerialInv, OneRuns, Running
<1> QED BY <1>1, NextSerial, TypeInvariant, PTL DEF OrderSpec

\* When billing requests ran one at a time at most one account has the address,
\* also after failures and repeated orders (SiteController#billing, Account).
THEOREM OneAccount == OrderSpec => []OneAccountWhenSerial
<1>1. SerialInv => OneAccountWhenSerial BY DEF SerialInv, OneAccountWhenSerial
<1> QED BY <1>1, SerialInvariant, PTL

-----------------------------------------------------------------------------
(* No subscription without a row *)

Unsaved == {"profile", "recurring", "save"}

\* A subscription no row knows is known to the request that opened it; a
\* request that has not saved one yet works for a customer without one; and the
\* cookie leads to a customer with one only while the request that saved it is
\* on its way to dropping the cookie.
Known(s) ==
    \/ customers[subscriptions[s].of].sub = s
    \/ \E r \in Requests : pc[r] = "save" /\ order[r].sub = s

CookieSpent ==
    cookie # 0 /\ customers[cookie].sub # 0 =>
        \E r \in Requests : pc[r] \in Saved /\ order[r].customer = cookie

OrphanInv ==
    ~cut /\ ~overlapped =>
        /\ \A s \in 1 .. Len(subscriptions) : Known(s)
        /\ \A r \in Requests : pc[r] \in Unsaved => customers[order[r].customer].sub = 0
        /\ CookieSpent

\* As long as no request is at "save", no row's subscription changes.
LEMMA SubsKept ==
    ASSUME TypeInv, Rows, \A r \in Requests : pc[r] # "save"
    PROVE  \A c \in 1 .. Len(customers) : customers'[c].sub = customers[c].sub
BY Zenon DEF Rows, Grows, SaveSubscription

\* A step in which no request moves.
LEMMA QuietOrphan ==
    ASSUME TypeInv, Rows, Ledger, OrphanInv, ~cut, ~overlapped,
           UNCHANGED <<pc, order, subscriptions>>,
           \A c \in 1 .. Len(customers) : customers'[c].sub = customers[c].sub,
           cookie' = cookie \/ cookie' \in (Len(customers) + 1) .. Len(customers')
    PROVE  /\ \A s \in 1 .. Len(subscriptions') : Known(s)'
           /\ \A r \in Requests : pc'[r] \in Unsaved => customers'[order'[r].customer].sub = 0
           /\ CookieSpent'
<1>1. /\ Len(customers) \in Nat /\ Len(customers') \in Nat /\ Len(customers) <= Len(customers')
      /\ cookie \in Nat /\ cookie <= Len(customers)
  BY DEF TypeInv, OrderTypeOK, Rows
<1>2. /\ \A s \in 1 .. Len(subscriptions) : Known(s)
      /\ \A r \in Requests : pc[r] \in Unsaved => customers[order[r].customer].sub = 0
      /\ CookieSpent
  BY DEF OrphanInv
<1>3. ASSUME NEW s \in 1 .. Len(subscriptions') PROVE Known(s)'
  <2>1. Known(s) /\ subscriptions[s].of \in 1 .. Len(customers) BY <1>2 DEF TypeInv
  <2> QED BY <2>1 DEF Known
<1>4. ASSUME NEW r \in Requests, pc'[r] \in Unsaved PROVE customers'[order'[r].customer].sub = 0
  <2>1. order[r].customer \in 1 .. Len(customers) BY <1>4 DEF TypeInv, Running, Unsaved
  <2> QED BY <1>2, <1>4, <2>1
<1>5. CookieSpent'
  <2>1. CASE cookie' = cookie
    BY <1>1, <1>2, <2>1 DEF CookieSpent
  <2>2. CASE cookie' \in (Len(customers) + 1) .. Len(customers')
    <3>1. customers'[cookie'].sub = 0 BY <1>1, <2>2 DEF Rows
    <3> QED BY <3>1 DEF CookieSpent
  <2> QED BY <2>1, <2>2
<1> QED BY <1>3, <1>4, <1>5

\* A request starts: no other one runs, so the cookie is not spent.
LEMMA BillingOrphan ==
    ASSUME TypeInv, OrphanInv, ~cut, ~overlapped, ~overlapped',
           NEW r \in Requests, NEW mode \in Modes, Billing(r, Form(mode))
    PROVE  /\ \A s \in 1 .. Len(subscriptions') : Known(s)'
           /\ \A q \in Requests : pc'[q] \in Unsaved => customers'[order'[q].customer].sub = 0
           /\ CookieSpent'
<1>1. /\ \A q \in Requests : pc[q] = "idle"
      /\ pc \in [Requests -> Steps] /\ order \in [Requests -> Orders]
  BY Zenon DEF Billing, Running, TypeInv, OrderTypeOK
<1>2. /\ UNCHANGED <<customers, subscriptions, cookie>> /\ cookie # 0
      /\ pc' = [pc EXCEPT ![r] = "profile"] /\ order'[r].customer = cookie
  BY <1>1 DEF Billing, Goto
<1>3. customers[cookie].sub = 0
  BY <1>1, <1>2 DEF OrphanInv, CookieSpent, Saved
<1>4. \A s \in 1 .. Len(subscriptions) : customers[subscriptions[s].of].sub = s
  BY <1>1 DEF OrphanInv, Known
<1> QED BY <1>1, <1>2, <1>3, <1>4 DEF Known, CookieSpent, Unsaved

\* The one request that runs moves.
LEMMA StepOrphan ==
    ASSUME TypeInv, OwnInv, Rows, Ledger, OneRuns, OrphanInv, ~cut, ~overlapped, ~cut',
           NEW r \in Requests, Step(r) \/ RecurringLost(r) \/ Abort(r)
    PROVE  /\ \A s \in 1 .. Len(subscriptions') : Known(s)'
           /\ \A q \in Requests : pc'[q] \in Unsaved => customers'[order'[q].customer].sub = 0
           /\ CookieSpent'
<1> DEFINE c == order[r].customer
<1>1. Moves(r) BY StepMoves
<1>2. /\ pc \in [Requests -> Steps] /\ order \in [Requests -> Orders]
      /\ Len(customers) \in Nat /\ Len(subscriptions) \in Nat /\ Len(subscriptions') \in Nat
      /\ cookie \in Nat /\ cookie <= Len(customers) /\ c \in 1 .. Len(customers)
  BY <1>1 DEF TypeInv, OrderTypeOK, Moves, Ledger
<1>3. \A q \in Requests : q # r => pc[q] = "idle" /\ pc'[q] = "idle"
  BY <1>1, <1>2 DEF Moves, OneMoves, OneRuns, Running
<1>4. \A s \in 1 .. Len(subscriptions) :
         \/ customers[subscriptions[s].of].sub = s
         \/ pc[r] = "save" /\ order[r].sub = s
  BY <1>3 DEF OrphanInv, Known
<1>5. pc[r] \in Unsaved => customers[c].sub = 0 BY DEF OrphanInv
<1>6. cookie # 0 /\ customers[cookie].sub # 0 => pc[r] \in Saved /\ c = cookie
  BY <1>3 DEF OrphanInv, CookieSpent, Saved
<1>7. cookie' = cookie \/ cookie' = 0
  BY DEF Step, CreateProfiles, Recurring, SaveSubscription, CreateRenewal, ValidateAccount,
         InsertAccount, SendMails, UpdateTerms, AddCard, RecurringLost, Abort
<1>8. CASE SaveSubscription(r)
  <2>1. /\ pc[r] = "save" /\ pc'[r] = "renew" /\ order'[r] = order[r]
        /\ UNCHANGED <<subscriptions, cookie>>
    BY <1>2, <1>8 DEF SaveSubscription, Goto
  <2>2. customers'[c] = [customers[c] EXCEPT !.sub = order[r].sub]
    BY <1>2, <1>8 DEF SaveSubscription, TypeInv, OrderTypeOK
  <2>3. customers[c] \in Customers BY <1>2 DEF TypeInv, OrderTypeOK
  <2>4. customers'[c].sub = order[r].sub BY <2>2, <2>3 DEF Customers
  <2>5. \A d \in 1 .. Len(customers) : d # c => customers'[d].sub = customers[d].sub
    BY <1>2, <1>8 DEF SaveSubscription, TypeInv, OrderTypeOK
  <2>6. customers[c].sub = 0 BY <1>5, <2>1 DEF Unsaved
  <2>7. ASSUME NEW s \in 1 .. Len(subscriptions') PROVE customers'[subscriptions'[s].of].sub = s
    <3>1. s # 0 /\ s \in 1 .. Len(subscriptions) /\ subscriptions[s].of \in 1 .. Len(customers)
      BY <1>2, <2>1 DEF TypeInv
    <3>2. CASE customers[subscriptions[s].of].sub = s BY <2>1, <2>5, <2>6, <3>1, <3>2
    <3>3. CASE order[r].sub = s
      <4>1. subscriptions[s].of = c BY <3>1, <3>3 DEF OwnInv
      <4> QED BY <2>1, <2>4, <3>3, <4>1
    <3> QED BY <1>4, <3>1, <3>2, <3>3
  <2>8. CookieSpent'
    BY <1>2, <1>6, <2>1, <2>5 DEF CookieSpent, Saved
  <2> QED BY <1>3, <2>1, <2>7, <2>8 DEF Known, Unsaved
<1>9. CASE Recurring(r) /\ ~UNCHANGED subscriptions
  <2>1. /\ pc[r] = "recurring" /\ pc'[r] = "save" /\ order'[r].customer = c
        /\ order'[r].sub = Len(subscriptions) + 1
        /\ UNCHANGED <<customers, cookie>>
        /\ subscriptions' = Append(subscriptions, Opened(order[r]))
    BY <1>2, <1>9 DEF Recurring, Goto, Orders
  <2>2. Ledger /\ Len(subscriptions') = Len(subscriptions) + 1
    BY <1>9, <2>1, LedgerOpened
  <2>3. ASSUME NEW s \in 1 .. Len(subscriptions') PROVE Known(s)'
    <3>1. CASE s <= Len(subscriptions)
      <4>1. s \in 1 .. Len(subscriptions) /\ subscriptions'[s] = subscriptions[s]
        BY <1>2, <3>1 DEF Ledger
      <4> QED BY <1>4, <2>1, <4>1 DEF Known
    <3>2. CASE s > Len(subscriptions)
      <4>1. s = Len(subscriptions) + 1 BY <1>2, <2>2, <3>2
      <4> QED BY <2>1, <4>1 DEF Known
    <3> QED BY <1>2, <3>1, <3>2
  <2>4. customers[c].sub = 0 BY <1>5, <2>1 DEF Unsaved
  <2>5. CookieSpent' BY <1>6, <2>1 DEF CookieSpent, Saved
  <2> QED BY <1>3, <2>1, <2>3, <2>4, <2>5 DEF Unsaved
<1>10. CASE ~SaveSubscription(r) /\ UNCHANGED subscriptions
  <2>1. pc[r] # "save" /\ (pc'[r] = "idle" \/ order'[r].customer = c) /\ pc'[r] # "save"
    <3>1. pc[r] # "save"
      BY Zenon, <1>10
         DEF Step, CreateProfiles, Recurring, CreateRenewal, ValidateAccount,
             InsertAccount, SendMails, UpdateTerms, AddCard, RecurringLost, Abort
    <3>2. pc'[r] = "idle" \/ order'[r].customer = c BY <1>1 DEF Moves
    <3>3. ASSUME pc'[r] = "save" PROVE FALSE
      <4>1. Recurring(r) BY <3>3, ToSave
      <4>2. subscriptions' = Append(subscriptions, Opened(order[r]))
        BY <1>2, <3>3, <4>1 DEF Recurring, End, Goto
      <4>3. Len(subscriptions') = Len(subscriptions) + 1 BY <4>1, <4>2, LedgerOpened
      <4> QED BY <1>2, <1>10, <4>3
    <3> QED BY <3>1, <3>2, <3>3
  <2>2. \A d \in 1 .. Len(customers) : customers'[d].sub = customers[d].sub
    <3>1. \A q \in Requests : pc[q] # "save" BY <1>3, <2>1
    <3> QED BY <3>1, SubsKept
  <2>3. ASSUME NEW s \in 1 .. Len(subscriptions') PROVE Known(s)'
    <3>1. subscriptions[s].of \in 1 .. Len(customers) BY <1>10 DEF TypeInv
    <3> QED BY <1>4, <1>10, <2>1, <2>2, <3>1 DEF Known
  <2>4. pc'[r] \in Unsaved => pc[r] \in Unsaved /\ order'[r].customer = c
    BY <1>1, <1>2, <1>10, <2>1
       DEF Step, CreateProfiles, Recurring, CreateRenewal, ValidateAccount,
           InsertAccount, SendMails, UpdateTerms, AddCard, RecurringLost, Abort, End, Goto, Unsaved
  <2>5. ASSUME NEW q \in Requests, pc'[q] \in Unsaved PROVE customers'[order'[q].customer].sub = 0
    <3>1. q = r BY <1>3, <2>5 DEF Unsaved
    <3> QED BY <1>2, <1>5, <2>2, <2>4, <2>5, <3>1
  <2>6. pc[r] \in Saved => (pc'[r] \in Saved /\ order'[r].customer = c) \/ cookie' = 0
    BY Zenon, <1>1, <1>2, <1>10, <2>1
       DEF Step, CreateProfiles, Recurring, CreateRenewal, ValidateAccount,
           InsertAccount, SendMails, UpdateTerms, AddCard, RecurringLost, Abort, End, Goto, Saved
  <2>7. CookieSpent'
    <3>1. CASE cookie' = 0 BY <3>1 DEF CookieSpent
    <3>2. CASE cookie' = cookie /\ cookie # 0
      <4>1. customers'[cookie].sub = customers[cookie].sub BY <1>2, <2>2, <3>2
      <4> QED BY <1>6, <2>6, <3>2, <4>1 DEF CookieSpent
    <3> QED BY <1>7, <3>1, <3>2
  <2> QED BY <2>3, <2>5, <2>7
<1>11. UNCHANGED subscriptions \/ Recurring(r)
  BY DEF Step, CreateProfiles, SaveSubscription, CreateRenewal, ValidateAccount,
         InsertAccount, SendMails, UpdateTerms, AddCard, RecurringLost, Abort
<1> QED BY Zenon, <1>8, <1>9, <1>10, <1>11

LEMMA NextOrphan ==
    TypeInv /\ OwnInv /\ SerialInv /\ OrphanInv /\ [OrderNext]_orderVars => OrphanInv'
<1> SUFFICES ASSUME TypeInv, OwnInv, SerialInv, OrphanInv, [OrderNext]_orderVars,
                    ~cut', ~overlapped'
             PROVE  /\ \A s \in 1 .. Len(subscriptions') : Known(s)'
                    /\ \A r \in Requests : pc'[r] \in Unsaved => customers'[order'[r].customer].sub = 0
                    /\ CookieSpent'
  BY DEF OrphanInv
<1>1. Rows /\ Ledger BY NextRows, NextLedger
<1>2. ~cut /\ ~overlapped
  <2>1. ~overlapped
    BY Zenon DEF OrderNext, orderVars, Quote, Purchase, ChangeStatus, Billing, Step,
           CreateProfiles, Recurring, SaveSubscription, CreateRenewal, ValidateAccount,
           InsertAccount, SendMails, UpdateTerms, AddCard, RecurringLost, Abort
  <2>2. ASSUME NEW r \in Requests, Abort(r) PROVE ~cut BY <2>2, Zenon DEF Abort
  <2>3. ~cut
    BY Zenon, <2>2
       DEF OrderNext, orderVars, Quote, Purchase, ChangeStatus, Billing, Step,
           CreateProfiles, Recurring, SaveSubscription, CreateRenewal, ValidateAccount,
           InsertAccount, SendMails, UpdateTerms, AddCard, RecurringLost
  <2> QED BY Zenon, <2>1, <2>3
<1>3. OneRuns BY <1>2 DEF SerialInv
<1>4. /\ customers \in Seq(Customers) /\ Len(customers) \in Nat
      /\ \A c \in 1 .. Len(customers) : customers[c] \in Customers
  BY DEF TypeInv, OrderTypeOK
<1>5. CASE Quote
  <2>1. /\ Len(customers') = Len(customers) + 1 /\ cookie' = Len(customers) + 1
        /\ \A c \in 1 .. Len(customers) : customers'[c] = customers[c]
    BY <1>4, <1>5 DEF Quote
  <2>2. cookie' \in (Len(customers) + 1) .. Len(customers') BY <1>4, <2>1
  <2>3. UNCHANGED <<pc, order, subscriptions>> BY <1>5 DEF Quote
  <2> QED BY <1>1, <1>2, <2>1, <2>2, <2>3, QuietOrphan
<1>6. ASSUME UNCHANGED pc
      PROVE  \A c \in 1 .. Len(customers) : customers'[c].sub = customers[c].sub
  <2>1. pc \in [Requests -> Steps] BY DEF TypeInv, OrderTypeOK
  <2>2. \A r \in Requests : ~SaveSubscription(r) BY <1>6, <2>1 DEF SaveSubscription, Goto
  <2> QED BY <1>1, <2>2 DEF Rows, Grows
<1>7. CASE \E n \in Plans : Purchase(n)
  BY Zenon, <1>1, <1>2, <1>6, <1>7, QuietOrphan DEF Purchase
<1>8. CASE \E c \in DOMAIN customers, s \in Statuses : ChangeStatus(c, s)
  BY <1>1, <1>2, <1>6, <1>8, QuietOrphan DEF ChangeStatus
<1>9. CASE UNCHANGED orderVars
  BY <1>1, <1>2, <1>6, <1>9, QuietOrphan DEF orderVars
<1>10. CASE \E r \in Requests, mode \in Modes : Billing(r, Form(mode))
  BY <1>2, <1>10, BillingOrphan
<1>11. CASE \E r \in Requests : Step(r) \/ RecurringLost(r) \/ Abort(r)
  BY <1>1, <1>2, <1>3, <1>11, StepOrphan
<1> QED BY <1>5, <1>7, <1>8, <1>9, <1>10, <1>11 DEF OrderNext

LEMMA OrphanInvariant == OrderSpec => []OrphanInv
<1>1. OrderInit => OrphanInv
  BY DEF OrderInit, OrphanInv, CookieSpent, Unsaved
<1> QED BY <1>1, NextOrphan, TypeInvariant, OwnInvariant, SerialInvariant, PTL DEF OrderSpec

\* When billing requests ran one at a time and none was cut short after the
\* gateway was asked, every subscription is on its customer's row or about to
\* be saved there (SiteController#billing).
THEOREM NoOrphan == OrderSpec => []NoOrphanWhenSerial
<1>1. TypeInv /\ OrphanInv => NoOrphanWhenSerial
  BY DEF TypeInv, OrderTypeOK, OrphanInv, Known, NoOrphanWhenSerial
<1> QED BY <1>1, TypeInvariant, OrphanInvariant, PTL

-----------------------------------------------------------------------------
(* Enrolment *)

\* No two requests are about to save the same subscription.
DistinctInv == \A q, r \in Saving : order[q].sub = order[r].sub => q = r

\* Only r moves.
OthersWait(r) == \A q \in Requests : q # r => pc'[q] = pc[q] /\ order'[q] = order[q]

LEMMA MoversAlone ==
    ASSUME TypeInv, NEW r \in Requests,
           \/ \E mode \in Modes : Billing(r, Form(mode))
           \/ Step(r) \/ RecurringLost(r) \/ Abort(r)
    PROVE  OthersWait(r)
<1>1. pc \in [Requests -> Steps] /\ order \in [Requests -> Orders] BY DEF TypeInv, OrderTypeOK
<1>2. CASE \E mode \in Modes : Billing(r, Form(mode))
  BY Zenon, <1>1, <1>2 DEF Billing, Goto, OthersWait
<1>3. CASE Step(r) \/ RecurringLost(r) \/ Abort(r)
  BY <1>1, <1>3, StepMoves DEF Moves, OneMoves, OthersWait
<1> QED BY <1>2, <1>3

LEMMA NextDistinct == TypeInv /\ DistinctInv /\ [OrderNext]_orderVars => DistinctInv'
<1> SUFFICES ASSUME TypeInv, DistinctInv, [OrderNext]_orderVars PROVE DistinctInv' OBVIOUS
<1>1. pc \in [Requests -> Steps] /\ Len(subscriptions) \in Nat BY DEF TypeInv, OrderTypeOK
<1>2. CASE UNCHANGED <<pc, order>> BY <1>2 DEF DistinctInv, Saving
<1>3. ASSUME NEW r \in Requests, OthersWait(r), pc'[r] # "save" PROVE DistinctInv'
  BY <1>3 DEF DistinctInv, Saving, OthersWait
<1>4. ASSUME NEW r \in Requests, NEW mode \in Modes, Billing(r, Form(mode)) PROVE DistinctInv'
  <2>1. pc'[r] = "profile" BY <1>1, <1>4 DEF Billing, Goto
  <2> QED BY <1>3, <1>4, <2>1, MoversAlone
<1>5. ASSUME NEW r \in Requests, Step(r) \/ RecurringLost(r) \/ Abort(r) PROVE DistinctInv'
  <2>1. OthersWait(r) BY <1>5, MoversAlone
  <2>2. CASE pc'[r] # "save" BY <1>3, <2>1, <2>2
  <2>3. CASE pc'[r] = "save"
    <3>1. order'[r].sub = Len(subscriptions) + 1 BY <1>5, <2>3, ToSave
    <3>2. ASSUME NEW q \in Requests, q # r PROVE order'[q].sub # order'[r].sub
      <4>1. order'[q] = order[q] BY <2>1, <3>2 DEF OthersWait
      <4>2. order[q].sub = 0 \/ order[q].sub \in 1 .. Len(subscriptions) BY DEF TypeInv
      <4> QED BY <1>1, <3>1, <4>1, <4>2
    <3> QED BY <2>1, <3>2 DEF DistinctInv, Saving, OthersWait
  <2> QED BY <2>2, <2>3
<1> QED BY <1>2, <1>4, <1>5, WhoMoves

LEMMA DistinctInvariant == OrderSpec => []DistinctInv
<1>1. OrderInit => DistinctInv BY DEF OrderInit, DistinctInv, Saving
<1> QED BY <1>1, NextDistinct, TypeInvariant, PTL DEF OrderSpec

\* What a move makes of the subscriptions that may still be recorded.
LEMMA AwaitedMoves ==
    ASSUME DistinctInv, NEW r \in Requests, OthersWait(r)
    PROVE  /\ pc[r] # "save" /\ pc'[r] # "save" => Awaited' = Awaited
           /\ pc[r] # "save" /\ pc'[r] = "save" => Awaited' = Awaited \cup {order'[r].sub}
           /\ pc[r] = "save" /\ pc'[r] # "save" => /\ order[r].sub \in Awaited
                                                   /\ Awaited' = Awaited \ {order[r].sub}
<1>1. \A q \in Requests : q # r => /\ q \in Saving <=> q \in Saving'
                                   /\ order'[q].sub = order[q].sub
  BY DEF OthersWait, Saving
<1>2. CASE pc[r] # "save" /\ pc'[r] # "save"
  BY <1>1, <1>2 DEF Awaited, Saving
<1>3. CASE pc[r] # "save" /\ pc'[r] = "save"
  BY <1>1, <1>3 DEF Awaited, Saving
<1>4. CASE pc[r] = "save" /\ pc'[r] # "save"
  BY <1>1, <1>4 DEF Awaited, Saving, DistinctInv
<1> QED BY <1>2, <1>3, <1>4

\* Rows are written, and none is added or gets a subscription.
LEMMA SameRecords ==
    ASSUME TypeInv, [OrderNext]_orderVars, DOMAIN customers' = DOMAIN customers,
           \A r \in Requests : ~SaveSubscription(r)
    PROVE  RecordOf' = RecordOf
<1>1. customers \in Seq(Customers) BY DEF TypeInv, OrderTypeOK
<1>2. Rows BY NextRows
<1>3. \A c \in DOMAIN customers : customers'[c].sub = customers[c].sub
  BY <1>1, <1>2 DEF Rows, Grows
<1> QED BY Zenon, <1>3 DEF RecordOf

\* A list of numbers with one more at its end.
LEMMA OneMore ==
    ASSUME NEW n \in Nat, NEW f \in [1 .. n -> Nat], NEW g \in [1 .. n + 1 -> Nat],
           \A i \in 1 .. n : g[i] = f[i]
    PROVE  Len(f) = n /\ g = Append(f, g[n + 1])
<1>1. f \in Seq(Nat) /\ Len(f) = n BY LenProperties
<1>2. g \in Seq(Nat) /\ Len(g) = n + 1 BY LenProperties
<1> DEFINE h == Append(f, g[n + 1])
<1>3. g[n + 1] \in Nat OBVIOUS
<1>4. /\ h \in Seq(Nat) /\ Len(h) = n + 1 /\ h[n + 1] = g[n + 1]
      /\ \A i \in 1 .. n : h[i] = f[i]
  BY <1>1, <1>3, AppendProperties
<1>5. \A i \in 1 .. Len(g) : g[i] = h[i] BY <1>2, <1>4
<1> HIDE DEF h
<1>6. g = h BY <1>2, <1>4, <1>5, SeqEqual
<1> QED BY <1>1, <1>6 DEF h

LEMMA QuoteAsks == ASSUME TypeInv, Quote PROVE Enrol!Ask
<1> DEFINE row == [pay |-> Price, num |-> 0, sub |-> 0, status |-> 0,
                   renewals |-> 0, cards |-> 0]
<1>1. row \in Customers /\ row.sub = 0 BY PriceAssumption DEF Customers
<1>2. customers \in Seq(Customers) /\ customers' = Append(customers, row)
  BY DEF TypeInv, OrderTypeOK, Quote
<1> HIDE DEF row
<1>3. /\ DOMAIN customers = 1 .. Len(customers) /\ Len(customers) \in Nat
      /\ DOMAIN customers' = 1 .. Len(customers) + 1
      /\ \A c \in 1 .. Len(customers) : customers'[c] = customers[c]
      /\ customers'[Len(customers) + 1] = row
  BY <1>1, <1>2
<1>t. ASSUME NEW c \in 1 .. Len(customers) PROVE customers[c].sub \in Nat
  <2>1. customers[c] \in Customers BY <1>2
  <2> QED BY <2>1 DEF Customers
<1>4. /\ RecordOf \in [1 .. Len(customers) -> Nat]
      /\ \A c \in 1 .. Len(customers) : RecordOf[c] = customers[c].sub
  BY <1>3, <1>t DEF RecordOf
<1>5. /\ RecordOf' \in [1 .. Len(customers) + 1 -> Nat]
      /\ \A c \in 1 .. Len(customers) : RecordOf'[c] = RecordOf[c]
      /\ RecordOf'[Len(customers) + 1] = 0
  <2>1. RecordOf' = [c \in 1 .. Len(customers) + 1 |-> customers'[c].sub]
    BY <1>3 DEF RecordOf
  <2>2. \A c \in 1 .. Len(customers) + 1 :
           customers'[c] = IF c = Len(customers) + 1 THEN row ELSE customers[c]
    BY <1>3
  <2> QED BY <1>1, <1>3, <1>4, <1>t, <2>1, <2>2
<1>6. RecordOf' = Append(RecordOf, 0)
  BY <1>3, <1>4, <1>5, OneMore
<1>7. UNCHANGED <<HolderOf, Awaited, thanked>>
  BY DEF Quote, HolderOf, Awaited, Saving
<1> QED BY <1>6, <1>7 DEF Enrol!Ask

LEMMA OpeningSubscribes ==
    ASSUME TypeInv, DistinctInv, NEW r \in Requests, Recurring(r) \/ RecurringLost(r),
           subscriptions' = Append(subscriptions, Opened(order[r]))
    PROVE  Enrol!Subscribe
<1> DEFINE c == order[r].customer
           o == Opened(order[r])
<1>1. /\ customers \in Seq(Customers) /\ subscriptions \in Seq(Subscriptions)
      /\ pc \in [Requests -> Steps] /\ pc[r] = "recurring" /\ order[r] \in Orders
  BY DEF TypeInv, OrderTypeOK, Recurring, RecurringLost
<1>2. c \in DOMAIN customers BY <1>1 DEF TypeInv, Running
<1>3. o \in Subscriptions /\ o.of = c BY <1>1, OpenedType DEF Opened
<1> HIDE DEF o
<1>4. /\ DOMAIN subscriptions = 1 .. Len(subscriptions) /\ Len(subscriptions) \in Nat
      /\ DOMAIN subscriptions' = 1 .. Len(subscriptions) + 1
      /\ \A s \in 1 .. Len(subscriptions) : subscriptions'[s] = subscriptions[s]
      /\ subscriptions'[Len(subscriptions) + 1] = o
  BY <1>1, <1>3 DEF o
<1>t. ASSUME NEW s \in 1 .. Len(subscriptions) PROVE subscriptions[s].of \in Nat
  <2>1. subscriptions[s] \in Subscriptions BY <1>1
  <2> QED BY <2>1 DEF Subscriptions
<1>5. /\ HolderOf \in [1 .. Len(subscriptions) -> Nat]
      /\ \A s \in 1 .. Len(subscriptions) : HolderOf[s] = subscriptions[s].of
  BY <1>4, <1>t DEF HolderOf
<1>6. /\ HolderOf' \in [1 .. Len(subscriptions) + 1 -> Nat]
      /\ \A s \in 1 .. Len(subscriptions) : HolderOf'[s] = HolderOf[s]
      /\ HolderOf'[Len(subscriptions) + 1] = c
  <2>1. HolderOf' = [s \in 1 .. Len(subscriptions) + 1 |-> subscriptions'[s].of]
    BY <1>4 DEF HolderOf
  <2>2. \A s \in 1 .. Len(subscriptions) + 1 :
           subscriptions'[s] = IF s = Len(subscriptions) + 1 THEN o ELSE subscriptions[s]
    BY <1>4
  <2>3. c \in Nat BY <1>1 DEF Orders
  <2> QED BY <1>3, <1>4, <1>5, <1>t, <2>1, <2>2, <2>3
<1>7. HolderOf' = Append(HolderOf, c) /\ Len(HolderOf) = Len(subscriptions)
  BY <1>4, <1>5, <1>6, OneMore
<1>8. OthersWait(r) BY MoversAlone DEF Step
<1>9. Awaited' \in {Awaited, Awaited \cup {Len(HolderOf) + 1}}
  <2>1. CASE pc'[r] # "save" BY <1>1, <1>8, <2>1, AwaitedMoves
  <2>2. CASE pc'[r] = "save"
    <3>1. order'[r].sub = Len(subscriptions) + 1 BY <2>2, ToSave DEF Step
    <3> QED BY <1>1, <1>7, <1>8, <2>2, <3>1, AwaitedMoves
  <2> QED BY <2>1, <2>2
<1>10. UNCHANGED <<RecordOf, thanked>> /\ DOMAIN RecordOf = DOMAIN customers
  BY DEF Recurring, RecurringLost, RecordOf
<1> HIDE DEF c
<1> QED BY <1>2, <1>7, <1>9, <1>10 DEF Enrol!Subscribe

LEMMA SaveRecords ==
    ASSUME TypeInv, OwnInv, DistinctInv, NEW r \in Requests, SaveSubscription(r)
    PROVE  Enrol!Record
<1> DEFINE c == order[r].customer
           s == order[r].sub
<1>1. /\ customers \in Seq(Customers) /\ subscriptions \in Seq(Subscriptions)
      /\ pc \in [Requests -> Steps] /\ pc[r] = "save"
  BY DEF TypeInv, OrderTypeOK, SaveSubscription
<1>2. c \in DOMAIN customers BY <1>1 DEF TypeInv, Running
<1>3. /\ s \in DOMAIN subscriptions /\ subscriptions[s].of = c
  BY <1>1 DEF TypeInv, OwnInv
<1>4. HolderOf[s] = c BY <1>3 DEF HolderOf
<1>5. customers' = [customers EXCEPT ![c].sub = s] /\ pc'[r] = "renew"
  BY <1>1 DEF SaveSubscription, Goto
<1>6. RecordOf' = [RecordOf EXCEPT ![c] = s]
  <2>1. customers[c] \in Customers BY <1>1, <1>2
  <2>2. /\ DOMAIN customers' = DOMAIN customers
        /\ \A d \in DOMAIN customers : d # c => customers'[d] = customers[d]
        /\ customers'[c].sub = s
    BY Zenon, <1>1, <1>2, <1>5, <2>1 DEF Customers
  <2> HIDE DEF c, s
  <2> QED BY Zenon, <1>2, <2>2 DEF RecordOf
<1>7. OthersWait(r) BY MoversAlone DEF Step
<1>8. s \in Awaited /\ Awaited' = Awaited \ {s} BY <1>1, <1>5, <1>7, AwaitedMoves
<1>9. UNCHANGED <<HolderOf, thanked>> BY DEF SaveSubscription, HolderOf
<1> HIDE DEF c, s
<1> QED BY Zenon, <1>4, <1>6, <1>8, <1>9 DEF Enrol!Record

LEMMA CardWelcomes ==
    ASSUME TypeInv, RecordInv, DistinctInv, NEW r \in Requests, AddCard(r), [OrderNext]_orderVars
    PROVE  Enrol!Welcome
<1> DEFINE c == order[r].customer
<1>1. /\ customers \in Seq(Customers) /\ pc \in [Requests -> Steps] /\ pc[r] = "card"
  BY DEF TypeInv, OrderTypeOK, AddCard
<1>2. c \in DOMAIN customers BY <1>1 DEF TypeInv, Running
<1>3. customers[c].sub # 0 BY <1>1 DEF RecordInv, Saved
<1>4. c \in DOMAIN RecordOf /\ RecordOf[c] # 0 BY <1>2, <1>3 DEF RecordOf
<1>5. OthersWait(r) /\ pc'[r] = "idle" BY Zenon, <1>1, MoversAlone DEF Step, AddCard, End, Goto
<1>6. \A q \in Requests : ~SaveSubscription(q)
  BY <1>1, <1>5 DEF SaveSubscription, Goto, OthersWait
<1>7. RecordOf' = RecordOf
  BY <1>1, <1>6, SameRecords DEF AddCard
<1>8. Awaited' = Awaited BY <1>1, <1>5, AwaitedMoves
<1>9. UNCHANGED HolderOf /\ thanked' = thanked \cup {c} BY DEF AddCard, HolderOf
<1> HIDE DEF c
<1> QED BY <1>4, <1>7, <1>8, <1>9 DEF Enrol!Welcome

\* Everything else is either the loss of a subscription or of no consequence.
LEMMA OtherSteps ==
    ASSUME TypeInv, DistinctInv, [OrderNext]_orderVars,
           UNCHANGED <<subscriptions, thanked>>, DOMAIN customers' = DOMAIN customers,
           \A r \in Requests : ~SaveSubscription(r)
    PROVE  Enrol!LoseTrack \/ UNCHANGED Enrol!enrolmentVars
<1>1. UNCHANGED <<RecordOf, HolderOf, thanked>> BY SameRecords DEF HolderOf
<1>2. pc \in [Requests -> Steps] BY DEF TypeInv, OrderTypeOK
<1>3. CASE Awaited' = Awaited BY <1>1, <1>3 DEF Enrol!enrolmentVars
<1>4. CASE UNCHANGED <<pc, order>>
  <2>1. Awaited' = Awaited BY <1>4 DEF Awaited, Saving
  <2> QED BY <1>3, <2>1
<1>5. ASSUME NEW r \in Requests, NEW mode \in Modes, Billing(r, Form(mode))
      PROVE  Awaited' = Awaited
  <2>1. pc[r] = "idle" /\ pc'[r] = "profile" BY <1>2, <1>5 DEF Billing, Running, Goto
  <2>2. OthersWait(r) BY <1>5, MoversAlone
  <2> QED BY <2>1, <2>2, AwaitedMoves
<1>6. ASSUME NEW r \in Requests, Step(r) \/ RecurringLost(r) \/ Abort(r)
      PROVE  Awaited' = Awaited \/ Enrol!LoseTrack
  <2>1. OthersWait(r) BY <1>6, MoversAlone
  <2>2. pc'[r] # "save"
    <3>1. SUFFICES ASSUME pc'[r] = "save" PROVE FALSE OBVIOUS
    <3>2. Recurring(r) BY <1>6, <3>1, ToSave
    <3>3. subscriptions' = Append(subscriptions, Opened(order[r]))
      BY Zenon, <1>2, <3>1, <3>2 DEF Recurring, End, Goto
    <3>4. Len(subscriptions') = Len(subscriptions) + 1
      BY Zenon, <3>2, <3>3, LedgerOpened
    <3>5. subscriptions \in Seq(Subscriptions)
      BY Zenon DEF TypeInv, OrderTypeOK
    <3>6. Len(subscriptions) \in Nat
      BY <3>5, LenProperties
    <3> QED BY <3>4, <3>6
  <2>3. CASE pc[r] # "save" BY <2>1, <2>2, <2>3, AwaitedMoves
  <2>4. CASE pc[r] = "save"
    <3>1. order[r].sub \in Awaited /\ Awaited' = Awaited \ {order[r].sub}
      BY <2>1, <2>2, <2>4, AwaitedMoves
    <3> QED BY <1>1, <3>1 DEF Enrol!LoseTrack
  <2> QED BY <2>3, <2>4
<1> QED BY <1>3, <1>4, <1>5, <1>6, WhoMoves

LEMMA StepEnrols ==
    TypeInv /\ OwnInv /\ RecordInv /\ DistinctInv /\ [OrderNext]_orderVars
        => [Enrol!EnrolmentNext]_Enrol!enrolmentVars
<1> SUFFICES ASSUME TypeInv, OwnInv, RecordInv, DistinctInv, [OrderNext]_orderVars
             PROVE  Enrol!EnrolmentNext \/ UNCHANGED Enrol!enrolmentVars
  OBVIOUS
<1> USE DEF Enrol!EnrolmentNext
<1>1. CASE Quote BY <1>1, QuoteAsks
<1>2. CASE \E r \in Requests : SaveSubscription(r) BY <1>2, SaveRecords
<1>3. CASE \E r \in Requests : AddCard(r) BY <1>3, CardWelcomes
<1>4. ASSUME NEW r \in Requests, Recurring(r) \/ RecurringLost(r), ~UNCHANGED subscriptions
      PROVE  Enrol!Subscribe
  <2>1. subscriptions' = Append(subscriptions, Opened(order[r]))
    BY <1>4 DEF Recurring, RecurringLost
  <2> QED BY <1>4, <2>1, OpeningSubscribes
<1>5. CASE /\ UNCHANGED subscriptions
           /\ ~Quote /\ \A r \in Requests : ~SaveSubscription(r) /\ ~AddCard(r)
  <2>1. thanked' = thanked
    BY Zenon, <1>5 DEF OrderNext, orderVars, Purchase, ChangeStatus, Billing, Step,
                CreateProfiles, Recurring, CreateRenewal, ValidateAccount,
                InsertAccount, SendMails, UpdateTerms, RecurringLost, Abort
  <2>2. DOMAIN customers' = DOMAIN customers
    BY Zenon, <1>5 DEF OrderNext, orderVars, Purchase, ChangeStatus, Billing, Step,
                CreateProfiles, Recurring, CreateRenewal, ValidateAccount,
                InsertAccount, SendMails, UpdateTerms, RecurringLost, Abort
  <2> QED BY Zenon, <1>5, <2>1, <2>2, OtherSteps
<1>6. UNCHANGED subscriptions \/ \E r \in Requests : Recurring(r) \/ RecurringLost(r)
  BY Zenon DEF OrderNext, orderVars, Quote, Purchase, ChangeStatus, Billing, Step,
         CreateProfiles, SaveSubscription, CreateRenewal, ValidateAccount,
         InsertAccount, SendMails, UpdateTerms, AddCard, Abort
<1> QED BY <1>1, <1>2, <1>3, <1>4, <1>5, <1>6

\* Buying on the site implements Enrolment for any number of pages, orders and
\* faults: a subscription is recorded at most once, and on the row of its own
\* customer (ImplementsEnrolment; SiteController#billing).
THEOREM OrdersImplementEnrolment == OrderSpec => ImplementsEnrolment
<1>1. OrderInit => Enrol!EnrolmentInit
  <2> SUFFICES ASSUME OrderInit PROVE Enrol!EnrolmentInit OBVIOUS
  <2>1. DOMAIN customers = {} /\ DOMAIN subscriptions = {} BY DEF OrderInit
  <2>2. RecordOf = <<>> /\ HolderOf = <<>> BY <2>1 DEF RecordOf, HolderOf
  <2>3. Awaited = {} BY DEF OrderInit, Awaited, Saving
  <2> QED BY <2>2, <2>3 DEF OrderInit, Enrol!EnrolmentInit
<1> QED
  BY <1>1, StepEnrols, TypeInvariant, OwnInvariant, RecordInvariant, DistinctInvariant, PTL
     DEF OrderSpec, ImplementsEnrolment, Enrol!EnrolmentSpec
=============================================================================
