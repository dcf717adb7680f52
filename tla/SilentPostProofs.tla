-------------------------- MODULE SilentPostProofs --------------------------
(***************************************************************************)
(* What the composition of the web order and the silent posts promises,    *)
(* for any number of orders, charges, posts and faults.  The invariants of *)
(* WebOrderProofs carry over: a step of the composition is a step of the   *)
(* order, or leaves all the order's variables but `faults` alone.          *)
(***************************************************************************)
EXTENDS SilentPost, WebOrderProofs, FiniteSetTheorems, WellFoundedInduction

-----------------------------------------------------------------------------
(* The smallest number of a set *)

LEMMA MinOf ==
    ASSUME NEW S, S \subseteq Nat, S # {}
    PROVE  Min(S) \in S /\ \A y \in S : Min(S) <= y
<1>1. PICK x \in S : \A y \in S : ~(<<y, x>> \in OpToRel(<, Nat))
  BY NatLessThanWellFounded, WFMin
<1>2. ASSUME NEW y \in S, y < x PROVE <<y, x>> \in OpToRel(<, Nat)
  <2>1. <<y, x>> \in Nat \X Nat /\ <<y, x>>[1] < <<y, x>>[2] BY <1>2
  <2> QED BY <2>1, Zenon DEF OpToRel
<1>3. \A y \in S : ~(y < x) BY <1>1, <1>2
<1>4. \A y \in S : x <= y BY <1>3
<1> QED BY <1>4 DEF Min

LEMMA MinOfOne == ASSUME NEW x \in Nat PROVE Min({x}) = x
BY DEF Min

-----------------------------------------------------------------------------
(* The order under the composition *)

LEMMA Composed ==
    ASSUME [Next]_vars PROVE [OrderNext]_orderVars \/ PostFault
BY DEF Next, vars, Order, Enter, PaymentDue, Credit, Void, Bill, BillNothing,
       Deliver, Repeat, LosePost

OrderInv == TypeInv /\ OwnInv /\ SerialInv /\ OrphanInv

\* A post that goes wrong is a fault, and nothing else, to the order.
LEMMA FaultKeepsOrder == ASSUME OrderInv, PostFault PROVE OrderInv'
<1>1. TypeInv'
  <2>1. OrderTypeOK' BY DEF OrderInv, TypeInv, OrderTypeOK, PostFault
  <2> QED BY <2>1 DEF OrderInv, TypeInv, PostFault, Running
<1>2. OwnInv' BY DEF OrderInv, OwnInv, PostFault
<1>3. SerialInv' BY DEF OrderInv, SerialInv, OneRuns, Running, PostFault
<1>4. OrphanInv' BY DEF OrderInv, OrphanInv, Known, CookieSpent, PostFault
<1> QED BY <1>1, <1>2, <1>3, <1>4 DEF OrderInv

LEMMA NextOrder == OrderInv /\ [Next]_vars => OrderInv'
<1> SUFFICES ASSUME OrderInv, [Next]_vars PROVE OrderInv' OBVIOUS
<1>1. CASE [OrderNext]_orderVars
  BY <1>1, NextType, NextOwn, NextSerial, NextOrphan DEF OrderInv
<1>2. CASE PostFault BY <1>2, FaultKeepsOrder
<1> QED BY <1>1, <1>2, Composed

\* A request forgets its subscription or keeps it; the only one it can get is
\* the next one of the gateway.
LEMMA SubsOfRequests ==
    ASSUME TypeInv, [OrderNext]_orderVars, NEW r \in Requests
    PROVE  order'[r].sub \in {0, order[r].sub, Len(subscriptions) + 1}
<1>1. order \in [Requests -> Orders] BY DEF TypeInv, OrderTypeOK
<1>2. CASE UNCHANGED order BY <1>2
<1>3. CASE \E q \in Requests, mode \in Modes : Billing(q, Form(mode))
  BY <1>1, <1>3 DEF Billing
<1>4. ASSUME NEW q \in Requests, End(q) PROVE order'[r].sub \in {0, order[r].sub}
  BY <1>1, <1>4 DEF End, NoOrder
<1>5. ASSUME NEW q \in Requests, order' = [order EXCEPT ![q].sub = Len(subscriptions) + 1]
      PROVE  order'[r].sub \in {order[r].sub, Len(subscriptions) + 1}
  BY <1>1, <1>5 DEF Orders
<1>6. ASSUME NEW q \in Requests, Step(q) \/ RecurringLost(q) \/ Abort(q)
      PROVE  \/ UNCHANGED order \/ End(q)
             \/ order' = [order EXCEPT ![q].sub = Len(subscriptions) + 1]
  BY <1>6 DEF Step, CreateProfiles, Recurring, SaveSubscription, CreateRenewal,
         ValidateAccount, InsertAccount, SendMails, UpdateTerms, AddCard, RecurringLost, Abort
<1>7. CASE \E q \in Requests : Step(q) \/ RecurringLost(q) \/ Abort(q)
  BY <1>2, <1>4, <1>5, <1>6, <1>7
<1> QED BY <1>2, <1>3, <1>7, WhoMoves

-----------------------------------------------------------------------------
(* Types, and what a charge is for *)

\* A charge is for a customer's card or for a subscription that is no longer
\* in the hands of the request that opened it.
Attributed(charge) ==
    \/ charge.invoice # 0
    \/ /\ charge.sub \in 1 .. Len(subscriptions)
       /\ \A r \in Requests : order[r].sub # charge.sub

ChargesInv ==
    /\ \A t \in 1 .. Len(ledger) : Attributed(ledger[t])
    /\ \A p \in posts : p.trans \in 1 .. Len(ledger)

TransactionRows == [trans : Nat, code : {1, 2, -1, -2, -3}, customer : Nat]

LEMMA DeduceType ==
    ASSUME OrderTypeOK, NEW charge \in Charges PROVE Deduce(charge) \in Nat
<1> DEFINE bySubscription ==
               {c \in NotDeleted : charge.sub # 0 /\ customers[c].sub = charge.sub}
           byEmail == {c \in NotDeleted : charge.email}
<1>1. NotDeleted \subseteq Nat BY DEF OrderTypeOK, NotDeleted
<1>2. bySubscription # {} => Min(bySubscription) \in Nat
  <2>1. bySubscription \subseteq Nat BY <1>1
  <2> HIDE DEF bySubscription
  <2> QED BY <2>1, MinOf
<1>3. byEmail # {} => Min(byEmail) \in Nat
  <2>1. byEmail \subseteq Nat BY <1>1
  <2> HIDE DEF byEmail
  <2> QED BY <2>1, MinOf
<1>4. charge.invoice \in Nat BY DEF Charges
<1>5. Deduce(charge) = IF charge.invoice # 0 THEN charge.invoice
                       ELSE IF bySubscription # {} THEN Min(bySubscription)
                       ELSE IF byEmail = {} THEN 0 ELSE Min(byEmail)
  BY DEF Deduce, FirstOf
<1> HIDE DEF bySubscription, byEmail
<1> QED BY <1>2, <1>3, <1>4, <1>5

LEMMA Voided ==
    ASSUME NEW row \in TransactionRows
    PROVE  [row EXCEPT !.code = -3]
             = [trans |-> row.trans, code |-> -3, customer |-> row.customer]
BY DEF TransactionRows

\* Marking changes the code of a row and nothing else.
LEMMA MarkVoidedKeeps ==
    ASSUME transactions \in Seq(TransactionRows), NEW post
    PROVE  /\ MarkVoided(post) \in Seq(TransactionRows)
           /\ Len(MarkVoided(post)) = Len(transactions)
<1> DEFINE rows == {i \in DOMAIN transactions : transactions[i].trans = post.trans}
<1>1. CASE post.type = "void" /\ rows # {}
  <2>1. DOMAIN transactions \subseteq Nat OBVIOUS
  <2>2a. rows \subseteq DOMAIN transactions OBVIOUS
  <2>2. Min(rows) \in DOMAIN transactions
    <3> HIDE DEF rows
    <3> QED BY <1>1, <2>1, <2>2a, MinOf
  <2>3. MarkVoided(post) = [transactions EXCEPT ![Min(rows)].code = -3]
    BY <1>1 DEF MarkVoided
  <2> HIDE DEF rows
  <2>4. [transactions[Min(rows)] EXCEPT !.code = -3] \in TransactionRows
    <3>1. transactions[Min(rows)] \in TransactionRows BY <2>2
    <3>2. transactions[Min(rows)].trans \in Nat /\ transactions[Min(rows)].customer \in Nat
      BY <3>1 DEF TransactionRows
    <3> QED BY <3>1, <3>2, Voided DEF TransactionRows
  <2> QED BY <2>2, <2>3, <2>4
<1>2. CASE ~(post.type = "void" /\ rows # {}) BY <1>2 DEF MarkVoided
<1> QED BY <1>1, <1>2

LEMMA RowType ==
    ASSUME TypeOK, ChargesInv, NEW post \in posts
    PROVE  [trans |-> post.trans, code |-> ResponseCode(post),
            customer |-> Deduce(ledger[post.trans])] \in TransactionRows
<1>1. post.trans \in 1 .. Len(ledger) /\ post.trans \in Nat BY DEF ChargesInv, TypeOK, Posts
<1>2. ledger[post.trans] \in Charges BY <1>1 DEF TypeOK
<1>3. Deduce(ledger[post.trans]) \in Nat BY <1>2, DeduceType DEF TypeOK
<1>4. ResponseCode(post) \in {1, 2, -1, -2} BY DEF ResponseCode
<1> HIDE DEF ChargesInv, TypeOK
<1> QED BY <1>1, <1>3, <1>4 DEF TransactionRows

\* The handler adds one row, the post's, at the end.
LEMMA RowAdded ==
    ASSUME TypeOK, ChargesInv, NEW post \in posts, SilentPost(post)
    PROVE  /\ transactions' \in Seq(TransactionRows)
           /\ Len(transactions') = Len(transactions) + 1
           /\ transactions'[Len(transactions')] =
                 [trans |-> post.trans, code |-> ResponseCode(post),
                  customer |-> Deduce(ledger[post.trans])]
           /\ \A i \in 1 .. Len(transactions) : transactions'[i] = MarkVoided(post)[i]
<1> DEFINE row == [trans |-> post.trans, code |-> ResponseCode(post),
                   customer |-> Deduce(ledger[post.trans])]
           old == MarkVoided(post)
<1>1. row \in TransactionRows BY RowType
<1>2. transactions \in Seq(TransactionRows) BY DEF TypeOK, TransactionRows
<1>3. old \in Seq(TransactionRows) /\ Len(old) = Len(transactions) BY <1>2, MarkVoidedKeeps
<1>4. transactions' = Append(old, row) BY DEF SilentPost
<1> HIDE DEF row, old
<1>5. /\ transactions' \in Seq(TransactionRows)
      /\ Len(transactions') = Len(transactions) + 1
      /\ transactions'[Len(transactions')] = row
      /\ \A i \in 1 .. Len(transactions) : transactions'[i] = old[i]
  BY <1>1, <1>3, <1>4
<1> QED BY <1>5 DEF row, old

\* Every charge the gateway can be asked for.
LEMMA ChargeTypes ==
    ASSUME NEW ok \in BOOLEAN, NEW s \in Nat
    PROVE  /\ [kind |-> "auth_capture", ok |-> ok, sub |-> s, invoice |-> 0,
               email |-> EmailKnown, voided |-> FALSE] \in Charges
           /\ CardCharge(s, ok) \in Charges
BY EmailKnownAssumption DEF Charges, CardCharge

LEMMA CreditType ==
    ASSUME NEW charge \in Charges
    PROVE  LET credit == [charge EXCEPT !.kind = "credit"]
               void == [charge EXCEPT !.voided = TRUE]
           IN  /\ credit \in Charges /\ void \in Charges
               /\ credit.kind = "credit" /\ void.kind = charge.kind
               /\ void.voided
               /\ credit.voided = charge.voided
               /\ credit.ok = charge.ok /\ void.ok = charge.ok
               /\ credit.sub = charge.sub /\ void.sub = charge.sub
               /\ credit.invoice = charge.invoice /\ void.invoice = charge.invoice
BY DEF Charges

LEMMA Entered ==
    ASSUME TypeOK, NEW charge \in Charges, Enter(charge)
    PROVE  /\ ledger' \in Seq(Charges) /\ posts' \subseteq Posts
           /\ Len(ledger') = Len(ledger) + 1 /\ ledger'[Len(ledger) + 1] = charge
           /\ \A t \in 1 .. Len(ledger) : ledger'[t] = ledger[t]
           /\ posts' = posts \cup {[trans |-> Len(ledger) + 1, type |-> charge.kind]}
<1>1. charge.kind \in {"auth_capture", "credit"} BY DEF Charges
<1>2. ledger \in Seq(Charges) /\ posts \subseteq Posts BY DEF TypeOK
<1> QED BY <1>1, <1>2 DEF Enter, Posts

\* A void marks the gateway's record of a charge, and nothing else of it.
LEMMA VoidEntered ==
    ASSUME TypeOK, NEW t \in 1 .. Len(ledger), Void(t)
    PROVE  /\ ledger' \in Seq(Charges) /\ Len(ledger') = Len(ledger)
           /\ ledger'[t] = [ledger[t] EXCEPT !.voided = TRUE]
           /\ \A u \in 1 .. Len(ledger) : u # t => ledger'[u] = ledger[u]
           /\ posts' = posts \cup {[trans |-> t, type |-> "void"]}
           /\ posts' \subseteq Posts
<1>1. ledger \in Seq(Charges) /\ posts \subseteq Posts BY DEF TypeOK
<1> DEFINE voided == [ledger[t] EXCEPT !.voided = TRUE]
<1>0. ledger[t] \in Charges BY <1>1
<1>2. voided \in Charges BY <1>0, CreditType
<1>3. ledger' = [ledger EXCEPT ![t] = voided] BY <1>1 DEF Void
<1>4. posts' = posts \cup {[trans |-> t, type |-> "void"]} BY DEF Void
<1> HIDE DEF voided
<1>5. ledger' \in Seq(Charges) /\ Len(ledger') = Len(ledger)
  BY <1>1, <1>2, <1>3
<1>6. /\ ledger'[t] = voided
      /\ \A u \in 1 .. Len(ledger) : u # t => ledger'[u] = ledger[u]
  BY <1>1, <1>3
<1>7. t \in Nat BY <1>1
<1> QED BY <1>1, <1>4, <1>5, <1>6, <1>7 DEF Posts, voided

PostInv == OrderInv /\ TypeOK /\ ChargesInv

\* Charges that are there stay attributed, whatever the order does.
LEMMA AttributedKept ==
    ASSUME PostInv, [Next]_vars, NEW t \in 1 .. Len(ledger)
    PROVE  \/ ledger[t].invoice # 0
           \/ /\ ledger[t].sub \in 1 .. Len(subscriptions')
              /\ \A r \in Requests : order'[r].sub # ledger[t].sub
<1>1. Attributed(ledger[t]) BY DEF PostInv, ChargesInv
<1>2. TypeInv BY DEF PostInv, OrderInv
<1>3. CASE [OrderNext]_orderVars
  <2>1. Ledger BY <1>2, <1>3, NextLedger
  <2>2. Len(subscriptions) \in Nat /\ Len(subscriptions') \in Nat
    BY <1>2, <2>1 DEF TypeInv, OrderTypeOK, Ledger
  <2>3. \A r \in Requests : order'[r].sub \in {0, order[r].sub, Len(subscriptions) + 1}
    BY <1>2, <1>3, SubsOfRequests
  <2> QED BY <1>1, <2>1, <2>2, <2>3 DEF Attributed, Ledger
<1>4. CASE PostFault BY <1>1, <1>4 DEF Attributed, PostFault
<1> QED BY <1>3, <1>4, Composed

\* What a step does to the gateway's books and to ours.
Quiet == UNCHANGED <<ledger, posts, transactions, orderly>>

\* One of the three ways of entering a charge.
Charging ==
    \E charge \in Charges :
        /\ Enter(charge) /\ Attributed(charge) /\ ~charge.voided
        /\ UNCHANGED <<orderVars, transactions, orderly>>

LEMMA WhatHappens ==
    ASSUME PostInv, [Next]_vars
    PROVE  \/ Quiet
           \/ Charging
           \/ \E t \in 1 .. Len(ledger) : Void(t)
           \/ \E post \in posts : Deliver(post) \/ Repeat(post) \/ LosePost(post)
<1>1. /\ customers \in Seq(Customers) /\ subscriptions \in Seq(Subscriptions)
      /\ ledger \in Seq(Charges)
  BY DEF PostInv, TypeOK, OrderTypeOK
<1>2. ASSUME NEW s \in DOMAIN subscriptions, NEW ok \in BOOLEAN, PaymentDue(s, ok)
      PROVE  Charging
  <2> DEFINE charge == [kind |-> "auth_capture", ok |-> ok, sub |-> s, invoice |-> 0,
                        email |-> EmailKnown, voided |-> FALSE]
  <2>1. s \in Nat /\ s \in 1 .. Len(subscriptions) BY <1>1
  <2>2. charge \in Charges BY <2>1, ChargeTypes
  <2>3. Attributed(charge) BY <1>2, <2>1 DEF Attributed, PaymentDue
  <2>4. Enter(charge) /\ UNCHANGED <<orderVars, transactions, orderly>>
    BY <1>2 DEF PaymentDue
  <2>5. ~charge.voided OBVIOUS
  <2> HIDE DEF charge
  <2> QED BY <2>2, <2>3, <2>4, <2>5 DEF Charging
<1>3. ASSUME NEW t \in DOMAIN ledger, Credit(t)
      PROVE  Charging
  <2> DEFINE charge == [ledger[t] EXCEPT !.kind = "credit"]
  <2>1. t \in 1 .. Len(ledger) /\ ledger[t] \in Charges BY <1>1
  <2>2. /\ charge \in Charges /\ charge.voided = ledger[t].voided
        /\ charge.sub = ledger[t].sub /\ charge.invoice = ledger[t].invoice
    BY <2>1, CreditType
  <2>3. Enter(charge) /\ ~ledger[t].voided /\ UNCHANGED <<orderVars, transactions, orderly>>
    BY <1>3 DEF Credit
  <2>4. Attributed(ledger[t]) BY <2>1 DEF PostInv, ChargesInv
  <2> HIDE DEF charge
  <2>5. Attributed(charge) BY <2>2, <2>4 DEF Attributed
  <2> QED BY <2>2, <2>3, <2>5 DEF Charging
<1>4. ASSUME NEW c \in DOMAIN customers, NEW ok \in BOOLEAN, NEW heard \in BOOLEAN,
             Bill(c, ok, heard)
      PROVE  Charging
  <2>1. c \in Nat /\ c # 0 BY <1>1
  <2>2. CardCharge(c, ok) \in Charges BY <2>1, ChargeTypes
  <2>3. Attributed(CardCharge(c, ok)) /\ ~CardCharge(c, ok).voided
    BY <2>1 DEF Attributed, CardCharge
  <2>4. Enter(CardCharge(c, ok)) /\ UNCHANGED <<orderVars, transactions, orderly>>
    BY <1>4 DEF Bill
  <2> QED BY <2>2, <2>3, <2>4 DEF Charging
<1>5. CASE Order \/ UNCHANGED vars \/ \E c \in DOMAIN customers : BillNothing(c)
  BY <1>5 DEF Order, postVars, vars, BillNothing, Quiet
<1>6. DOMAIN ledger = 1 .. Len(ledger) BY <1>1
<1> QED BY <1>2, <1>3, <1>4, <1>5, <1>6 DEF Next

LEMMA NotesType ==
    ASSUME PostInv, [Next]_vars
    PROVE  notes' \in Seq([customer : Nat, text : {"Billed", "Attempted"}])
<1>1. /\ notes \in Seq([customer : Nat, text : {"Billed", "Attempted"}])
      /\ DOMAIN customers \subseteq Nat
  BY DEF PostInv, TypeOK, OrderTypeOK
<1>2. ASSUME NEW c \in DOMAIN customers, NEW text \in {"Billed", "Attempted"},
             notes' = Append(notes, [customer |-> c, text |-> text])
      PROVE  notes' \in Seq([customer : Nat, text : {"Billed", "Attempted"}])
  BY <1>1, <1>2
<1>3. ASSUME NEW c \in DOMAIN customers, NEW ok \in BOOLEAN, NEW heard \in BOOLEAN,
             Bill(c, ok, heard)
      PROVE  notes' \in Seq([customer : Nat, text : {"Billed", "Attempted"}])
  <2>1. (IF heard /\ ok THEN "Billed" ELSE "Attempted") \in {"Billed", "Attempted"}
    OBVIOUS
  <2> QED BY <1>2, <1>3, <2>1 DEF Bill
<1>4. ASSUME NEW c \in DOMAIN customers, BillNothing(c)
      PROVE  notes' \in Seq([customer : Nat, text : {"Billed", "Attempted"}])
  BY <1>2, <1>4 DEF BillNothing
<1>5. CASE UNCHANGED notes BY <1>1, <1>5
<1> QED
  BY <1>3, <1>4, <1>5 DEF Next, vars, postVars, Order, PaymentDue, Credit, Void, Deliver,
     Repeat, LosePost

LEMMA NextPost == PostInv /\ [Next]_vars => PostInv'
<1> SUFFICES ASSUME PostInv, [Next]_vars PROVE PostInv' OBVIOUS
<1>1. OrderInv' BY NextOrder DEF PostInv
<1>2. TypeOK /\ ChargesInv BY DEF PostInv
<1>3. OrderTypeOK' BY <1>1 DEF OrderInv, TypeInv
<1>4. transactions \in Seq(TransactionRows) /\ Len(ledger) \in Nat
  BY <1>2 DEF TypeOK, TransactionRows
<1>5. \A t \in 1 .. Len(ledger) :
         \/ ledger[t].invoice # 0
         \/ /\ ledger[t].sub \in 1 .. Len(subscriptions')
            /\ \A r \in Requests : order'[r].sub # ledger[t].sub
  BY AttributedKept
<1> DEFINE Done == /\ ledger' \in Seq(Charges) /\ posts' \subseteq Posts
                   /\ transactions' \in Seq(TransactionRows)
                   /\ orderly' \in BOOLEAN
                   /\ ChargesInv'
<1>6. ASSUME Quiet PROVE Done
  BY <1>2, <1>4, <1>5, <1>6 DEF Quiet, TypeOK, ChargesInv, Attributed
<1>7. ASSUME Charging PROVE Done
  <2>1. PICK charge \in Charges : /\ Enter(charge) /\ Attributed(charge)
                                  /\ UNCHANGED <<orderVars, transactions, orderly>>
    BY <1>7 DEF Charging
  <2>2. /\ ledger' \in Seq(Charges) /\ posts' \subseteq Posts
        /\ Len(ledger') = Len(ledger) + 1 /\ ledger'[Len(ledger) + 1] = charge
        /\ \A t \in 1 .. Len(ledger) : ledger'[t] = ledger[t]
        /\ posts' = posts \cup {[trans |-> Len(ledger) + 1, type |-> charge.kind]}
    BY <1>2, <2>1, Entered
  <2>3. \A t \in 1 .. Len(ledger) : Attributed(ledger[t]) BY <1>2 DEF ChargesInv
  <2>4. \A t \in 1 .. Len(ledger') : Attributed(ledger'[t]) BY <1>4, <2>1, <2>2, <2>3
  <2>5. UNCHANGED <<subscriptions, order>> BY <2>1 DEF orderVars
  <2>6. \A t \in 1 .. Len(ledger') : Attributed(ledger[t])' BY <2>4, <2>5 DEF Attributed
  <2>7. \A p \in posts' : p.trans \in 1 .. Len(ledger')
    BY <1>2, <1>4, <2>2 DEF ChargesInv
  <2> QED BY <1>2, <1>4, <2>1, <2>2, <2>6, <2>7 DEF TypeOK, ChargesInv
<1>8. ASSUME NEW t \in 1 .. Len(ledger), Void(t) PROVE Done
  <2>1. /\ ledger' \in Seq(Charges) /\ Len(ledger') = Len(ledger)
        /\ ledger'[t] = [ledger[t] EXCEPT !.voided = TRUE]
        /\ \A u \in 1 .. Len(ledger) : u # t => ledger'[u] = ledger[u]
        /\ posts' = posts \cup {[trans |-> t, type |-> "void"]}
        /\ posts' \subseteq Posts
    BY <1>2, <1>8, VoidEntered
  <2>2. ledger[t] \in Charges BY <1>2 DEF TypeOK
  <2>3. ledger'[t].sub = ledger[t].sub /\ ledger'[t].invoice = ledger[t].invoice
    BY <2>1, <2>2, CreditType
  <2>4. \A u \in 1 .. Len(ledger) :
           ledger'[u].sub = ledger[u].sub /\ ledger'[u].invoice = ledger[u].invoice
    BY <2>1, <2>3
  <2>5. \A u \in 1 .. Len(ledger') : Attributed(ledger[u])'
    BY <1>5, <2>1, <2>4 DEF Attributed
  <2>6. \A p \in posts' : p.trans \in 1 .. Len(ledger') BY <1>2, <2>1 DEF ChargesInv
  <2>7. UNCHANGED <<transactions, orderly>> BY <1>8 DEF Void
  <2> QED BY <1>2, <1>4, <2>1, <2>5, <2>6, <2>7 DEF TypeOK, ChargesInv
<1>9. ASSUME NEW post \in posts, Deliver(post) \/ Repeat(post) \/ LosePost(post) PROVE Done
  <2>1. transactions' \in Seq(TransactionRows)
    BY <1>2, <1>4, <1>9, RowAdded DEF Deliver, Repeat, LosePost
  <2>2. UNCHANGED ledger /\ posts' \subseteq posts BY <1>9 DEF Deliver, Repeat, LosePost
  <2>3. orderly' \in BOOLEAN
    <3>1. CASE Deliver(post) BY <3>1, Zenon DEF Deliver
    <3> QED BY <1>9, <3>1 DEF Repeat, LosePost
  <2>4. ChargesInv' BY <1>2, <1>5, <2>2 DEF ChargesInv, Attributed
  <2> QED BY <1>2, <2>1, <2>2, <2>3, <2>4 DEF TypeOK
<1>10. Done BY <1>6, <1>7, <1>8, <1>9, WhatHappens
<1>11. notes' \in Seq([customer : Nat, text : {"Billed", "Attempted"}]) BY NotesType
<1> QED BY <1>1, <1>3, <1>10, <1>11 DEF PostInv, TypeOK, TransactionRows

LEMMA PostInvariant == Spec => []PostInv
<1>1. Init => PostInv
  <2> SUFFICES ASSUME Init PROVE PostInv OBVIOUS
  <2>1. OrderInit BY DEF Init
  <2>2. TypeInv BY <2>1, InitType
  <2>3. OwnInv /\ SerialInv /\ OrphanInv
    BY <2>1 DEF OrderInit, OwnInv, SerialInv, OneRuns, Running, OrphanInv, CookieSpent,
                Unsaved, NoOrder
  <2>4. TypeOK BY <2>2 DEF Init, TypeOK, TypeInv
  <2>5. ChargesInv BY DEF Init, ChargesInv
  <2> QED BY <2>2, <2>3, <2>4, <2>5 DEF PostInv, OrderInv
<1> QED BY <1>1, NextPost, PTL DEF Spec

\* Every variable has its type; the codes of the transactions table are the
\* five the application knows (authorize_silent_post, Transaction#result).
THEOREM BooksTypeCorrect == Spec => []TypeOK
BY PostInvariant, PTL DEF PostInv

\* The composition keeps the order's promise: serial orders that were not cut
\* short leave no subscription without a row.
THEOREM ComposedNoOrphan == Spec => []NoOrphanWhenSerial
<1>1. PostInv => NoOrphanWhenSerial
  BY DEF PostInv, OrderInv, TypeInv, OrderTypeOK, OrphanInv, Known, NoOrphanWhenSerial
<1> QED BY <1>1, PostInvariant, PTL

-----------------------------------------------------------------------------
(* Payments reach their owner *)

\* The subscription's own customer is the only one the lookup can find.
LEMMA DeduceFindsOwner ==
    ASSUME PostInv, ~cut, ~overlapped, NEW t \in 1 .. Len(ledger)
    PROVE  \/ Deduce(ledger[t]) = Owner(ledger[t])
           \/ ledger[t].invoice = 0 /\ customers[Owner(ledger[t])].status = Deleted
<1> DEFINE charge == ledger[t]
           s == charge.sub
           c == subscriptions[s].of
           found == {d \in NotDeleted : s # 0 /\ customers[d].sub = s}
<1>1. Attributed(charge) BY DEF PostInv, ChargesInv
<1>2. CASE charge.invoice # 0 BY <1>2 DEF Deduce, Owner
<1>3. CASE charge.invoice = 0 /\ customers[c].status # Deleted
  <2>1. s \in 1 .. Len(subscriptions) /\ \A r \in Requests : order[r].sub # s
    BY <1>1, <1>3 DEF Attributed
  <2>2. Known(s) BY <2>1 DEF PostInv, OrderInv, OrphanInv
  <2>3. customers[c].sub = s BY <2>1, <2>2 DEF Known
  <2>4. c \in 1 .. Len(customers) BY <2>1 DEF PostInv, OrderInv, TypeInv
  <2>5. DOMAIN customers = 1 .. Len(customers) /\ c \in Nat /\ s # 0
    BY <2>1, <2>4 DEF PostInv, TypeOK, OrderTypeOK
  <2>6. c \in found BY <1>3, <2>3, <2>4, <2>5 DEF NotDeleted
  <2>7. \A d \in found : d = c BY <2>5 DEF NotDeleted, PostInv, OrderInv, OwnInv
  <2>8. found = {c} BY <2>6, <2>7
  <2>9. Min(found) = c BY <2>5, <2>8, MinOfOne
  <2>10. Deduce(charge) = Min(found) BY <1>3, <2>6 DEF Deduce
  <2> QED BY <1>3, <2>9, <2>10 DEF Owner
<1> QED BY <1>2, <1>3 DEF Owner

\* Every transaction is put on the books of the customer it was charged to, as
\* long as orders are serial and not cut short (authorize_silent_post, with the
\* subscription id that SiteController#billing saved).
THEOREM PaymentsFindOwner == Spec => PaymentsReachOwner
<1> DEFINE A == Len(transactions') > Len(transactions) /\ ~cut /\ ~overlapped =>
                  LET row == transactions'[Len(transactions')]
                      charge == ledger[row.trans]
                  IN  \/ row.customer = Owner(charge)
                      \/ charge.invoice = 0 /\ customers[Owner(charge)].status = Deleted
<1>1. PostInv /\ [Next]_vars => [A]_vars
  <2> SUFFICES ASSUME PostInv, [Next]_vars, Len(transactions') > Len(transactions),
                      ~cut, ~overlapped
               PROVE  LET row == transactions'[Len(transactions')]
                          charge == ledger[row.trans]
                      IN  \/ row.customer = Owner(charge)
                          \/ charge.invoice = 0 /\ customers[Owner(charge)].status = Deleted
    OBVIOUS
  <2>1. TypeOK /\ ChargesInv /\ Len(transactions) \in Nat BY DEF PostInv, TypeOK
  <2>2. transactions' # transactions BY <2>1
  <2>3. PICK post \in posts : SilentPost(post)
    BY <2>2, WhatHappens DEF Quiet, Charging, Void, Deliver, Repeat, LosePost
  <2>4. transactions'[Len(transactions')] =
           [trans |-> post.trans, code |-> ResponseCode(post),
            customer |-> Deduce(ledger[post.trans])]
    BY <2>1, <2>3, RowAdded
  <2>5. post.trans \in 1 .. Len(ledger) BY <2>1 DEF ChargesInv
  <2> QED BY <2>4, <2>5, DeduceFindsOwner
<1> QED BY <1>1, PostInvariant, PTL DEF Spec, PaymentsReachOwner

-----------------------------------------------------------------------------
(* Once each and in order *)

Pending(t) == [trans |-> t, type |-> ledger[t].kind] \in posts
VoidPending(t) == [trans |-> t, type |-> "void"] \in posts

\* The code the row of a charge has, as far as posts have come.
CodeDue(t) ==
    IF ledger[t].voided /\ ~VoidPending(t) THEN -3
    ELSE IF ledger[t].kind = "credit" THEN -1
    ELSE IF ledger[t].ok THEN 1 ELSE 2

\* Row k is the charge's own; the others of its id are those of its voids.
Booked(t, k) ==
    /\ transactions[k].trans = t
    /\ transactions[k].code = CodeDue(t)
    /\ ledger[t].invoice # 0 => transactions[k].customer = ledger[t].invoice
    /\ \A i \in 1 .. Len(transactions) :
          transactions[i].trans = t /\ i # k => i > k /\ transactions[i].code = -2

NotBooked(t) ==
    /\ \A i \in 1 .. Len(transactions) : transactions[i].trans # t
    /\ ledger[t].voided => VoidPending(t)

InOrder(t) ==
    /\ Pending(t) => NotBooked(t)
    /\ ~Pending(t) => \E k \in 1 .. Len(transactions) : Booked(t, k)

Explained(p) ==
    \/ p.type = ledger[p.trans].kind
    \/ p.type = "void" /\ ledger[p.trans].voided

BooksInv ==
    /\ \A p \in posts : Explained(p)
    /\ \A i \in 1 .. Len(transactions) : transactions[i].trans \in 1 .. Len(ledger)
    /\ \A t \in 1 .. Len(ledger) : ledger[t].voided => ledger[t].ok
    /\ orderly => \A t \in 1 .. Len(ledger) : InOrder(t)

\* The row that a post marks: the first of its id.
RowsOf(t) == {j \in 1 .. Len(transactions) : transactions[j].trans = t}
Marks(post, i) ==
    post.type = "void" /\ RowsOf(post.trans) # {} /\ i = Min(RowsOf(post.trans))

\* What marking leaves alone.
LEMMA MarkedRows ==
    ASSUME transactions \in Seq(TransactionRows), NEW post, NEW i \in 1 .. Len(transactions)
    PROVE  /\ MarkVoided(post)[i].trans = transactions[i].trans
           /\ MarkVoided(post)[i].customer = transactions[i].customer
           /\ MarkVoided(post)[i].code = IF Marks(post, i) THEN -3 ELSE transactions[i].code
<1>0. i \in DOMAIN transactions /\ DOMAIN transactions = 1 .. Len(transactions) OBVIOUS
<1>1. CASE Marks(post, i)
  <2>1. MarkVoided(post) = [transactions EXCEPT ![i].code = -3]
    BY <1>0, <1>1 DEF MarkVoided, Marks, RowsOf
  <2>2. MarkVoided(post)[i] = [transactions[i] EXCEPT !.code = -3] BY <1>0, <2>1
  <2>3. transactions[i] \in TransactionRows BY <1>0
  <2> QED BY <1>1, <2>2, <2>3, Voided
<1>2. CASE ~Marks(post, i)
  <2>1. MarkVoided(post)[i] = transactions[i] BY <1>0, <1>2 DEF MarkVoided, Marks, RowsOf
  <2> QED BY <1>2, <2>1
<1> QED BY <1>1, <1>2

LEMMA ChargeEntered ==
    ASSUME PostInv, BooksInv, Charging PROVE BooksInv'
<1>1. PICK charge \in Charges : /\ Enter(charge) /\ ~charge.voided
                                /\ UNCHANGED <<orderVars, transactions, orderly>>
  BY DEF Charging
<1> DEFINE n == Len(ledger) + 1
<1>2. /\ ledger' \in Seq(Charges) /\ posts' \subseteq Posts
      /\ Len(ledger') = n /\ ledger'[n] = charge
      /\ \A t \in 1 .. Len(ledger) : ledger'[t] = ledger[t]
      /\ posts' = posts \cup {[trans |-> n, type |-> charge.kind]}
  BY <1>1, Entered DEF PostInv
<1>3. Len(ledger) \in Nat /\ Len(transactions) \in Nat BY DEF PostInv, TypeOK
<1>4. \A p \in posts : p.trans \in 1 .. Len(ledger) BY DEF PostInv, ChargesInv
<1>5. UNCHANGED <<transactions, orderly>> BY <1>1
<1>6. \A p \in posts' : Explained(p)'
  BY <1>2, <1>3, <1>4 DEF BooksInv, Explained
<1>7. \A i \in 1 .. Len(transactions') : transactions'[i].trans \in 1 .. Len(ledger')
  BY <1>2, <1>3, <1>5 DEF BooksInv
<1>8. \A t \in 1 .. Len(ledger') : ledger'[t].voided => ledger'[t].ok
  BY <1>1, <1>2, <1>3 DEF BooksInv
<1>9. ASSUME orderly', NEW t \in 1 .. Len(ledger') PROVE InOrder(t)'
  <2>1. CASE t = n
    <3>1. Pending(t)' BY <1>2, <2>1 DEF Pending
    <3>2. \A i \in 1 .. Len(transactions') : transactions'[i].trans # t
      BY <1>3, <1>5, <2>1 DEF BooksInv
    <3>3. ~ledger'[t].voided BY <1>1, <1>2, <2>1
    <3> QED BY <3>1, <3>2, <3>3 DEF InOrder, NotBooked
  <2>2. CASE t # n
    <3>1. t \in 1 .. Len(ledger) BY <1>2, <1>3, <2>2
    <3>2. InOrder(t) BY <1>5, <1>9, <3>1 DEF BooksInv
    <3>3. ledger'[t] = ledger[t] BY <1>2, <3>1
    <3>4. Pending(t)' <=> Pending(t) BY <1>2, <2>2, <3>3 DEF Pending
    <3>5. VoidPending(t)' <=> VoidPending(t) BY <1>2, <2>2 DEF VoidPending
    <3> QED BY <1>5, <3>2, <3>3, <3>4, <3>5 DEF InOrder, NotBooked, Booked, CodeDue
  <2> QED BY <2>1, <2>2
<1> QED BY <1>6, <1>7, <1>8, <1>9 DEF BooksInv

LEMMA VoidedInOrder ==
    ASSUME PostInv, BooksInv, NEW t \in 1 .. Len(ledger), Void(t) PROVE BooksInv'
<1>1. /\ ledger' \in Seq(Charges) /\ Len(ledger') = Len(ledger)
      /\ ledger'[t] = [ledger[t] EXCEPT !.voided = TRUE]
      /\ \A u \in 1 .. Len(ledger) : u # t => ledger'[u] = ledger[u]
      /\ posts' = posts \cup {[trans |-> t, type |-> "void"]}
  BY VoidEntered DEF PostInv
<1>2. ledger[t] \in Charges BY DEF PostInv, TypeOK
<1>3. /\ ledger'[t].kind = ledger[t].kind /\ ledger'[t].voided
      /\ ledger'[t].ok = ledger[t].ok /\ ledger'[t].invoice = ledger[t].invoice
  BY <1>1, <1>2, CreditType
<1>4. \A u \in 1 .. Len(ledger) : ledger'[u].kind = ledger[u].kind BY <1>1, <1>3
<1>5. UNCHANGED <<transactions, orderly>> /\ ledger[t].ok /\ ~ledger[t].voided BY DEF Void
<1>6. \A p \in posts' : Explained(p)'
  <2>1. ASSUME NEW p \in posts PROVE Explained(p)'
    <3>1. p.trans \in 1 .. Len(ledger) /\ Explained(p)
      BY DEF BooksInv, PostInv, ChargesInv
    <3> QED BY <1>1, <1>3, <1>4, <3>1 DEF Explained
  <2>2. Explained([trans |-> t, type |-> "void"])' BY <1>3 DEF Explained
  <2>3. \A p \in posts' : p \in posts \/ p = [trans |-> t, type |-> "void"] BY <1>1
  <2> QED BY <2>1, <2>2, <2>3, Zenon
<1>7. \A i \in 1 .. Len(transactions') : transactions'[i].trans \in 1 .. Len(ledger')
  BY <1>1, <1>5 DEF BooksInv
<1>8. \A u \in 1 .. Len(ledger') : ledger'[u].voided => ledger'[u].ok
  BY <1>1, <1>3, <1>5 DEF BooksInv
<1>9. ASSUME orderly', NEW u \in 1 .. Len(ledger') PROVE InOrder(u)'
  <2>1. InOrder(u) BY <1>1, <1>5, <1>9 DEF BooksInv
  <2>2. ledger[u].kind # "void"
    <3>1. ledger[u] \in Charges BY <1>1 DEF PostInv, TypeOK
    <3> QED BY <3>1 DEF Charges
  <2>3. Pending(u)' <=> Pending(u) BY <1>1, <1>4, <2>2 DEF Pending
  <2>4. CASE u = t
    <3>1. VoidPending(t)' BY <1>1 DEF VoidPending
    <3>2. CodeDue(t)' = CodeDue(t) BY <1>3, <1>5, <3>1 DEF CodeDue
    <3> QED BY <1>3, <1>5, <2>1, <2>3, <2>4, <3>1, <3>2 DEF InOrder, NotBooked, Booked
  <2>5. CASE u # t
    <3>1. VoidPending(u)' <=> VoidPending(u) BY <1>1, <2>5 DEF VoidPending
    <3>2. ledger'[u] = ledger[u] BY <1>1, <2>5
    <3> QED BY <1>5, <2>1, <2>3, <3>1, <3>2 DEF InOrder, NotBooked, Booked, CodeDue
  <2> QED BY <2>4, <2>5
<1> QED BY <1>6, <1>7, <1>8, <1>9 DEF BooksInv

\* What the handler does to rows: the marked one apart, it adds one at the end.
LEMMA HandledRows ==
    ASSUME PostInv, NEW post \in posts, SilentPost(post), NEW n, n = Len(transactions) + 1
    PROVE  /\ Len(transactions) \in Nat /\ Len(transactions') = n
           /\ transactions'[n].trans = post.trans
           /\ transactions'[n].code = ResponseCode(post)
           /\ transactions'[n].customer = Deduce(ledger[post.trans])
           /\ \A i \in 1 .. Len(transactions) :
                 /\ transactions'[i].trans = transactions[i].trans
                 /\ transactions'[i].customer = transactions[i].customer
                 /\ transactions'[i].code = IF Marks(post, i) THEN -3 ELSE transactions[i].code
<1>1. TypeOK /\ ChargesInv /\ transactions \in Seq(TransactionRows)
  BY DEF PostInv, TypeOK, TransactionRows
<1>2. Len(transactions) \in Nat BY <1>1
<1>3. /\ Len(transactions') = n
      /\ transactions'[n] =
            [trans |-> post.trans, code |-> ResponseCode(post),
             customer |-> Deduce(ledger[post.trans])]
      /\ \A i \in 1 .. Len(transactions) : transactions'[i] = MarkVoided(post)[i]
  BY <1>1, RowAdded
<1>4. ASSUME NEW i \in 1 .. Len(transactions)
      PROVE  /\ transactions'[i].trans = transactions[i].trans
             /\ transactions'[i].customer = transactions[i].customer
             /\ transactions'[i].code = IF Marks(post, i) THEN -3 ELSE transactions[i].code
  BY <1>1, <1>3, MarkedRows
<1> QED BY <1>2, <1>3, <1>4

\* The customer of a card charge is the one its invoice number names.
LEMMA DeduceInvoice ==
    ASSUME NEW charge, charge.invoice # 0 PROVE Deduce(charge) = charge.invoice
BY DEF Deduce

\* The first post of a charge: its row comes last, and is the only one.
LEMMA ChargePosted ==
    ASSUME PostInv, BooksInv, orderly, NEW post \in posts, Deliver(post),
           post.type # "void"
    PROVE  \E k \in 1 .. Len(transactions') : Booked(post.trans, k)'
<1> DEFINE t == post.trans
<1>0. PICK n : n = Len(transactions) + 1 OBVIOUS
<1>1. t \in 1 .. Len(ledger) /\ post \in Posts BY DEF PostInv, ChargesInv, TypeOK
<1>2. post.type = ledger[t].kind BY DEF BooksInv, Explained
<1>3. post = [trans |-> t, type |-> ledger[t].kind] BY <1>1, <1>2 DEF Posts
<1>4. Pending(t) BY <1>3 DEF Pending
<1>5. NotBooked(t) BY <1>1, <1>4 DEF BooksInv, InOrder
<1>6. SilentPost(post) /\ UNCHANGED ledger /\ posts' = posts \ {post} BY DEF Deliver
<1>7. /\ Len(transactions) \in Nat /\ Len(transactions') = n
      /\ transactions'[n].trans = t
      /\ transactions'[n].code = ResponseCode(post)
      /\ transactions'[n].customer = Deduce(ledger[t])
      /\ \A i \in 1 .. Len(transactions) : transactions'[i].trans = transactions[i].trans
  BY <1>0, <1>6, HandledRows
<1>8. VoidPending(t)' <=> VoidPending(t)
  <2>1. post # [trans |-> t, type |-> "void"] OBVIOUS
  <2> QED BY <1>6, <2>1 DEF VoidPending
<1>9. ledger[t].kind \in {"auth_capture", "credit"}
  <2>1. ledger[t] \in Charges BY <1>1 DEF PostInv, TypeOK
  <2> QED BY <2>1 DEF Charges
<1>10. CodeDue(t)' = ResponseCode(post)
  <2>1. ~(ledger[t].voided /\ ~VoidPending(t)) BY <1>5 DEF NotBooked
  <2> QED BY <1>2, <1>6, <1>8, <1>9, <2>1 DEF CodeDue, ResponseCode
<1>11. ledger'[t].invoice # 0 => transactions'[n].customer = ledger'[t].invoice
  BY <1>6, <1>7, DeduceInvoice
<1>12. \A i \in 1 .. Len(transactions') : transactions'[i].trans = t => i = n
  BY <1>0, <1>5, <1>7 DEF NotBooked
<1>13. n \in 1 .. Len(transactions') BY <1>0, <1>7
<1> HIDE DEF t
<1>14. Booked(t, n)' BY <1>7, <1>10, <1>11, <1>12 DEF Booked
<1> QED BY <1>13, <1>14 DEF t

\* The post of a void that comes after that of its charge: the charge's row is
\* the first of its id, and is the one that is marked.
LEMMA VoidPosted ==
    ASSUME PostInv, BooksInv, orderly, NEW post \in posts, Deliver(post), orderly',
           post.type = "void", NEW k \in 1 .. Len(transactions), Booked(post.trans, k),
           ledger[post.trans].voided
    PROVE  k \in 1 .. Len(transactions') /\ Booked(post.trans, k)'
<1> DEFINE t == post.trans
           rows == RowsOf(t)
<1>0. PICK n : n = Len(transactions) + 1 OBVIOUS
<1>1. SilentPost(post) /\ UNCHANGED ledger /\ posts' = posts \ {post} BY DEF Deliver
<1>2. /\ Len(transactions) \in Nat /\ Len(transactions') = n
      /\ transactions'[n].trans = t
      /\ transactions'[n].code = ResponseCode(post)
      /\ \A i \in 1 .. Len(transactions) :
            /\ transactions'[i].trans = transactions[i].trans
            /\ transactions'[i].customer = transactions[i].customer
            /\ transactions'[i].code = IF Marks(post, i) THEN -3 ELSE transactions[i].code
  BY <1>0, <1>1, HandledRows
<1>3. k \in rows /\ \A i \in rows : i # k => i > k BY DEF Booked, RowsOf
<1>4. rows \subseteq Nat BY <1>2 DEF RowsOf
<1>5. Min(rows) = k
  <2> HIDE DEF rows
  <2>1. Min(rows) \in rows /\ \A y \in rows : Min(rows) <= y BY <1>3, <1>4, MinOf
  <2>2. Min(rows) <= k /\ (Min(rows) # k => Min(rows) > k) BY <1>3, <2>1
  <2>3. Min(rows) \in Nat /\ k \in Nat BY <1>3, <1>4, <2>1
  <2> QED BY <2>2, <2>3
<1>6. transactions'[k].code = -3 BY <1>2, <1>3, <1>5 DEF Marks
<1>7. CodeDue(t)' = -3
  <2>1. post = [trans |-> t, type |-> "void"] BY DEF PostInv, TypeOK, Posts
  <2>2. ~VoidPending(t)' BY <1>1, <2>1 DEF VoidPending
  <2> QED BY <1>1, <2>2 DEF CodeDue
<1>8. transactions'[n].code = -2 BY <1>2 DEF ResponseCode
<1>9. ASSUME NEW i \in 1 .. Len(transactions'), transactions'[i].trans = t, i # k
      PROVE  i > k /\ transactions'[i].code = -2
  <2>1. CASE i = n BY <1>0, <1>2, <1>8, <2>1
  <2>2. CASE i # n
    <3>1. i \in 1 .. Len(transactions) BY <1>0, <1>2, <2>2
    <3>2. i > k /\ transactions[i].code = -2 BY <1>2, <1>9, <3>1 DEF Booked
    <3>3. transactions'[i].code = transactions[i].code BY <1>2, <1>5, <1>9, <3>1 DEF Marks
    <3> QED BY <3>2, <3>3
  <2> QED BY <2>1, <2>2
<1>10. transactions'[k].trans = t /\ transactions'[k].customer = transactions[k].customer
  BY <1>2 DEF Booked
<1>11. ledger'[t].invoice # 0 => transactions'[k].customer = ledger'[t].invoice
  BY <1>1, <1>10 DEF Booked
<1>12. k \in 1 .. Len(transactions') BY <1>0, <1>2
<1> HIDE DEF t, rows
<1>13. Booked(t, k)' BY <1>6, <1>7, <1>9, <1>10, <1>11 DEF Booked
<1> QED BY <1>12, <1>13 DEF t

\* A post leaves the rows of other charges in order.
LEMMA OthersInOrder ==
    ASSUME PostInv, BooksInv, NEW post \in posts, Deliver(post),
           NEW u \in 1 .. Len(ledger), u # post.trans, InOrder(u)
    PROVE  InOrder(u)'
<1> DEFINE t == post.trans
           rows == RowsOf(t)
<1>0. PICK n : n = Len(transactions) + 1 OBVIOUS
<1>1. SilentPost(post) /\ UNCHANGED ledger /\ posts' = posts \ {post} BY DEF Deliver
<1>2. /\ Len(transactions) \in Nat /\ Len(transactions') = n
      /\ transactions'[n].trans = t
      /\ \A i \in 1 .. Len(transactions) :
            /\ transactions'[i].trans = transactions[i].trans
            /\ transactions'[i].customer = transactions[i].customer
            /\ transactions'[i].code = IF Marks(post, i) THEN -3 ELSE transactions[i].code
  BY <1>0, <1>1, HandledRows
<1>3. rows # {} => Min(rows) \in rows
  <2>1. rows \subseteq Nat BY <1>2 DEF RowsOf
  <2> HIDE DEF rows
  <2> QED BY <2>1, MinOf
<1>4. \A i \in 1 .. Len(transactions) :
         transactions[i].trans = u => transactions'[i].code = transactions[i].code
  BY <1>2, <1>3 DEF Marks, RowsOf
<1>5. (Pending(u)' <=> Pending(u)) /\ (VoidPending(u)' <=> VoidPending(u))
  BY <1>1 DEF Pending, VoidPending
<1>6. CodeDue(u)' = CodeDue(u) BY <1>1, <1>5 DEF CodeDue
<1>7. ASSUME NEW k \in 1 .. Len(transactions), Booked(u, k)
      PROVE  k \in 1 .. Len(transactions') /\ Booked(u, k)'
  <2>1. \A i \in 1 .. Len(transactions') : transactions'[i].trans = u =>
           i \in 1 .. Len(transactions) /\ transactions[i].trans = u
    BY <1>0, <1>2
  <2>2. k \in 1 .. Len(transactions') /\ transactions'[k].trans = u
        /\ transactions'[k].customer = transactions[k].customer
    BY <1>0, <1>2, <1>7 DEF Booked
  <2>3. transactions'[k].code = CodeDue(u)' BY <1>4, <1>6, <1>7 DEF Booked
  <2> QED BY <1>1, <1>4, <1>7, <2>1, <2>2, <2>3 DEF Booked
<1>8. NotBooked(u) => NotBooked(u)' BY <1>0, <1>1, <1>2, <1>5 DEF NotBooked
<1> QED BY <1>5, <1>7, <1>8 DEF InOrder

LEMMA PostDelivered ==
    ASSUME PostInv, BooksInv, NEW post \in posts, Deliver(post) PROVE BooksInv'
<1>1. SilentPost(post) /\ UNCHANGED ledger /\ posts' = posts \ {post} BY DEF Deliver
<1>2. PICK n : n = Len(transactions) + 1 OBVIOUS
<1>3. /\ Len(transactions) \in Nat /\ Len(transactions') = n
      /\ transactions'[n].trans = post.trans
      /\ \A i \in 1 .. Len(transactions) : transactions'[i].trans = transactions[i].trans
  BY <1>1, <1>2, HandledRows
<1>4. post.trans \in 1 .. Len(ledger) BY DEF PostInv, ChargesInv
<1>5. /\ \A p \in posts' : Explained(p)'
      /\ \A t \in 1 .. Len(ledger') : ledger'[t].voided => ledger'[t].ok
  BY <1>1 DEF BooksInv, Explained
<1>6. \A i \in 1 .. Len(transactions') : transactions'[i].trans \in 1 .. Len(ledger')
  BY <1>1, <1>2, <1>3, <1>4 DEF BooksInv
<1>7. ASSUME orderly', NEW u \in 1 .. Len(ledger') PROVE InOrder(u)'
  <2>1. orderly /\ \A p \in posts :
           p.trans = post.trans => p.type = post.type \/ post.type # "void"
    BY <1>7, Zenon DEF Deliver
  <2>2. u \in 1 .. Len(ledger) /\ InOrder(u) BY <1>1, <1>7, <2>1 DEF BooksInv
  <2>3. CASE u # post.trans BY <2>2, <2>3, OthersInOrder
  <2>4. CASE u = post.trans /\ post.type # "void"
    <3>1. \E k \in 1 .. Len(transactions') : Booked(u, k)' BY <2>1, <2>4, ChargePosted
    <3>2. post \in Posts /\ post.type = ledger[u].kind
      BY <2>4 DEF PostInv, TypeOK, BooksInv, Explained
    <3>3. post = [trans |-> u, type |-> ledger[u].kind] BY <2>4, <3>2 DEF Posts
    <3>4. ~Pending(u)' BY <1>1, <3>3 DEF Pending
    <3> QED BY <3>1, <3>4 DEF InOrder
  <2>5. CASE u = post.trans /\ post.type = "void"
    <3>1. ledger[u] \in Charges BY <2>2 DEF PostInv, TypeOK
    <3>2. ledger[u].kind # "void" BY <3>1 DEF Charges
    <3>3. ~Pending(u) BY <2>1, <2>5, <3>2 DEF Pending
    <3>4. ~Pending(u)' BY <1>1, <3>3 DEF Pending
    <3>5. PICK k \in 1 .. Len(transactions) : Booked(u, k) BY <2>2, <3>3 DEF InOrder
    <3>6. ledger[u].voided BY <2>5, <3>2 DEF BooksInv, Explained
    <3>7. k \in 1 .. Len(transactions') /\ Booked(u, k)'
      BY <1>7, <2>1, <2>5, <3>5, <3>6, VoidPosted
    <3> QED BY <3>4, <3>7 DEF InOrder
  <2> QED BY <2>3, <2>4, <2>5
<1> QED BY <1>5, <1>6, <1>7 DEF BooksInv

\* Posts that go wrong: nothing is said of the order any more.
LEMMA PostWentWrong ==
    ASSUME PostInv, BooksInv, NEW post \in posts, Repeat(post) \/ LosePost(post)
    PROVE  BooksInv'
<1>1. ~orderly' /\ UNCHANGED ledger /\ posts' \subseteq posts BY DEF Repeat, LosePost
<1>2. /\ \A p \in posts' : Explained(p)'
      /\ \A t \in 1 .. Len(ledger') : ledger'[t].voided => ledger'[t].ok
  BY <1>1 DEF BooksInv, Explained
<1>3. \A i \in 1 .. Len(transactions') : transactions'[i].trans \in 1 .. Len(ledger')
  <2>1. CASE SilentPost(post)
    <3>1. PICK n : n = Len(transactions) + 1 OBVIOUS
    <3>2. /\ Len(transactions) \in Nat /\ Len(transactions') = n
          /\ transactions'[n].trans = post.trans
          /\ \A i \in 1 .. Len(transactions) : transactions'[i].trans = transactions[i].trans
      BY <2>1, <3>1, HandledRows
    <3>3. post.trans \in 1 .. Len(ledger) BY DEF PostInv, ChargesInv
    <3> QED BY <1>1, <3>1, <3>2, <3>3 DEF BooksInv
  <2>2. CASE UNCHANGED transactions BY <1>1, <2>2 DEF BooksInv
  <2> QED BY <2>1, <2>2 DEF Repeat, LosePost
<1> QED BY <1>1, <1>2, <1>3 DEF BooksInv

LEMMA NextBooks == PostInv /\ BooksInv /\ [Next]_vars => BooksInv'
<1> SUFFICES ASSUME PostInv, BooksInv, [Next]_vars PROVE BooksInv' OBVIOUS
<1>1. CASE Quiet
  BY <1>1 DEF Quiet, BooksInv, Explained, InOrder, Pending, VoidPending, NotBooked,
              Booked, CodeDue
<1> QED BY <1>1, ChargeEntered, VoidedInOrder, PostDelivered, PostWentWrong, WhatHappens

LEMMA BooksInvariant == Spec => []BooksInv
<1>1. Init => BooksInv BY DEF Init, BooksInv
<1> QED BY <1>1, NextBooks, PostInvariant, PTL DEF Spec

\* Once the posts are in, each once and in order, a charge is approved on the
\* books exactly when the gateway took the money and has not voided it
\* (authorize_silent_post and the row it marks as voided).
THEOREM ApprovedIsTaken == Spec => []ApprovedMatchesGateway
<1>1. PostInv /\ BooksInv => ApprovedMatchesGateway
  <2> SUFFICES ASSUME PostInv, BooksInv, orderly, posts = {}, NEW t \in DOMAIN ledger
               PROVE  Cardinality({i \in DOMAIN transactions :
                         transactions[i].trans = t /\ transactions[i].code = 1})
                        = IF ledger[t].kind = "auth_capture" /\ ledger[t].ok
                             /\ ~ledger[t].voided THEN 1 ELSE 0
    BY DEF ApprovedMatchesGateway
  <2> DEFINE S == {i \in DOMAIN transactions :
                     transactions[i].trans = t /\ transactions[i].code = 1}
  <2>1. /\ t \in 1 .. Len(ledger) /\ ledger[t] \in Charges
        /\ DOMAIN transactions = 1 .. Len(transactions)
    BY DEF PostInv, TypeOK
  <2>2. ~Pending(t) /\ ~VoidPending(t) BY DEF Pending, VoidPending
  <2>3. PICK k \in 1 .. Len(transactions) : Booked(t, k)
    BY <2>1, <2>2 DEF BooksInv, InOrder
  <2>4. ledger[t].kind \in {"auth_capture", "credit"} BY <2>1 DEF Charges
  <2>5. CASE ledger[t].kind = "auth_capture" /\ ledger[t].ok /\ ~ledger[t].voided
    <3>1. transactions[k].code = 1 BY <2>3, <2>5 DEF Booked, CodeDue
    <3>2. S = {k} BY <2>1, <2>3, <3>1 DEF Booked
    <3> HIDE DEF S
    <3>3. Cardinality(S) = 1 BY <3>2, FS_Singleton
    <3> QED BY <2>5, <3>3 DEF S
  <2>6. CASE ~(ledger[t].kind = "auth_capture" /\ ledger[t].ok /\ ~ledger[t].voided)
    <3>1. transactions[k].code # 1 BY <2>2, <2>3, <2>4, <2>6 DEF Booked, CodeDue
    <3>2. S = {} BY <2>1, <2>3, <3>1 DEF Booked
    <3> HIDE DEF S
    <3>3. Cardinality(S) = 0 BY <3>2, FS_EmptySet
    <3> QED BY <2>6, <3>3 DEF S
  <2> QED BY <2>5, <2>6
<1> QED BY <1>1, PostInvariant, BooksInvariant, PTL

-----------------------------------------------------------------------------
(* Notes and rows *)

BilledNotes(c) == {i \in DOMAIN notes : notes[i] = [customer |-> c, text |-> "Billed"]}

\* The card charges the gateway took from a customer.
Taken(c) ==
    {t \in 1 .. Len(ledger) : /\ ledger[t].kind = "auth_capture" /\ ledger[t].ok
                              /\ ledger[t].invoice = c}

\* The note is written after the charge, never before it.
NotesInv == \A c \in Nat : Cardinality(BilledNotes(c)) <= Cardinality(Taken(c))

LEMMA FiniteBooks ==
    ASSUME PostInv, NEW c
    PROVE  /\ IsFiniteSet(BilledNotes(c)) /\ Cardinality(BilledNotes(c)) \in Nat
           /\ IsFiniteSet(Taken(c)) /\ Cardinality(Taken(c)) \in Nat
<1>1. /\ DOMAIN notes = 1 .. Len(notes) /\ Len(notes) \in Nat /\ Len(ledger) \in Nat
  BY DEF PostInv, TypeOK
<1>2. IsFiniteSet(1 .. Len(notes)) /\ IsFiniteSet(1 .. Len(ledger)) BY <1>1, FS_Interval
<1>3. BilledNotes(c) \subseteq 1 .. Len(notes) BY <1>1 DEF BilledNotes
<1>4. Taken(c) \subseteq 1 .. Len(ledger) BY DEF Taken
<1> QED BY <1>2, <1>3, <1>4, FS_Subset, FS_CardinalityType

\* The gateway forgets no charge it took.
LEMMA TakenKept ==
    ASSUME PostInv, [Next]_vars, NEW c PROVE Taken(c) \subseteq Taken(c)'
<1>1. Len(ledger) \in Nat BY DEF PostInv, TypeOK
<1>2. CASE UNCHANGED ledger BY <1>2 DEF Taken
<1>3. CASE Charging
  <2>1. Len(ledger') = Len(ledger) + 1 /\ \A t \in 1 .. Len(ledger) : ledger'[t] = ledger[t]
    BY <1>3, Entered DEF Charging, PostInv
  <2> QED BY <1>1, <2>1 DEF Taken
<1>4. ASSUME NEW t \in 1 .. Len(ledger), Void(t) PROVE Taken(c) \subseteq Taken(c)'
  <2>1. /\ Len(ledger') = Len(ledger)
        /\ ledger'[t] = [ledger[t] EXCEPT !.voided = TRUE]
        /\ \A u \in 1 .. Len(ledger) : u # t => ledger'[u] = ledger[u]
    BY <1>4, VoidEntered DEF PostInv
  <2>2. ledger[t] \in Charges BY DEF PostInv, TypeOK
  <2>3. /\ ledger'[t].kind = ledger[t].kind /\ ledger'[t].ok = ledger[t].ok
        /\ ledger'[t].invoice = ledger[t].invoice
    BY <2>1, <2>2, CreditType
  <2> QED BY <2>1, <2>3 DEF Taken
<1> QED BY <1>2, <1>3, <1>4, WhatHappens DEF Quiet, Deliver, Repeat, LosePost

\* What a step does to the notes.
LEMMA NoteWritten ==
    ASSUME PostInv, [Next]_vars
    PROVE  \/ UNCHANGED notes
           \/ \E c \in Nat : notes' = Append(notes, [customer |-> c, text |-> "Attempted"])
           \/ \E c \in Nat : /\ c # 0 /\ Enter(CardCharge(c, TRUE))
                             /\ notes' = Append(notes, [customer |-> c, text |-> "Billed"])
<1>1. DOMAIN customers = 1 .. Len(customers) BY DEF PostInv, TypeOK, OrderTypeOK
<1>2. \A c \in DOMAIN customers : c \in Nat /\ c # 0 BY <1>1
<1>3. ASSUME NEW c \in DOMAIN customers, NEW ok \in BOOLEAN, NEW heard \in BOOLEAN,
             Bill(c, ok, heard)
      PROVE  \/ notes' = Append(notes, [customer |-> c, text |-> "Attempted"])
             \/ /\ Enter(CardCharge(c, TRUE))
                /\ notes' = Append(notes, [customer |-> c, text |-> "Billed"])
  <2>1. CASE heard /\ ok
    <3>1. ok = TRUE BY <2>1
    <3>2. notes' = Append(notes, [customer |-> c, text |-> "Billed"])
      BY <1>3, <2>1 DEF Bill
    <3> QED BY <1>3, <3>1, <3>2 DEF Bill
  <2>2. CASE ~(heard /\ ok) BY <1>3, <2>2 DEF Bill
  <2> QED BY <2>1, <2>2
<1>4. CASE \E c \in DOMAIN customers, ok, heard \in BOOLEAN : Bill(c, ok, heard)
  BY <1>2, <1>3, <1>4
<1>5. CASE \E c \in DOMAIN customers : BillNothing(c)
  BY <1>2, <1>5 DEF BillNothing
<1> QED
  BY <1>4, <1>5 DEF Next, vars, postVars, Order, PaymentDue, Credit, Void, Deliver,
     Repeat, LosePost

LEMMA NextNotes == PostInv /\ NotesInv /\ [Next]_vars => NotesInv'
<1> SUFFICES ASSUME PostInv, NotesInv, [Next]_vars, NEW c \in Nat
             PROVE  Cardinality(BilledNotes(c)') <= Cardinality(Taken(c)')
  BY DEF NotesInv
<1>1. PostInv' BY NextPost
<1>2. /\ IsFiniteSet(BilledNotes(c)) /\ Cardinality(BilledNotes(c)) \in Nat
      /\ IsFiniteSet(Taken(c)) /\ Cardinality(Taken(c)) \in Nat
  BY FiniteBooks
<1>3. IsFiniteSet(Taken(c)') /\ Cardinality(Taken(c)') \in Nat
  <2>1. Len(ledger') \in Nat BY <1>1 DEF PostInv, TypeOK
  <2>2. IsFiniteSet(1 .. Len(ledger')) BY <2>1, FS_Interval
  <2>3. Taken(c)' \subseteq 1 .. Len(ledger') BY DEF Taken
  <2> QED BY <2>2, <2>3, FS_Subset, FS_CardinalityType
<1>4. Taken(c) \subseteq Taken(c)' BY TakenKept
<1>5. Cardinality(Taken(c)) <= Cardinality(Taken(c)') BY <1>3, <1>4, FS_Subset
<1>6. Cardinality(BilledNotes(c)) <= Cardinality(Taken(c)) BY DEF NotesInv
<1>7. /\ notes \in Seq([customer : Nat, text : {"Billed", "Attempted"}])
      /\ DOMAIN notes = 1 .. Len(notes) /\ Len(notes) \in Nat
  BY DEF PostInv, TypeOK
<1>8. ASSUME BilledNotes(c)' = BilledNotes(c)
      PROVE  Cardinality(BilledNotes(c)') <= Cardinality(Taken(c)')
  BY <1>2, <1>3, <1>5, <1>6, <1>8
<1>9. CASE UNCHANGED notes BY <1>8, <1>9 DEF BilledNotes
<1>10. ASSUME NEW note \in [customer : Nat, text : {"Billed", "Attempted"}],
              note # [customer |-> c, text |-> "Billed"], notes' = Append(notes, note)
       PROVE  BilledNotes(c)' = BilledNotes(c)
  BY <1>7, <1>10 DEF BilledNotes
<1>11. ASSUME NEW d \in Nat, notes' = Append(notes, [customer |-> d, text |-> "Attempted"])
       PROVE  Cardinality(BilledNotes(c)') <= Cardinality(Taken(c)')
  <2>1. [customer |-> d, text |-> "Attempted"] # [customer |-> c, text |-> "Billed"] OBVIOUS
  <2> QED BY <1>8, <1>10, <1>11, <2>1
<1>12. ASSUME NEW d \in Nat, d # 0, Enter(CardCharge(d, TRUE)),
              notes' = Append(notes, [customer |-> d, text |-> "Billed"])
       PROVE  Cardinality(BilledNotes(c)') <= Cardinality(Taken(c)')
  <2>1. CASE d # c
    <3>1. [customer |-> d, text |-> "Billed"] # [customer |-> c, text |-> "Billed"] BY <2>1
    <3> QED BY <1>8, <1>10, <1>12, <3>1
  <2>2. CASE d = c
    <3>1. BilledNotes(c)' \subseteq BilledNotes(c) \cup {Len(notes) + 1}
      BY <1>7, <1>12, <2>2 DEF BilledNotes
    <3>2. /\ IsFiniteSet(BilledNotes(c) \cup {Len(notes) + 1})
          /\ Cardinality(BilledNotes(c) \cup {Len(notes) + 1}) = Cardinality(BilledNotes(c)) + 1
      <4>1. Len(notes) + 1 \notin BilledNotes(c) BY <1>7 DEF BilledNotes
      <4> QED BY <1>2, <4>1, FS_AddElement
    <3>3. IsFiniteSet(BilledNotes(c)') /\ Cardinality(BilledNotes(c)') \in Nat
          /\ Cardinality(BilledNotes(c)') <= Cardinality(BilledNotes(c) \cup {Len(notes) + 1})
      BY <3>1, <3>2, FS_Subset, FS_CardinalityType
    <3>4. Cardinality(BilledNotes(c) \cup {Len(notes) + 1}) \in Nat
      BY <3>2, FS_CardinalityType
    <3>5. CardCharge(c, TRUE) \in Charges BY ChargeTypes
    <3>6. Len(ledger) \in Nat BY DEF PostInv, TypeOK
    <3>7. Len(ledger') = Len(ledger) + 1 /\ ledger'[Len(ledger) + 1] = CardCharge(c, TRUE)
      BY <1>12, <2>2, <3>5, Entered DEF PostInv
    <3>8. Taken(c) \cup {Len(ledger) + 1} \subseteq Taken(c)'
      <4>1. /\ CardCharge(c, TRUE).kind = "auth_capture" /\ CardCharge(c, TRUE).ok
            /\ CardCharge(c, TRUE).invoice = c
        BY DEF CardCharge
      <4>2. Len(ledger) + 1 \in 1 .. Len(ledger') BY <3>6, <3>7
      <4>3. Len(ledger) + 1 \in Taken(c)' BY <3>7, <4>1, <4>2, Zenon DEF Taken
      <4> QED BY <1>4, <4>3
    <3>9. Len(ledger) + 1 \notin Taken(c) BY <3>6 DEF Taken
    <3>10. Cardinality(Taken(c) \cup {Len(ledger) + 1}) = Cardinality(Taken(c)) + 1
      BY <1>2, <3>9, FS_AddElement
    <3>11. Cardinality(Taken(c) \cup {Len(ledger) + 1}) <= Cardinality(Taken(c)')
      BY <1>3, <3>8, FS_Subset
    <3> QED BY <1>2, <1>3, <1>6, <3>2, <3>3, <3>4, <3>10, <3>11
  <2> QED BY <2>1, <2>2
<1> QED BY <1>9, <1>11, <1>12, NoteWritten

LEMMA NotesInvariant == Spec => []NotesInv
<1>1. Init => NotesInv
  <2> SUFFICES ASSUME Init, NEW c \in Nat
               PROVE  Cardinality(BilledNotes(c)) <= Cardinality(Taken(c))
    BY DEF NotesInv
  <2>1. BilledNotes(c) = {} /\ Taken(c) = {} BY DEF Init, BilledNotes, Taken
  <2> QED BY <2>1, FS_EmptySet
<1> QED BY <1>1, NextNotes, PostInvariant, PTL DEF Spec

\* No note claims a charge the books will not have: every charge taken has a
\* row of its own, of the customer the invoice number names
\* (CreditCardsController#bill, authorize_silent_post).
THEOREM BilledIsBooked == Spec => []BilledIsOnTheBooks
<1>1. PostInv /\ BooksInv /\ NotesInv => BilledIsOnTheBooks
  <2> SUFFICES ASSUME PostInv, BooksInv, NotesInv, orderly, posts = {},
                      NEW c \in DOMAIN customers
               PROVE  Cardinality(BilledNotes(c))
                        <= Cardinality({i \in DOMAIN transactions :
                              /\ transactions[i].customer = c
                              /\ transactions[i].code \in {1, -3}
                              /\ ledger[transactions[i].trans].invoice = c})
    BY DEF BilledIsOnTheBooks, BilledNotes
  <2> DEFINE S == {i \in DOMAIN transactions :
                     /\ transactions[i].customer = c
                     /\ transactions[i].code \in {1, -3}
                     /\ ledger[transactions[i].trans].invoice = c}
             f == [t \in Taken(c) |-> CHOOSE k \in 1 .. Len(transactions) : Booked(t, k)]
  <2>1. /\ DOMAIN transactions = 1 .. Len(transactions) /\ Len(transactions) \in Nat
        /\ c \in Nat /\ c # 0
    BY DEF PostInv, TypeOK, OrderTypeOK
  <2>2. ASSUME NEW t \in Taken(c)
        PROVE  f[t] \in S /\ transactions[f[t]].trans = t
    <3>1. /\ t \in 1 .. Len(ledger) /\ ledger[t].kind = "auth_capture" /\ ledger[t].ok
          /\ ledger[t].invoice = c
      BY DEF Taken
    <3>2. ~Pending(t) BY DEF Pending
    <3>3. \E k \in 1 .. Len(transactions) : Booked(t, k)
      BY <3>1, <3>2 DEF BooksInv, InOrder
    <3>4. f[t] \in 1 .. Len(transactions) /\ Booked(t, f[t]) BY <3>3
    <3> HIDE DEF f
    <3>5. transactions[f[t]].code \in {1, -3} BY <3>1, <3>4 DEF Booked, CodeDue
    <3>6. transactions[f[t]].trans = t /\ transactions[f[t]].customer = c
      BY <2>1, <3>1, <3>4 DEF Booked
    <3> QED BY <2>1, <3>1, <3>4, <3>5, <3>6
  <2>3. f \in [Taken(c) -> S] BY <2>2
  <2>4. IsFiniteSet(S)
    <3>1. IsFiniteSet(1 .. Len(transactions)) BY <2>1, FS_Interval
    <3>2. S \subseteq 1 .. Len(transactions) BY <2>1
    <3> HIDE DEF S
    <3> QED BY <3>1, <3>2, FS_Subset
  <2> HIDE DEF S, f
  <2>5. f \in Injection(Taken(c), S) BY <2>2, <2>3 DEF Injection, IsInjective
  <2>6. Cardinality(Taken(c)) <= Cardinality(S) BY <2>4, <2>5, FS_Injection
  <2>7. Cardinality(BilledNotes(c)) <= Cardinality(Taken(c)) BY <2>1 DEF NotesInv
  <2>8. /\ Cardinality(BilledNotes(c)) \in Nat /\ Cardinality(Taken(c)) \in Nat
        /\ Cardinality(S) \in Nat
    BY <2>4, FiniteBooks, FS_CardinalityType
  <2>9. Cardinality(BilledNotes(c)) <= Cardinality(S) BY <2>6, <2>7, <2>8
  <2> QED BY <2>9 DEF S
<1> QED BY <1>1, PostInvariant, BooksInvariant, NotesInvariant, PTL
=============================================================================
