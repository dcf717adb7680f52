-------------------------- MODULE GatewayBooksProofs ------------------------
(***************************************************************************)
(* NmiBilling implements GatewayBooks, for any number of requests and any  *)
(* amounts.                                                                *)
(***************************************************************************)
EXTENDS NmiBillingProofs, TLAPS

-----------------------------------------------------------------------------
(* The two books: what a request may count on when it calls the gateway or *)
(* writes, so that its step is one of GatewayBooks.                        *)

BooksInvOf(r) ==
    /\ pc[r] \in {"sale", "refund"} => req[r].amount \in Amounts
    /\ pc[r] \in {"idle", "sale"} => vault[r] = "none"
    /\ pc[r] = "subscription" => vault[r] = IF answer[r] = "1" THEN "active" ELSE "none"
    /\ pc[r] \in {"idle", "refund", "cancel"} => subStatus[r] = "none"
    /\ subStatus[r] # "none" => subStatus[r] = Status(answer[r])
    /\ txn[r] \notin {"none", "1"} => captured[r] = 0
    /\ pc[r] = "refund" => txn[req[r].target] # "none"
    /\ pc[r] = "saveRefund" => txn[req[r].target] = "1"
    /\ pc[r] \in {"cancel", "saveCancel"} => subStatus[req[r].target] # "none"

BooksInv == \A r \in Requests : BooksInvOf(r)

LEMMA StartBooks ==
    ASSUME TypeOK, BooksInv, NEW r \in Requests, Start(r)
    PROVE  BooksInv'
<1>1. PICK p, entry : Starts(r, p, entry)
    BY StartStarts
<1>2. /\ pc[r] = "idle" /\ pc'[r] = entry /\ req'[r] = p
      /\ UNCHANGED <<answer, vault, captured, subStatus, txn>>
      /\ \A o \in Requests \ {r} : pc'[o] = pc[o] /\ req'[o] = req[o]
      /\ entry \in {"sale", "refund", "cancel", "note", "done", "aborted"}
    BY <1>1 DEF Starts, Call, TypeOK, gateway, tables
<1>3. /\ entry \in {"sale", "refund"} => p.amount \in Amounts
      /\ entry = "refund" => txn[p.target] # "none"
      /\ entry = "cancel" => subStatus[p.target] # "none"
    BY <1>1 DEF Starts
<1> QED
    BY <1>2, <1>3 DEF BooksInv, BooksInvOf

\* What the invariants say of a request at each step.
LEMMA AtStep ==
    ASSUME TypeOK, ChargeInv, CancelInv, BooksInv, NEW r \in Requests
    PROVE  /\ req[r].target \in Requests /\ req[r].amount \in Nat
           /\ pc[r] = "sale" =>
                 /\ captured[r] = 0 /\ vault[r] = "none" /\ txn[r] = "none"
                 /\ subStatus[r] = "none" /\ answer[r] = "0"
                 /\ req[r].amount \in Amounts \ {0}
           /\ pc[r] = "subscription" => subStatus[r] = "none"
           /\ pc[r] = "transaction" =>
                 /\ txn[r] = "none"
                 /\ captured[r] = IF answer[r] = "1" THEN req[r].amount ELSE 0
                 /\ answer[r] = "1" => captured[r] > 0
           /\ txn[r] = "1" => captured[r] = req[r].amount /\ captured[r] > 0
           /\ txn[r] # "none" /\ captured[r] > 0 => txn[r] = "1"
           /\ pc[r] = "cancel" => subStatus[req[r].target] # "none"
           /\ pc[r] = "cancel" /\ req[r].kind = "del_subscription" =>
                 txn[req[r].target] = "1"
<1>1. req[r].target \in Requests /\ req[r].amount \in Nat /\ captured[r] \in Nat
    BY DEF TypeOK
<1>2. ChargeInvOf(r) /\ CancelInvOf(r) /\ BooksInvOf(r)
    BY DEF ChargeInv, CancelInv, BooksInv
<1>3. txn[r] = "1" => captured[r] = req[r].amount /\ captured[r] > 0
    BY DEF ChargeInv, ApprovedIsCaptured
<1>4. pc[r] \in {"sale", "transaction"} => req[r].kind \in ChargeKinds /\ req[r].amount > 0
    BY <1>2 DEF ChargeInvOf
<1>5. pc[r] = "sale" => /\ captured[r] = 0 /\ vault[r] = "none" /\ txn[r] = "none"
                        /\ subStatus[r] = "none" /\ answer[r] = "0"
                        /\ req[r].amount \in Amounts
    BY <1>2 DEF ChargeInvOf, BooksInvOf
<1>6. pc[r] = "transaction" =>
          /\ txn[r] = "none"
          /\ answer[r] = "1" => captured[r] = req[r].amount /\ captured[r] > 0
          /\ answer[r] # "1" => captured[r] = 0
    BY <1>2, <1>4 DEF ChargeInvOf, CancelInvOf
<1> QED
    BY <1>1, <1>2, <1>3, <1>4, <1>5, <1>6 DEF CancelInvOf, BooksInvOf

\* The subscription and the rows of a request that is still about to write
\* them are nobody else's business.
LEMMA SaleBooks ==
    ASSUME TypeOK, ChargeInv, CancelInv, BooksInv, NEW r \in Requests, doSale(r)
    PROVE  BooksInv'
<1>1. PICK response \in Responses, delivered \in BOOLEAN :
          /\ captured' = [captured EXCEPT ![r] = IF response = "1" THEN req[r].amount ELSE @]
          /\ vault' = [vault EXCEPT ![r] = IF response = "1" /\ req[r].kind \in SubscriptionKinds
                                           THEN "active" ELSE @]
          /\ Answered(r, response, delivered,
                      IF req[r].kind \in SubscriptionKinds THEN "subscription" ELSE "transaction")
    BY DEF doSale
<1>2. /\ pc[r] = "sale" /\ vault[r] = "none" /\ txn[r] = "none" /\ subStatus[r] = "none"
    BY AtStep DEF doSale
<1>3. /\ UNCHANGED <<req, subStatus, txn>>
      /\ \A o \in Requests \ {r} : /\ pc'[o] = pc[o] /\ answer'[o] = answer[o]
                                   /\ captured'[o] = captured[o] /\ vault'[o] = vault[o]
      /\ pc'[r] \in {"subscription", "transaction", "aborted"}
      /\ pc'[r] = "subscription" =>
            /\ answer'[r] = response
            /\ vault'[r] = IF response = "1" THEN "active" ELSE "none"
    BY <1>1, <1>2 DEF Answered, TypeOK, tables
<1> QED
    BY <1>2, <1>3 DEF BooksInv, BooksInvOf

LEMMA RefundBooks ==
    ASSUME TypeOK, ChargeInv, CancelInv, BooksInv, NEW r \in Requests, doRefund(r)
    PROVE  BooksInv'
<1>1. PICK response \in Responses, delivered \in BOOLEAN :
          /\ response = "1" => captured[req[r].target] > 0
          /\ Answered(r, response, delivered, IF response = "1" THEN "saveRefund" ELSE "note")
    BY DEF doRefund
<1>2. /\ pc[r] = "refund" /\ req[r].target \in Requests /\ UNCHANGED <<captured, vault>>
      /\ subStatus[r] = "none" /\ txn[req[r].target] # "none"
    BY DEF doRefund, BooksInv, BooksInvOf, TypeOK
<1>3. response = "1" => txn[req[r].target] = "1"
    BY <1>1, <1>2, AtStep
<1>4. /\ UNCHANGED <<req, subStatus, txn>>
      /\ \A o \in Requests \ {r} : pc'[o] = pc[o] /\ answer'[o] = answer[o]
      /\ pc'[r] \in {"saveRefund", "note", "aborted"}
      /\ pc'[r] = "saveRefund" => response = "1"
    BY <1>1 DEF Answered, TypeOK, tables
<1> QED
    BY <1>2, <1>3, <1>4 DEF BooksInv, BooksInvOf

LEMMA CancelBooks ==
    ASSUME TypeOK, ChargeInv, CancelInv, BooksInv, NEW r \in Requests, cancelSubscription(r)
    PROVE  BooksInv'
<1> DEFINE t == req[r].target
<1>1. PICK response \in Responses, delivered \in BOOLEAN :
          /\ vault' = [vault EXCEPT ![t] = IF response = "1" /\ req[r].kind = "del_subscription"
                                           THEN "deleted" ELSE @]
          /\ Answered(r, response, delivered, IF response = "1" THEN "saveCancel" ELSE "note")
    BY DEF cancelSubscription
<1>2. /\ pc[r] = "cancel" /\ t \in Requests /\ captured' = captured
      /\ subStatus[r] = "none" /\ subStatus[t] # "none"
    BY AtStep DEF cancelSubscription, BooksInv, BooksInvOf
<1>3. pc[t] \notin {"idle", "sale", "subscription"}
    BY <1>2 DEF CancelInv, CancelInvOf
<1>4. /\ UNCHANGED <<req, subStatus, txn>>
      /\ \A o \in Requests \ {r} : pc'[o] = pc[o] /\ answer'[o] = answer[o]
      /\ \A o \in Requests \ {t} : vault'[o] = vault[o]
      /\ pc'[r] \in {"saveCancel", "note", "aborted"}
    BY <1>1 DEF Answered, TypeOK, tables
<1> HIDE DEF t
<1>5. \A o \in Requests : pc'[o] \in {"idle", "sale", "subscription"} =>
                             o \notin {r, t} /\ vault'[o] = vault[o]
    BY <1>2, <1>3, <1>4
<1> QED
    BY <1>2, <1>4, <1>5 DEF BooksInv, BooksInvOf, t

LEMMA SaveBooks ==
    ASSUME TypeOK, ChargeInv, CancelInv, BooksInv, NEW r \in Requests,
           \/ SaveSubscription(r) \/ SaveTransaction(r) \/ SaveRefund(r)
           \/ SaveCancel(r) \/ SaveNote(r) \/ Abort(r)
    PROVE  BooksInv'
<1>1. /\ UNCHANGED <<req, answer, captured, vault>>
      /\ \A o \in Requests \ {r} : pc'[o] = pc[o]
      /\ pc'[r] \in {"transaction", "note", "done", "aborted"}
    BY DEF SaveSubscription, SaveTransaction, SaveRefund, SaveCancel, SaveNote, Abort,
           TypeOK, gateway
<1>t. \A o \in Requests : req[o].target \in Requests
    BY DEF TypeOK
<1>2. CASE SaveSubscription(r)
  <2>1. /\ \A o \in Requests \ {r} : subStatus'[o] = subStatus[o]
        /\ subStatus'[r] = Status(answer[r]) /\ txn' = txn
      BY <1>2 DEF SaveSubscription, TypeOK
  <2>2. Status(answer[r]) # "none"
      BY DEF Status
  <2> QED
      BY <1>1, <1>t, <2>1, <2>2 DEF BooksInv, BooksInvOf
<1>3. CASE SaveTransaction(r)
  <2>1. /\ \A o \in Requests \ {r} : txn'[o] = txn[o]
        /\ txn'[r] = answer[r] /\ subStatus' = subStatus
        /\ pc[r] = "transaction"
      BY <1>3 DEF SaveTransaction, TypeOK
  <2>2. txn[r] = "none" /\ (answer[r] # "1" => captured[r] = 0) /\ answer[r] # "none"
      BY <2>1, AtStep DEF TypeOK, Responses
  <2> QED
      BY <1>1, <1>t, <2>1, <2>2 DEF BooksInv, BooksInvOf
<1>4. CASE SaveRefund(r) \/ SaveCancel(r) \/ SaveNote(r) \/ Abort(r)
  <2>1. UNCHANGED <<subStatus, txn>>
      BY <1>4 DEF SaveRefund, SaveCancel, SaveNote, Abort, tables
  <2> QED
      BY <1>1, <2>1 DEF BooksInv, BooksInvOf
<1> QED
    BY <1>2, <1>3, <1>4

LEMMA NextBooks == TypeOK /\ ChargeInv /\ CancelInv /\ BooksInv /\ [Next]_vars => BooksInv'
<1> SUFFICES ASSUME TypeOK, ChargeInv, CancelInv, BooksInv, [Next]_vars PROVE BooksInv'
    OBVIOUS
<1>1. CASE UNCHANGED vars
    BY <1>1 DEF BooksInv, BooksInvOf, vars, gateway, tables
<1>2. ASSUME NEW r \in Requests, Start(r) \/ Continue(r) \/ Abort(r) PROVE BooksInv'
    BY <1>2, StartBooks, SaleBooks, RefundBooks, CancelBooks, SaveBooks DEF Continue
<1> QED
    BY <1>1, <1>2 DEF Next, Quiescent

LEMMA BooksInvariant == Spec => []BooksInv
<1>1. Init => BooksInv
    BY DEF Init, BooksInv, BooksInvOf
<1> QED
    BY <1>1, NextBooks, TypeCorrect, ChargeInvariant, CancelInvariant, PTL DEF Spec

\* The refinement, one step of a request at a time.

LEMMA StartHidden ==
    ASSUME TypeOK, ChargeInv, NEW r \in Requests, Start(r)
    PROVE  UNCHANGED Books!bookVars
<1>1. PICK p, entry : Starts(r, p, entry)
    BY StartStarts
<1>2. /\ pc[r] = "idle" /\ \A o \in Requests \ {r} : req'[o] = req[o]
      /\ UNCHANGED <<captured, refunded, vault, subStatus, cancelled, txn, refund>>
    BY <1>1 DEF Starts, Call, TypeOK, gateway, tables
<1>3. txn[r] = "none"
    BY <1>2 DEF ChargeInv, ChargeInvOf
<1>4. Booked' = Booked
    BY <1>2, <1>3 DEF Booked
<1> QED
    BY <1>2, <1>4 DEF Books!bookVars, Books!gatewayBooks, Books!officeBooks

LEMMA SaleTakes ==
    ASSUME TypeOK, ChargeInv, CancelInv, BooksInv, NEW r \in Requests, doSale(r)
    PROVE  Books!Take(r) \/ UNCHANGED Books!bookVars
<1>1. PICK response \in Responses, delivered \in BOOLEAN :
          /\ captured' = [captured EXCEPT ![r] = IF response = "1" THEN req[r].amount ELSE @]
          /\ vault' = [vault EXCEPT ![r] = IF response = "1" /\ req[r].kind \in SubscriptionKinds
                                           THEN "active" ELSE @]
          /\ UNCHANGED <<req, tables>>
    BY DEF doSale, Answered
<1>2. /\ captured[r] = 0 /\ vault[r] = "none" /\ txn[r] = "none" /\ subStatus[r] = "none"
      /\ req[r].amount \in Amounts \ {0}
    BY AtStep DEF doSale
<1>3. /\ UNCHANGED <<refunded, subStatus, cancelled, refund>>
      /\ Booked' = Booked /\ Booked[r] = 0
    BY <1>1, <1>2 DEF doSale, tables, Booked
<1>4. CASE response = "1"
  <2>1. vault' \in {vault, [vault EXCEPT ![r] = "active"]}
      BY <1>1 DEF TypeOK
  <2>2. captured' = [captured EXCEPT ![r] = req[r].amount]
      BY <1>1, <1>4
  <2> QED
      BY <1>2, <1>3, <2>1, <2>2 DEF Books!Take, Books!officeBooks
<1>5. CASE response # "1"
  <2>1. captured' = captured /\ vault' = vault
      BY <1>1, <1>5 DEF TypeOK
  <2> QED
      BY <1>3, <2>1 DEF Books!bookVars, Books!gatewayBooks, Books!officeBooks
<1> QED
    BY <1>4, <1>5

LEMMA RefundGives ==
    ASSUME TypeOK, ChargeInv, CancelInv, BooksInv, NEW r \in Requests, doRefund(r)
    PROVE  Books!Give(req[r].target) \/ UNCHANGED Books!bookVars
<1> DEFINE t == req[r].target
<1>1. PICK response \in Responses :
          /\ response = "1" => captured[t] > 0
          /\ refunded' = [refunded EXCEPT ![t] = IF response = "1" THEN @ + req[r].amount ELSE @]
          /\ UNCHANGED <<req, tables, captured, vault>>
    BY DEF doRefund, Answered
<1>2. t \in Requests /\ txn[t] # "none" /\ req[r].amount \in Amounts
    BY DEF doRefund, BooksInv, BooksInvOf, TypeOK
<1>3. UNCHANGED <<subStatus, cancelled, refund>> /\ Booked' = Booked
    BY <1>1 DEF tables, Booked
<1>4. CASE response = "1"
  <2>1. Booked[t] > 0
      BY <1>1, <1>2, <1>4, AtStep DEF Booked
  <2> HIDE DEF t
  <2> QED
      BY <1>1, <1>2, <1>3, <1>4, <2>1 DEF Books!Give, Books!officeBooks, t
<1>5. CASE response # "1"
  <2>1. refunded' = refunded
      BY <1>1, <1>5 DEF TypeOK
  <2> QED
      BY <1>1, <1>3, <2>1 DEF Books!bookVars, Books!gatewayBooks, Books!officeBooks
<1> QED
    BY <1>4, <1>5

LEMMA CancelStops ==
    ASSUME TypeOK, ChargeInv, CancelInv, BooksInv, NEW r \in Requests, cancelSubscription(r)
    PROVE  Books!Stop(req[r].target) \/ UNCHANGED Books!bookVars
<1> DEFINE t == req[r].target
<1>1. PICK response \in Responses :
          /\ vault' = [vault EXCEPT ![t] = IF response = "1" /\ req[r].kind = "del_subscription"
                                           THEN "deleted" ELSE @]
          /\ UNCHANGED <<req, tables, captured, refunded>>
    BY DEF cancelSubscription, Answered
<1>2. UNCHANGED <<subStatus, cancelled, refund>> /\ Booked' = Booked
    BY <1>1 DEF tables, Booked
<1>3. CASE vault' = vault
    BY <1>1, <1>2, <1>3 DEF Books!bookVars, Books!gatewayBooks, Books!officeBooks
<1>4. CASE vault' # vault
  <2>1. response = "1" /\ req[r].kind = "del_subscription" /\ vault[t] # "deleted"
      BY <1>1, <1>4 DEF TypeOK
  <2>2. t \in Requests /\ subStatus[t] # "none" /\ txn[t] = "1"
      BY <2>1, AtStep DEF cancelSubscription
  <2>3. answer[t] = "1" /\ subStatus[t] = Status(answer[t])
      BY <2>2 DEF ChargeInv, ChargeInvOf, BooksInv, BooksInvOf
  <2>4. subStatus[t] = "Approved"
      BY <2>3 DEF Status
  <2>5. vault[t] = "active"
      BY <2>1, <2>2, <2>4 DEF ChargeInv, ApprovedIsCaptured, TypeOK
  <2>6. Booked[t] > 0
      BY <2>2, AtStep DEF Booked
  <2>7. vault' = [vault EXCEPT ![t] = "deleted"]
      BY <1>1, <2>1
  <2> QED
      BY <1>1, <1>2, <2>4, <2>5, <2>6, <2>7 DEF Books!Stop, Books!officeBooks
<1> QED
    BY <1>3, <1>4

LEMMA SaveWrites ==
    ASSUME TypeOK, ChargeInv, CancelInv, BooksInv, RefundInv, NEW r \in Requests,
           \/ SaveSubscription(r) \/ SaveTransaction(r) \/ SaveRefund(r)
           \/ SaveCancel(r) \/ SaveNote(r) \/ Abort(r)
    PROVE  Books!BooksNext \/ UNCHANGED Books!bookVars
<1>0. UNCHANGED <<req, captured, refunded, vault>>
    BY DEF SaveSubscription, SaveTransaction, SaveRefund, SaveCancel, SaveNote, Abort, gateway
<1>t. req[r].target \in Requests /\ req[r].amount \in Nat
    BY DEF TypeOK
<1>1. CASE SaveSubscription(r)
  <2>1. /\ pc[r] = "subscription" /\ subStatus' = [subStatus EXCEPT ![r] = Status(answer[r])]
        /\ UNCHANGED <<cancelled, txn, refund>>
      BY <1>1 DEF SaveSubscription
  <2>2. subStatus[r] = "none"
      BY <2>1, AtStep
  <2>3. vault[r] = IF answer[r] = "1" THEN "active" ELSE "none"
      BY <2>1 DEF BooksInv, BooksInvOf
  <2>4. Status(answer[r]) \in IF vault[r] = "active" THEN {"Approved"} ELSE {"Declined", "Error"}
      BY <2>3 DEF Status
  <2>5. Booked' = Booked
      BY <1>0, <2>1 DEF Booked
  <2>6. Books!List(r)
      BY <1>0, <2>1, <2>2, <2>4, <2>5 DEF Books!List, Books!gatewayBooks
  <2> QED
      BY <2>6 DEF Books!BooksNext
<1>2. CASE SaveTransaction(r)
  <2>1. /\ pc[r] = "transaction" /\ txn' = [txn EXCEPT ![r] = answer[r]]
        /\ UNCHANGED <<subStatus, cancelled, refund>>
      BY <1>2 DEF SaveTransaction
  <2>2. /\ txn[r] = "none"
        /\ answer[r] = "1" => captured[r] = req[r].amount /\ captured[r] > 0
      BY <2>1, AtStep
  <2>3. Booked' = [Booked EXCEPT ![r] = IF answer[r] = "1" THEN req[r].amount ELSE 0]
      BY <1>0, <2>1 DEF Booked, TypeOK
  <2>4. Booked[r] = 0
      BY <2>2 DEF Booked
  <2>5. CASE answer[r] = "1"
    <3>1. Books!Book(r)
        BY <1>0, <2>1, <2>2, <2>3, <2>4, <2>5 DEF Books!Book, Books!gatewayBooks
    <3> QED
        BY <3>1 DEF Books!BooksNext
  <2>6. CASE answer[r] # "1"
    <3>1. Booked' = Booked
        BY <2>3, <2>4, <2>6 DEF Booked
    <3> QED
        BY <1>0, <2>1, <3>1 DEF Books!bookVars, Books!gatewayBooks, Books!officeBooks
  <2> QED
      BY <2>5, <2>6
<1>3. CASE SaveRefund(r)
  <2> DEFINE t == req[r].target
             a == loaded[r] + req[r].amount
  <2>1. /\ pc[r] = "saveRefund"
        /\ refund' = [refund EXCEPT ![t] = IF req[r].amount = 0 THEN @ ELSE a]
        /\ UNCHANGED <<subStatus, cancelled, txn>>
      BY <1>3 DEF SaveRefund
  <2>2. Booked' = Booked
      BY <1>0, <2>1 DEF Booked
  <2>3. CASE req[r].amount = 0
    <3>1. refund' = refund
        BY <2>1, <2>3 DEF TypeOK
    <3> QED
        BY <1>0, <2>1, <2>2, <3>1 DEF Books!bookVars, Books!gatewayBooks, Books!officeBooks
  <2>4. CASE req[r].amount # 0
    <3>1. a <= refunded[t] /\ txn[t] = "1"
        BY <2>1 DEF RefundInv, BooksInv, BooksInvOf
    <3>2. loaded[r] \in Nat /\ refunded[t] \in Nat
        BY <1>t DEF TypeOK
    <3>3. a \in 1 .. refunded[t]
        BY <1>t, <2>4, <3>1, <3>2
    <3>4. Booked[t] > 0
        BY <1>t, <3>1, AtStep DEF Booked
    <3> HIDE DEF t, a
    <3>5. Books!BookBack(t)
        BY <1>0, <2>1, <2>2, <2>4, <3>3, <3>4 DEF Books!BookBack, Books!gatewayBooks
    <3> QED
        BY <1>t, <3>5 DEF Books!BooksNext, t
  <2> QED
      BY <2>3, <2>4
<1>4. CASE SaveCancel(r)
  <2>1. /\ pc[r] = "saveCancel" /\ cancelled' = [cancelled EXCEPT ![req[r].target] = TRUE]
        /\ UNCHANGED <<subStatus, txn, refund>>
      BY <1>4 DEF SaveCancel
  <2>2. subStatus[req[r].target] # "none"
      BY <2>1 DEF BooksInv, BooksInvOf
  <2>3. Booked' = Booked
      BY <1>0, <2>1 DEF Booked
  <2>4. Books!End(req[r].target)
      BY <1>0, <2>1, <2>2, <2>3 DEF Books!End, Books!gatewayBooks
  <2> QED
      BY <1>t, <2>4 DEF Books!BooksNext
<1>5. CASE SaveNote(r) \/ Abort(r)
  <2>1. UNCHANGED <<subStatus, cancelled, txn, refund>>
      BY <1>5 DEF SaveNote, Abort, tables
  <2>2. Booked' = Booked
      BY <1>0, <2>1 DEF Booked
  <2> QED
      BY <1>0, <2>1, <2>2 DEF Books!bookVars, Books!gatewayBooks, Books!officeBooks
<1> QED
    BY <1>1, <1>2, <1>3, <1>4, <1>5

LEMMA StepImplementsBooks ==
    TypeOK /\ ChargeInv /\ CancelInv /\ BooksInv /\ RefundInv /\ [Next]_vars
        => [Books!BooksNext]_Books!bookVars
<1> SUFFICES ASSUME TypeOK, ChargeInv, CancelInv, BooksInv, RefundInv, [Next]_vars
             PROVE  Books!BooksNext \/ UNCHANGED Books!bookVars
    OBVIOUS
<1>1. CASE UNCHANGED vars
  <2>1. Booked' = Booked
      BY <1>1 DEF Booked, vars, tables
  <2> QED
      BY <1>1, <2>1 DEF vars, gateway, tables,
                        Books!bookVars, Books!gatewayBooks, Books!officeBooks
<1>2. ASSUME NEW r \in Requests, Start(r) \/ Continue(r) \/ Abort(r)
      PROVE  Books!BooksNext \/ UNCHANGED Books!bookVars
  <2>1. req[r].target \in Requests
      BY DEF TypeOK
  <2> QED
      BY <1>2, <2>1, StartHidden, SaleTakes, RefundGives, CancelStops, SaveWrites
         DEF Continue, Books!BooksNext
<1> QED
    BY <1>1, <1>2 DEF Next, Quiescent

\* Billing implements the two books of GatewayBooks for any number of
\* overlapping requests, lost answers and crashes (ImplementsBooks;
\* charge_cents2!, charge_cents3!, refund, del_subscription).
THEOREM BillingImplementsBooks == Spec => ImplementsBooks
<1>1. Init => Books!BooksInit
  <2>1. Init => Booked = [r \in Requests |-> 0]
      BY DEF Init, Booked
  <2> QED
      BY <2>1 DEF Init, Books!BooksInit
<1> QED
    BY <1>1, StepImplementsBooks, TypeCorrect, RefundInvariant, ChargeInvariant,
       CancelInvariant, BooksInvariant, PTL
       DEF Spec, ImplementsBooks, Books!BooksSpec
=============================================================================
