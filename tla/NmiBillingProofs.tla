-------------------------- MODULE NmiBillingProofs --------------------------
(***************************************************************************)
(* Theorems about NmiBilling, for any number of requests and any amounts.  *)
(***************************************************************************)
EXTENDS NmiBilling, TLAPS

-----------------------------------------------------------------------------
(* Every controller action starts a request the same way: Starts says all  *)
(* the invariants need to know about it.                                   *)

Starts(r, p, entry) ==
    /\ Call(r, p, entry)
    /\ p \in [kind : Kinds, amount : Nat, start : Dates, end : EndDates, target : Requests]
    /\ entry \in {"sale", "refund", "cancel", "note", "done", "aborted"}
    /\ loaded' \in {loaded, [loaded EXCEPT ![r] = refund[p.target]]}
    /\ raced' \in {raced, raced \cup {p.target}}
    /\ p.kind # "none"
    /\ entry = "sale" => p.kind \in ChargeKinds /\ p.amount > 0 /\ p.target = r
    /\ entry = "refund" => p.kind = "refund" /\ loaded' = [loaded EXCEPT ![r] = refund[p.target]]
    /\ entry = "refund" => \/ p.target \in raced'
                           \/ \A o \in Requests : ~InFlightRefund(o, p.target)
    /\ entry = "refund" => txn[p.target] # "none"
    /\ entry \in {"sale", "refund"} => p.amount \in Amounts
    /\ entry = "cancel" => /\ p.kind \in CancelKinds
                           /\ subStatus[p.target] # "none"
                           /\ p.kind = "del_subscription" =>
                                 subStatus[p.target] # "none" /\ txn[p.target] = "1"

LEMMA EntryType ==
    ASSUME NEW s \in Settings, NEW start \in Dates, NEW occurances \in BOOLEAN
    PROVE  ChargeEntry(s, start, occurances) \in {"aborted", "note", "sale"}
BY DEF ChargeEntry, nmi_login

LEMMA ChargeStarts ==
    ASSUME NEW r \in Requests, NEW kind \in ChargeKinds, NEW amount \in Amounts,
           NEW start \in Dates, NEW end \in EndDates,
           NEW entry \in {"aborted", "note", "sale", "done"},
           entry = "sale" => amount > 0,
           Call(r, Charge(r, kind, amount, start, end), entry),
           UNCHANGED <<loaded, raced>>
    PROVE  \E p, e : Starts(r, p, e)
<1>1. Starts(r, Charge(r, kind, amount, start, end), entry)
    BY AmountsAssumption DEF Starts, Charge, Kinds, ChargeKinds, SubscriptionKinds
<1> QED
    BY <1>1

LEMMA StartStarts ==
    ASSUME NEW r \in Requests, Start(r)
    PROVE  \E p, entry : Starts(r, p, entry)
<1> USE AmountsAssumption, MinBillingAssumption
<1>1. CASE nmi_billing(r)
  <2>1. PICK amount \in Amounts, start \in Dates \ {"none"}, end \in EndDates,
             s \in Settings, occurances \in BOOLEAN :
             Call(r, Charge(r, "nmi_billing", amount, start, end),
                  IF amount >= MinBilling
                  THEN ChargeEntry(s, start, occurances) ELSE "done")
      BY <1>1 DEF nmi_billing
  <2> DEFINE entry == IF amount >= MinBilling
                      THEN ChargeEntry(s, start, occurances) ELSE "done"
  <2>2. entry \in {"aborted", "note", "sale", "done"} /\ (entry = "sale" => amount > 0)
      BY EntryType
  <2>3. UNCHANGED <<loaded, raced>>
      BY <1>1 DEF nmi_billing
  <2> HIDE DEF entry
  <2>4. Call(r, Charge(r, "nmi_billing", amount, start, end), entry)
      BY <2>1 DEF entry
  <2> QED
      BY <2>2, <2>3, <2>4, ChargeStarts DEF ChargeKinds, SubscriptionKinds
<1>2. CASE manual_billing(r)
  <2>1. PICK amount \in Amounts, s \in Settings :
             Call(r, Charge(r, "manual_billing", amount, "none", "none"),
                  IF amount >= MinBilling
                  THEN ChargeEntry(s, "none", FALSE) ELSE "done")
      BY Zenon, <1>2 DEF manual_billing
  <2> DEFINE sale  == ChargeEntry(s, "none", FALSE)
             entry == IF amount >= MinBilling THEN sale ELSE "done"
  <2>a. sale \in {"aborted", "note", "sale"}
      BY Zenon, EntryType DEF Dates
  <2> HIDE DEF sale
  <2>2. entry \in {"aborted", "note", "sale", "done"} /\ (entry = "sale" => amount > 0)
      BY <2>a
  <2>3. UNCHANGED <<loaded, raced>>
      BY <1>2 DEF manual_billing
  <2> HIDE DEF entry
  <2>4. Call(r, Charge(r, "manual_billing", amount, "none", "none"), entry)
      BY Zenon, <2>1 DEF entry, sale
  <2> QED
      BY <2>2, <2>3, <2>4, ChargeStarts
         DEF ChargeKinds, SubscriptionKinds, Dates, EndDates
<1>3. CASE bill_subscription_nmi(r)
  <2>1. PICK amount \in Amounts, start \in Dates, end \in EndDates, s \in Settings,
             occurances \in BOOLEAN, endRequired \in BOOLEAN :
             Call(r, Charge(r, "bill_subscription_nmi", amount, start, end),
                  IF endRequired /\ end = "none" THEN "done"
                  ELSE IF amount > 0 THEN ChargeEntry(s, start, occurances) ELSE "note")
      BY <1>3 DEF bill_subscription_nmi
  <2> DEFINE entry == IF endRequired /\ end = "none" THEN "done"
                      ELSE IF amount > 0 THEN ChargeEntry(s, start, occurances) ELSE "note"
  <2>2. entry \in {"aborted", "note", "sale", "done"} /\ (entry = "sale" => amount > 0)
      BY EntryType
  <2>3. UNCHANGED <<loaded, raced>>
      BY <1>3 DEF bill_subscription_nmi
  <2> HIDE DEF entry
  <2>4. Call(r, Charge(r, "bill_subscription_nmi", amount, start, end), entry)
      BY <2>1 DEF entry
  <2> QED
      BY <2>2, <2>3, <2>4, ChargeStarts DEF ChargeKinds, SubscriptionKinds
<1>4. CASE bill_manual_nmi(r)
  <2>1. PICK amount \in Amounts, s \in Settings :
             Call(r, Charge(r, "bill_manual_nmi", amount, "none", "none"),
                  IF amount > 0 THEN ChargeEntry(s, "none", FALSE) ELSE "note")
      BY Zenon, <1>4 DEF bill_manual_nmi
  <2> DEFINE sale  == ChargeEntry(s, "none", FALSE)
             entry == IF amount > 0 THEN sale ELSE "note"
  <2>a. sale \in {"aborted", "note", "sale"}
      BY Zenon, EntryType DEF Dates
  <2> HIDE DEF sale
  <2>2. entry \in {"aborted", "note", "sale", "done"} /\ (entry = "sale" => amount > 0)
      BY <2>a
  <2>3. UNCHANGED <<loaded, raced>>
      BY <1>4 DEF bill_manual_nmi
  <2> HIDE DEF entry
  <2>4. Call(r, Charge(r, "bill_manual_nmi", amount, "none", "none"), entry)
      BY Zenon, <2>1 DEF entry, sale
  <2> QED
      BY <2>2, <2>3, <2>4, ChargeStarts DEF ChargeKinds, Dates, EndDates
<1>5. CASE Refund(r)
  <2>1. PICK t \in Requests, amount \in Amounts,
             entry \in {"aborted", "done", "refund", "note"} :
            /\ txn[t] # "none"
            /\ Call(r, About("refund", amount, t), entry)
            /\ loaded' = [loaded EXCEPT ![r] = refund[t]]
            /\ raced' \in {raced, raced \cup {t}}
            /\ entry = "refund" => \/ t \in raced'
                                   \/ \A o \in Requests : ~InFlightRefund(o, t)
      BY Zenon, <1>5 DEF Refund, InFlightRefund
  <2>2. Starts(r, About("refund", amount, t), entry)
      BY Zenon, <2>1 DEF Starts, About, Kinds, Dates, EndDates
  <2> QED
      BY <2>2
<1>6. CASE del_subscription(r)
  <2>1. PICK t \in Requests, entry \in {"aborted", "done", "cancel"} :
            /\ Call(r, About("del_subscription", 0, t), entry)
            /\ subStatus[t] # "none"
            /\ entry = "cancel" => txn[t] = "1"
      BY <1>6 DEF del_subscription
  <2>2. Starts(r, About("del_subscription", 0, t), entry)
      BY <1>6, <2>1 DEF del_subscription, Starts, About, Kinds, CancelKinds, Dates, EndDates
  <2> QED
      BY <2>2
<1>7. CASE delete_subscription(r)
  <2>1. PICK t \in Requests, entry \in {"aborted", "cancel"} :
            subStatus[t] # "none" /\ Call(r, About("delete_subscription", 0, t), entry)
      BY <1>7 DEF delete_subscription
  <2>2. Starts(r, About("delete_subscription", 0, t), entry)
      BY <1>7, <2>1 DEF delete_subscription, Starts, About, Kinds, CancelKinds, Dates, EndDates
  <2> QED
      BY <2>2
<1>8. CASE void_transaction(r)
  <2>1. PICK t \in Requests : Call(r, About("void_transaction", 0, t), "aborted")
      BY <1>8 DEF void_transaction
  <2>2. Starts(r, About("void_transaction", 0, t), "aborted")
      BY <1>8, <2>1 DEF void_transaction, Starts, About, Kinds, Dates, EndDates
  <2> QED
      BY <2>2
<1> QED
    BY <1>1, <1>2, <1>3, <1>4, <1>5, <1>6, <1>7, <1>8 DEF Start

-----------------------------------------------------------------------------
(* Type correctness *)

LEMMA InitType == Init => TypeOK
BY DEF Init, TypeOK, NoRequest, Kinds, Dates, EndDates

LEMMA StartType ==
    ASSUME TypeOK, NEW r \in Requests, Start(r)
    PROVE  TypeOK'
<1>1. PICK p, entry : Starts(r, p, entry)
    BY StartStarts
<1> QED
    BY <1>1 DEF Starts, Call, TypeOK, gateway, tables, Running, Ended

LEMMA ContinueType ==
    ASSUME TypeOK, NEW r \in Requests, Continue(r) \/ Abort(r)
    PROVE  TypeOK'
<1> USE DEF TypeOK, gateway, tables, Running, Ended
<1>1. CASE doSale(r)             BY <1>1 DEF doSale, Answered
<1>2. CASE doRefund(r)           BY <1>2, SMTT(90) DEF doRefund, Answered
<1>3. CASE cancelSubscription(r) BY <1>3 DEF cancelSubscription, Answered
<1>4. CASE SaveSubscription(r)
    BY <1>4, LocalDatesAssumption
       DEF SaveSubscription, update_occuranges, Status, Dates
<1>5. CASE SaveTransaction(r)    BY <1>5 DEF SaveTransaction
<1>6. CASE SaveRefund(r)         BY <1>6 DEF SaveRefund
<1>7. CASE SaveCancel(r)         BY <1>7 DEF SaveCancel
<1>8. CASE SaveNote(r)           BY <1>8 DEF SaveNote
<1>9. CASE Abort(r)              BY <1>9 DEF Abort
<1> QED
    BY <1>1, <1>2, <1>3, <1>4, <1>5, <1>6, <1>7, <1>8, <1>9 DEF Continue

LEMMA NextType == TypeOK /\ [Next]_vars => TypeOK'
<1> SUFFICES ASSUME TypeOK, [Next]_vars PROVE TypeOK'
    OBVIOUS
<1>1. CASE UNCHANGED vars
    BY <1>1 DEF TypeOK, vars, gateway, tables
<1> QED
    BY <1>1, StartType, ContinueType DEF Next, Quiescent

\* Every variable keeps its type, whatever the requests do (TypeOK).
THEOREM TypeCorrect == Spec => []TypeOK
BY InitType, NextType, PTL DEF Spec

-----------------------------------------------------------------------------
(* Refunds: what a request has read, plus what it gave back, never exceeds *)
(* what the gateway gave back, however many requests overlap.              *)

RefundInv ==
    /\ RefundNeverOverstated
    /\ \A r \in Requests :
          /\ pc[r] = "refund" => loaded[r] <= refunded[req[r].target]
          /\ pc[r] = "saveRefund" => loaded[r] + req[r].amount <= refunded[req[r].target]

LEMMA StartRefund ==
    ASSUME TypeOK, RefundInv, NEW r \in Requests, Start(r)
    PROVE  RefundInv'
<1>1. PICK p, entry : Starts(r, p, entry)
    BY Zenon, StartStarts
<1> QED
    BY SMTT(90), <1>1 DEF Starts, Call, TypeOK, RefundInv, RefundNeverOverstated, gateway, tables

LEMMA ContinueRefund ==
    ASSUME TypeOK, RefundInv, NEW r \in Requests, Continue(r) \/ Abort(r)
    PROVE  RefundInv'
<1> USE DEF TypeOK, RefundInv, RefundNeverOverstated, gateway, tables
<1>1. CASE doSale(r)             BY <1>1 DEF doSale, Answered
<1>2. CASE doRefund(r)           BY <1>2, SMTT(90) DEF doRefund, Answered
<1>3. CASE cancelSubscription(r) BY <1>3 DEF cancelSubscription, Answered
<1>4. CASE SaveSubscription(r)   BY <1>4 DEF SaveSubscription
<1>5. CASE SaveTransaction(r)    BY <1>5 DEF SaveTransaction
<1>6. CASE SaveRefund(r)         BY <1>6 DEF SaveRefund
<1>7. CASE SaveCancel(r)         BY <1>7 DEF SaveCancel
<1>8. CASE SaveNote(r)           BY <1>8 DEF SaveNote
<1>9. CASE Abort(r)              BY <1>9 DEF Abort
<1> QED
    BY <1>1, <1>2, <1>3, <1>4, <1>5, <1>6, <1>7, <1>8, <1>9 DEF Continue

LEMMA NextRefund == TypeOK /\ RefundInv /\ [Next]_vars => RefundInv'
<1> SUFFICES ASSUME TypeOK, RefundInv, [Next]_vars PROVE RefundInv'
    BY SMTT(90)
<1>1. CASE UNCHANGED vars
    BY <1>1 DEF RefundInv, RefundNeverOverstated, vars, gateway, tables
<1> QED
    BY <1>1, StartRefund, ContinueRefund DEF Next, Quiescent

LEMMA RefundInvariant == Spec => []RefundInv
<1>1. Init => RefundInv
    BY SMTT(90) DEF Init, RefundInv, RefundNeverOverstated
<1> QED
    BY <1>1, NextRefund, TypeCorrect, PTL DEF Spec

\* The refund column never exceeds what the gateway gave back, for any number
\* of overlapping refund requests, lost answers and crashes (refund).
THEOREM RefundsNotOverstated == Spec => []RefundNeverOverstated
<1>1. RefundInv => RefundNeverOverstated
    BY DEF RefundInv
<1> QED
    BY <1>1, RefundInvariant, PTL

-----------------------------------------------------------------------------
(* Charges: how a billing request's answer, notes and rows follow what the *)
(* gateway captured, step by step.                                         *)

ChargeInvOf(r) ==
    /\ pc[r] \in {"idle", "sale"} =>
          /\ captured[r] = 0 /\ answer[r] = "0" /\ note[r] = "none"
          /\ txn[r] = "none" /\ subStatus[r] = "none"
    /\ pc[r] \in {"sale", "subscription", "transaction"} =>
          req[r].kind \in ChargeKinds /\ req[r].amount > 0
    /\ pc[r] = "subscription" => /\ req[r].kind \in SubscriptionKinds
                                 /\ answer[r] = "1" => vault[r] # "none"
    /\ pc[r] \in {"refund", "saveRefund", "cancel", "saveCancel"} =>
          req[r].kind \notin ChargeKinds
    /\ pc[r] \notin Ended => note[r] = "none"
    /\ captured[r] > 0 => req[r].kind \in ChargeKinds /\ captured[r] = req[r].amount
    /\ req[r].kind \in ChargeKinds /\ answer[r] = "1" =>
          captured[r] = req[r].amount /\ captured[r] > 0
    /\ /\ req[r].kind \in ChargeKinds
       /\ answer[r] # "1"
       /\ pc[r] \in {"subscription", "transaction", "note", "done"}
       => captured[r] = 0
    /\ req[r].kind = "none" => pc[r] = "idle"
    /\ txn[r] # "none" => req[r].kind \in ChargeKinds /\ txn[r] = answer[r]

ChargeInv ==
    /\ \A r \in Requests : ChargeInvOf(r)
    /\ NoteTellsTruth
    /\ CaptureIsRecorded
    /\ ApprovedIsCaptured

LEMMA StartCharge ==
    ASSUME TypeOK, ChargeInv, NEW r \in Requests, Start(r)
    PROVE  ChargeInv'
<1>1. PICK p, entry : Starts(r, p, entry)
    BY StartStarts
<1>2. \A o \in Requests : ChargeInvOf(o)'
    BY <1>1 DEF Starts, Call, TypeOK, ChargeInv, ChargeInvOf, gateway, tables,
                Kinds, ChargeKinds, SubscriptionKinds, CancelKinds, Ended
<1>3. /\ UNCHANGED <<captured, note, txn, subStatus, vault>>
      /\ \A o \in Requests \ {r} : req'[o] = req[o] /\ pc'[o] = pc[o]
      /\ pc[r] = "idle"
    BY SMTT(90), <1>1 DEF Starts, Call, TypeOK, gateway, tables
<1>4. captured[r] = 0 /\ note[r] = "none" /\ txn[r] = "none"
    BY SMTT(90), <1>3 DEF ChargeInv, ChargeInvOf
<1>5. NoteTellsTruth'
    BY SMTT(90), <1>3, <1>4 DEF ChargeInv, NoteTellsTruth
<1>6. CaptureIsRecorded'
    BY SMTT(90), <1>1, <1>3, <1>4 DEF ChargeInv, CaptureIsRecorded, Starts, Call, tables
<1>7. ApprovedIsCaptured'
    BY SMTT(90), <1>3, <1>4 DEF ChargeInv, ApprovedIsCaptured
<1> QED
    BY SMTT(90), <1>2, <1>5, <1>6, <1>7 DEF ChargeInv

LEMMA ContinueCharge ==
    ASSUME TypeOK, ChargeInv, NEW r \in Requests, Continue(r) \/ Abort(r)
    PROVE  ChargeInv'
<1> USE DEF TypeOK, ChargeInv, ChargeInvOf, NoteTellsTruth, CaptureIsRecorded,
            ApprovedIsCaptured, gateway, tables, Running, Ended
<1>1. CASE doSale(r)             BY SMTT(90), <1>1 DEF doSale, Answered, Responses
<1>2. CASE doRefund(r)           BY SMTT(90), <1>2 DEF doRefund, Answered
<1>3. CASE cancelSubscription(r) BY <1>3 DEF cancelSubscription, Answered
<1>4. CASE SaveSubscription(r)   BY SMTT(90), <1>4 DEF SaveSubscription, Status
<1>5. CASE SaveTransaction(r)    BY SMTT(90), <1>5 DEF SaveTransaction
<1>6. CASE SaveRefund(r)         BY SMTT(90), <1>6 DEF SaveRefund
<1>7. CASE SaveCancel(r)         BY SMTT(90), <1>7 DEF SaveCancel
<1>8. CASE SaveNote(r)           BY SMTT(90), <1>8 DEF SaveNote
<1>9. CASE Abort(r)              BY SMTT(90), <1>9 DEF Abort
<1> QED
    BY ZenonT(60), <1>1, <1>2, <1>3, <1>4, <1>5, <1>6, <1>7, <1>8, <1>9 DEF Continue

LEMMA NextCharge == TypeOK /\ ChargeInv /\ [Next]_vars => ChargeInv'
<1> SUFFICES ASSUME TypeOK, ChargeInv, [Next]_vars PROVE ChargeInv'
    OBVIOUS
<1>1. CASE UNCHANGED vars
    BY ZenonT(60), <1>1 DEF ChargeInv, ChargeInvOf, NoteTellsTruth, CaptureIsRecorded,
                ApprovedIsCaptured, vars, gateway, tables
<1> QED
    BY <1>1, StartCharge, ContinueCharge DEF Next, Quiescent

LEMMA ChargeInvariant == Spec => []ChargeInv
<1>1. Init => ChargeInv
    BY DEF Init, NoRequest, ChargeInv, ChargeInvOf, NoteTellsTruth, CaptureIsRecorded,
           ApprovedIsCaptured, ChargeKinds, SubscriptionKinds, Ended
<1> QED
    BY <1>1, NextCharge, TypeCorrect, PTL DEF Spec

\* A billing note says success only when the gateway captured the amount and
\* failure only when it captured nothing (nmi_charge, bill_manual_nmi,
\* bill_subscription_nmi).
THEOREM NotesTellTruth == Spec => []NoteTellsTruth
<1>1. ChargeInv => NoteTellsTruth
    BY DEF ChargeInv
<1> QED
    BY <1>1, ChargeInvariant, PTL

\* Captured money without an approved transaction row is either in flight, or
\* left by a request that died, or a subscription billed for another day
\* (charge_cents2!, charge_cents3!).
THEOREM CapturesAreRecorded == Spec => []CaptureIsRecorded
<1>1. ChargeInv => CaptureIsRecorded
    BY DEF ChargeInv
<1> QED
    BY <1>1, ChargeInvariant, PTL

\* Every approved row stands for money captured, or for a subscription added,
\* at the gateway (charge_cents2!, charge_cents3!).
THEOREM ApprovedRowsAreReal == Spec => []ApprovedIsCaptured
<1>1. ChargeInv => ApprovedIsCaptured
    BY DEF ChargeInv
<1> QED
    BY <1>1, ChargeInvariant, PTL

-----------------------------------------------------------------------------
(* Refunds one after the other: as long as no two of them overlapped on a  *)
(* row and none was cut off, the one request in flight has read the whole  *)
(* of what the gateway gave back before it.                                *)

RefundSteps == \A r \in Requests : pc[r] \in {"refund", "saveRefund"} => req[r].kind = "refund"

ExactOf(t) ==
    /\ \A r, o \in Requests : InFlightRefund(r, t) /\ InFlightRefund(o, t) => r = o
    /\ (\A r \in Requests : ~InFlightRefund(r, t)) => refund[t] = refunded[t]
    /\ \A r \in Requests :
          /\ Refunding(r, t) /\ pc[r] = "refund" =>
                loaded[r] = refund[t] /\ refund[t] = refunded[t]
          /\ Refunding(r, t) /\ pc[r] = "saveRefund" =>
                loaded[r] = refund[t] /\ refund[t] + req[r].amount = refunded[t]

SerialRefunds(t) == t \notin raced /\ \A r \in Requests : ~CutOffRefund(r, t)

ExactInv ==
    /\ RefundSteps
    /\ \A t \in Requests : SerialRefunds(t) => ExactOf(t)

LEMMA StartExact ==
    ASSUME TypeOK, ExactInv, NEW r \in Requests, Start(r)
    PROVE  ExactInv'
<1>1. PICK p, entry : Starts(r, p, entry)
    BY StartStarts
<1>2. /\ pc[r] = "idle" /\ pc'[r] = entry /\ req'[r] = p
      /\ UNCHANGED <<refund, refunded>>
      /\ \A o \in Requests \ {r} : /\ pc'[o] = pc[o] /\ req'[o] = req[o]
                                   /\ loaded'[o] = loaded[o]
      /\ raced \subseteq raced'
      /\ entry = "refund" => p.kind = "refund" /\ loaded'[r] = refund[p.target]
      /\ entry # "saveRefund"
    BY SMTT(90), <1>1 DEF Starts, Call, TypeOK, gateway, tables
<1>3. RefundSteps'
    BY <1>2 DEF ExactInv, RefundSteps
<1>4. ASSUME NEW t \in Requests, SerialRefunds(t)' PROVE ExactOf(t)'
  <2>1. \A o \in Requests \ {r} : /\ InFlightRefund(o, t)' = InFlightRefund(o, t)
                                  /\ Refunding(o, t)' = Refunding(o, t)
                                  /\ CutOffRefund(o, t)' = CutOffRefund(o, t)
      BY <1>2 DEF InFlightRefund, CutOffRefund, Refunding
  <2>2. ~InFlightRefund(r, t) /\ ~CutOffRefund(r, t)
      BY <1>2 DEF InFlightRefund, CutOffRefund
  <2>3. ExactOf(t)
      BY <1>2, <1>4, <2>1, <2>2 DEF SerialRefunds, ExactInv
  <2>4. CASE ~InFlightRefund(r, t)'
      BY SMTT(60), <1>2, <2>1, <2>2, <2>3, <2>4 DEF ExactOf, InFlightRefund, Refunding
  <2>5. CASE InFlightRefund(r, t)'
    <3>1. entry = "refund" /\ p.target = t
        BY <1>2, <2>5 DEF InFlightRefund, Refunding
    <3>2. \A o \in Requests : ~InFlightRefund(o, t)
        BY <1>1, <1>4, <3>1 DEF Starts, SerialRefunds
    <3>3. \A o \in Requests \ {r} : ~InFlightRefund(o, t)'
        BY <2>1, <3>2
    <3>4. refund[t] = refunded[t]
        BY Zenon, <2>3, <3>2 DEF ExactOf
    <3> QED
        BY <1>2, <2>1, <2>5, <3>1, <3>3, <3>4 DEF ExactOf, InFlightRefund, Refunding
  <2> QED
      BY <2>4, <2>5
<1> QED
    BY <1>3, <1>4 DEF ExactInv

\* Every step of a request leaves the other requests and its own parameters
\* alone.
LEMMA ContinueKeeps ==
    ASSUME TypeOK, NEW r \in Requests, Continue(r) \/ Abort(r)
    PROVE  /\ UNCHANGED <<req, loaded, raced>>
           /\ \A o \in Requests \ {r} : pc'[o] = pc[o] /\ answer'[o] = answer[o]
           /\ pc[r] \in Running
<1> USE DEF TypeOK, Running
<1>1. CASE doSale(r)             BY <1>1 DEF doSale, Answered
<1>2. CASE doRefund(r)           BY <1>2 DEF doRefund, Answered
<1>3. CASE cancelSubscription(r) BY <1>3 DEF cancelSubscription, Answered
<1>4. CASE SaveSubscription(r)   BY <1>4 DEF SaveSubscription
<1>5. CASE SaveTransaction(r)    BY <1>5 DEF SaveTransaction
<1>6. CASE SaveRefund(r)         BY <1>6 DEF SaveRefund
<1>7. CASE SaveCancel(r)         BY <1>7 DEF SaveCancel
<1>8. CASE SaveNote(r)           BY <1>8 DEF SaveNote
<1>9. CASE Abort(r)              BY Zenon, <1>9 DEF Abort
<1> QED
    BY Zenon, <1>1, <1>2, <1>3, <1>4, <1>5, <1>6, <1>7, <1>8, <1>9 DEF Continue

\* What a step does to refunds: nothing, or one of the two steps of a refund,
\* or a cut.
LEMMA ContinueRefunds ==
    ASSUME TypeOK, NEW r \in Requests, Continue(r) \/ Abort(r)
    PROVE  \/ /\ UNCHANGED <<refund, refunded>>
              /\ pc[r] \notin {"refund", "saveRefund"}
              /\ pc'[r] \notin {"refund", "saveRefund"}
           \/ UNCHANGED <<refund, refunded>> /\ pc'[r] = "aborted"
           \/ UNCHANGED <<refund, refunded>> /\ pc[r] = "refund" /\ pc'[r] = "note"
           \/ /\ pc[r] = "refund" /\ pc'[r] \in {"saveRefund", "aborted"}
              /\ refund' = refund
              /\ refunded' = [refunded EXCEPT ![req[r].target] = @ + req[r].amount]
           \/ /\ pc[r] = "saveRefund" /\ pc'[r] = "note"
              /\ refunded' = refunded
              /\ refund' = [refund EXCEPT ![req[r].target] =
                               IF req[r].amount = 0 THEN @ ELSE loaded[r] + req[r].amount]
<1> USE DEF TypeOK, gateway, tables
<1>1. CASE doSale(r)             BY <1>1 DEF doSale, Answered
<1>2. CASE doRefund(r)
  <2>1. PICK response \in Responses, delivered \in BOOLEAN :
            /\ refunded' = [refunded EXCEPT ![req[r].target] =
                               IF response = "1" THEN @ + req[r].amount ELSE @]
            /\ Answered(r, response, delivered,
                        IF response = "1" THEN "saveRefund" ELSE "note")
      BY Zenon, <1>2 DEF doRefund
  <2>2. pc[r] = "refund" /\ refund' = refund
      BY <1>2, <2>1 DEF doRefund, Answered
  <2>3. pc'[r] = IF delivered THEN IF response = "1" THEN "saveRefund" ELSE "note"
                 ELSE "aborted"
      BY <2>1 DEF Answered
  <2>4. response # "1" => refunded' = refunded
      BY <2>1
  <2> QED
      BY Zenon, <2>1, <2>2, <2>3, <2>4
<1>3. CASE cancelSubscription(r) BY <1>3 DEF cancelSubscription, Answered
<1>4. CASE SaveSubscription(r)   BY <1>4 DEF SaveSubscription
<1>5. CASE SaveTransaction(r)    BY <1>5 DEF SaveTransaction
<1>6. CASE SaveRefund(r)         BY <1>6 DEF SaveRefund
<1>7. CASE SaveCancel(r)         BY <1>7 DEF SaveCancel
<1>8. CASE SaveNote(r)           BY <1>8 DEF SaveNote
<1>9. CASE Abort(r)              BY <1>9 DEF Abort
<1> QED
    BY <1>1, <1>2, <1>3, <1>4, <1>5, <1>6, <1>7, <1>8, <1>9 DEF Continue

LEMMA ContinueExact ==
    ASSUME TypeOK, ExactInv, NEW r \in Requests, Continue(r) \/ Abort(r)
    PROVE  ExactInv'
<1>1. /\ UNCHANGED <<req, loaded, raced>>
      /\ \A o \in Requests \ {r} : pc'[o] = pc[o]
      /\ pc[r] \in Running
    BY ContinueKeeps
<1> DEFINE T == req[r].target
<1>t. T \in Requests /\ req[r].amount \in Nat /\ refund \in [Requests -> Nat]
      /\ refunded \in [Requests -> Nat] /\ loaded[r] \in Nat
    BY DEF TypeOK
<1>2. RefundSteps'
    BY <1>1, ContinueRefunds DEF ExactInv, RefundSteps
<1>3. ASSUME NEW t \in Requests, SerialRefunds(t)' PROVE ExactOf(t)'
  <2>1. \A o \in Requests : Refunding(o, t)' = Refunding(o, t)
      BY <1>1 DEF Refunding
  <2>2. \A o \in Requests \ {r} : /\ InFlightRefund(o, t)' = InFlightRefund(o, t)
                                  /\ CutOffRefund(o, t)' = CutOffRefund(o, t)
      BY <1>1, <2>1 DEF InFlightRefund, CutOffRefund
  <2>3. ~CutOffRefund(r, t) /\ ~CutOffRefund(r, t)'
      BY <1>1, <1>3 DEF CutOffRefund, Running, SerialRefunds
  <2>4. ExactOf(t)
      BY <1>1, <1>3, <2>2, <2>3 DEF SerialRefunds, ExactInv
  <2>5. CASE ~Refunding(r, t)
    <3>1. ~InFlightRefund(r, t) /\ ~InFlightRefund(r, t)'
        BY <2>1, <2>5 DEF InFlightRefund
    <3>2. refund'[t] = refund[t] /\ refunded'[t] = refunded[t]
      <4>1. CASE pc[r] \in {"refund", "saveRefund"}
        <5>1. T # t
            BY <2>5, <4>1 DEF ExactInv, RefundSteps, Refunding
        <5> QED
            BY <1>t, <5>1, ContinueRefunds
      <4>2. CASE pc[r] \notin {"refund", "saveRefund"}
          BY <4>2, ContinueRefunds
      <4> QED
          BY <4>1, <4>2
    <3> QED
        BY <1>1, <2>1, <2>2, <2>4, <2>5, <3>1, <3>2 DEF ExactOf, Refunding
  <2>6. CASE Refunding(r, t)
    <3>1. T = t
        BY <2>6 DEF Refunding
    <3>2. pc'[r] # "aborted"
        BY <2>1, <2>3, <2>6 DEF CutOffRefund
    <3>3. CASE /\ UNCHANGED <<refund, refunded>>
               /\ pc[r] \notin {"refund", "saveRefund"}
               /\ pc'[r] \notin {"refund", "saveRefund"}
      <4>1. ~InFlightRefund(r, t) /\ ~InFlightRefund(r, t)'
          BY <3>3 DEF InFlightRefund
      <4> QED
          BY <1>1, <2>1, <2>2, <2>4, <3>3, <4>1 DEF ExactOf
    <3>4. CASE pc[r] \in {"refund", "saveRefund"}
      <4>1. InFlightRefund(r, t)
          BY <2>6, <3>4 DEF InFlightRefund
      <4>2. \A o \in Requests \ {r} : ~InFlightRefund(o, t)'
          BY <2>2, <2>4, <4>1 DEF ExactOf
      <4>3. \A o \in Requests \ {r} :
               ~(Refunding(o, t)' /\ pc'[o] \in {"refund", "saveRefund"})
          BY <4>2 DEF InFlightRefund
      <4>4. CASE pc[r] = "refund" /\ pc'[r] = "note" /\ UNCHANGED <<refund, refunded>>
        <5>1. refund'[t] = refunded'[t]
            BY <2>4, <2>6, <4>4 DEF ExactOf
        <5> QED
            BY <4>2, <4>3, <4>4, <5>1 DEF ExactOf, InFlightRefund
      <4>5. CASE /\ pc[r] = "refund" /\ pc'[r] = "saveRefund" /\ refund' = refund
                 /\ refunded' = [refunded EXCEPT ![T] = @ + req[r].amount]
        <5>1. loaded[r] = refund[t] /\ refunded[t] = refund[t]
            BY <2>4, <2>6, <4>5 DEF ExactOf
        <5>2. refunded'[t] = refund[t] + req[r].amount
            BY <1>t, <3>1, <4>5, <5>1
        <5>3. InFlightRefund(r, t)'
            BY <2>1, <2>6, <4>5 DEF InFlightRefund
        <5> QED
            BY <1>1, <4>2, <4>3, <4>5, <5>1, <5>2, <5>3 DEF ExactOf
      <4>6. CASE /\ pc[r] = "saveRefund" /\ pc'[r] = "note" /\ refunded' = refunded
                 /\ refund' = [refund EXCEPT ![T] =
                                  IF req[r].amount = 0 THEN @ ELSE loaded[r] + req[r].amount]
        <5>1. loaded[r] = refund[t] /\ refund[t] + req[r].amount = refunded[t]
            BY <2>4, <2>6, <4>6 DEF ExactOf
        <5>2. refund'[t] = refunded'[t]
            BY <1>t, <3>1, <4>6, <5>1
        <5> QED
            BY <4>2, <4>3, <4>6, <5>2 DEF ExactOf, InFlightRefund
      <4> QED
          BY <3>2, <3>4, <4>4, <4>5, <4>6, ContinueRefunds
    <3> QED
        BY <3>2, <3>3, <3>4, ContinueRefunds
  <2> QED
      BY <2>5, <2>6
<1> QED
    BY <1>2, <1>3 DEF ExactInv

LEMMA NextExact == TypeOK /\ ExactInv /\ [Next]_vars => ExactInv'
<1> SUFFICES ASSUME TypeOK, ExactInv, [Next]_vars PROVE ExactInv'
    OBVIOUS
<1>1. CASE UNCHANGED vars
    BY ZenonT(60), <1>1 DEF ExactInv, RefundSteps, SerialRefunds, ExactOf, InFlightRefund,
                            CutOffRefund, Refunding, vars, gateway, tables
<1> QED
    BY <1>1, StartExact, ContinueExact DEF Next, Quiescent

\* The refund column equals what the gateway gave back on every row whose
\* refunds came one after the other, none of them cut off (refund).
THEOREM SerialRefundsAreExact == Spec => []RefundExactWhenSerial
<1>1. Init => ExactInv
    BY DEF Init, NoRequest, ExactInv, RefundSteps, ExactOf, InFlightRefund, Refunding
<1>2. ExactInv => RefundExactWhenSerial
    BY Zenon DEF ExactInv, SerialRefunds, ExactOf, RefundExactWhenSerial
<1> QED
    BY <1>1, <1>2, NextExact, TypeCorrect, PTL DEF Spec

-----------------------------------------------------------------------------
(* Cancelling: the gateway deletes only what del_subscription asks for,    *)
(* and del_subscription asks only about a row with both a subscription and *)
(* an approved transaction, which a subscription of another day never has. *)

CancelInvOf(r) ==
    /\ pc[r] \in {"idle", "sale", "subscription"} => subStatus[r] = "none"
    /\ pc[r] \in {"idle", "sale", "subscription", "transaction"} => txn[r] = "none"
    /\ pc[r] \in {"idle", "sale", "refund", "cancel"} => answer[r] = "0"
    /\ subStatus[r] # "none" /\ (txn[r] # "none" \/ pc[r] = "transaction") =>
          subStart[r] = "today"
    /\ vault[r] = "deleted" => subStatus[r] # "none" /\ txn[r] = "1"
    /\ pc[r] = "cancel" =>
          /\ req[r].kind \in CancelKinds
          /\ req[r].kind = "del_subscription" =>
                subStatus[req[r].target] # "none" /\ txn[req[r].target] = "1"
    /\ pc[r] = "saveCancel" =>
          /\ req[r].kind \in CancelKinds /\ answer[r] = "1"
          /\ req[r].kind = "del_subscription" => vault[req[r].target] = "deleted"

CancelInv ==
    /\ \A r \in Requests : CancelInvOf(r)
    /\ CancelledMeansDeleted
    /\ DeletedMeansCancelled

LEMMA StartCancel ==
    ASSUME TypeOK, CancelInv, NEW r \in Requests, Start(r)
    PROVE  CancelInv'
<1>1. PICK p, entry : Starts(r, p, entry)
    BY StartStarts
<1>2. /\ pc[r] = "idle" /\ pc'[r] = entry /\ req'[r] = p
      /\ UNCHANGED <<answer, vault, subStatus, subStart, cancelled, txn>>
      /\ \A o \in Requests \ {r} : pc'[o] = pc[o] /\ req'[o] = req[o]
    BY <1>1 DEF Starts, Call, TypeOK, gateway, tables
<1>3. \A o \in Requests : CancelInvOf(o)'
    BY SMTT(60), <1>1, <1>2 DEF Starts, CancelInv, CancelInvOf
<1>4. CancelledMeansDeleted'
  <2>1. answer[r] = "0"
      BY <1>2 DEF CancelInv, CancelInvOf
  <2>2. ASSUME NEW t \in Requests, cancelled[t], vault[t] # "deleted"
        PROVE  \E o \in Requests : /\ req'[o].kind = "delete_subscription"
                                   /\ req'[o].target = t /\ answer[o] = "1"
    <3>1. PICK o \in Requests : /\ req[o].kind = "delete_subscription"
                                /\ req[o].target = t /\ answer[o] = "1"
        BY <2>2 DEF CancelInv, CancelledMeansDeleted
    <3>2. o # r
        BY <2>1, <3>1
    <3> QED
        BY <1>2, <3>1, <3>2
  <2> QED
      BY <1>2, <2>2 DEF CancelledMeansDeleted
<1>5. DeletedMeansCancelled'
    BY <1>2 DEF CancelInv, DeletedMeansCancelled
<1> QED
    BY <1>3, <1>4, <1>5 DEF CancelInv

LEMMA CancelSteps ==
    ASSUME TypeOK, CancelInv, NEW r \in Requests, Continue(r) \/ Abort(r)
    PROVE  \A o \in Requests : CancelInvOf(o)'
<1> USE DEF TypeOK, CancelInv, CancelInvOf, gateway, tables, Running
<1>1. CASE doSale(r)             BY SMTT(90), <1>1 DEF doSale, Answered
<1>2. CASE doRefund(r)           BY SMTT(90), <1>2 DEF doRefund, Answered
<1>3. CASE cancelSubscription(r) BY SMTT(90), <1>3 DEF cancelSubscription, Answered
<1>4. CASE SaveSubscription(r)   BY SMTT(90), <1>4 DEF SaveSubscription, Status
<1>5. CASE SaveTransaction(r)    BY SMTT(90), <1>5 DEF SaveTransaction
<1>6. CASE SaveRefund(r)         BY SMTT(90), <1>6 DEF SaveRefund
<1>7. CASE SaveCancel(r)         BY SMTT(90), <1>7 DEF SaveCancel
<1>8. CASE SaveNote(r)           BY SMTT(90), <1>8 DEF SaveNote
<1>9. CASE Abort(r)              BY SMTT(90), <1>9 DEF Abort
<1> QED
    BY Zenon, <1>1, <1>2, <1>3, <1>4, <1>5, <1>6, <1>7, <1>8, <1>9 DEF Continue

LEMMA CancelMarks ==
    ASSUME TypeOK, CancelInv, NEW r \in Requests, Continue(r) \/ Abort(r)
    PROVE  CancelledMeansDeleted' /\ DeletedMeansCancelled'
<1> USE DEF TypeOK, CancelInv, CancelInvOf, CancelledMeansDeleted, DeletedMeansCancelled,
            gateway, tables, Running
<1>1. CASE doSale(r)             BY SMTT(90), <1>1 DEF doSale, Answered
<1>2. CASE doRefund(r)           BY SMTT(90), <1>2 DEF doRefund, Answered
<1>3. CASE cancelSubscription(r) BY SMTT(90), <1>3 DEF cancelSubscription, Answered
<1>4. CASE SaveSubscription(r)   BY SMTT(90), <1>4 DEF SaveSubscription
<1>5. CASE SaveTransaction(r)    BY SMTT(90), <1>5 DEF SaveTransaction
<1>6. CASE SaveRefund(r)         BY SMTT(90), <1>6 DEF SaveRefund
<1>7. CASE SaveCancel(r)         BY SMTT(90), <1>7 DEF SaveCancel, CancelKinds
<1>8. CASE SaveNote(r)           BY SMTT(90), <1>8 DEF SaveNote
<1>9. CASE Abort(r)              BY SMTT(90), <1>9 DEF Abort
<1> QED
    BY Zenon, <1>1, <1>2, <1>3, <1>4, <1>5, <1>6, <1>7, <1>8, <1>9 DEF Continue

LEMMA NextCancel == TypeOK /\ CancelInv /\ [Next]_vars => CancelInv'
<1> SUFFICES ASSUME TypeOK, CancelInv, [Next]_vars PROVE CancelInv'
    OBVIOUS
<1>1. CASE UNCHANGED vars
  <2>1. UNCHANGED <<pc, req, answer, vault, subStatus, subStart, cancelled, txn>>
      BY <1>1 DEF vars, gateway, tables
  <2>2. \A r \in Requests : CancelInvOf(r)'
      BY <2>1 DEF CancelInv, CancelInvOf
  <2>3. CancelledMeansDeleted' /\ DeletedMeansCancelled'
      BY <2>1 DEF CancelInv, CancelledMeansDeleted, DeletedMeansCancelled
  <2> QED
      BY <2>2, <2>3 DEF CancelInv
<1>2. ASSUME NEW r \in Requests, Continue(r) \/ Abort(r) PROVE CancelInv'
    BY <1>2, CancelSteps, CancelMarks DEF CancelInv
<1> QED
    BY ZenonT(60), <1>1, <1>2, StartCancel DEF Next, Quiescent

LEMMA CancelInvariant == Spec => []CancelInv
<1>1. Init => CancelInv
    BY DEF Init, CancelInv, CancelInvOf, CancelledMeansDeleted, DeletedMeansCancelled
<1> QED
    BY <1>1, NextCancel, TypeCorrect, PTL DEF Spec

\* A subscription marked cancelled was deleted at the gateway, or the demo
\* account said yes (del_subscription, delete_subscription).
THEOREM CancelledWereDeleted == Spec => []CancelledMeansDeleted
<1>1. CancelInv => CancelledMeansDeleted
    BY DEF CancelInv
<1> QED
    BY <1>1, CancelInvariant, PTL

\* A subscription deleted at the gateway is marked, unless the request that
\* deleted it has yet to save or died before it did (del_subscription).
THEOREM DeletedAreCancelled == Spec => []DeletedMeansCancelled
<1>1. CancelInv => DeletedMeansCancelled
    BY DEF CancelInv
<1> QED
    BY <1>1, CancelInvariant, PTL

\* No subscription that starts on another day is ever stopped at the gateway
\* (charge_cents2!, del_subscription).
THEOREM OthersKeepRunning == Spec => []OnlyTodayIsStopped
<1>1. CancelInv => OnlyTodayIsStopped
    BY DEF CancelInv, CancelInvOf, OnlyTodayIsStopped
<1> QED
    BY <1>1, CancelInvariant, PTL
=============================================================================
