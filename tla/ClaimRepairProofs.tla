-------------------------- MODULE ClaimRepairProofs --------------------------
(***************************************************************************)
(* TypeOK, OneSettlement, ZeroIsNeverAuthorizedAfresh and FormTakesEffect   *)
(* for any requests, amounts, dates and statuses.                          *)
(***************************************************************************)
EXTENDS ClaimRepair, TLAPS

\* What a small request holds, by its kind.
LEMMA AskFields ==
    ASSUME NEW ids, NEW a \in Asks(ids)
    PROVE  /\ a.kind \notin {"form", "release"}
           /\ a.kind = "amount" => a.amount \in Amounts
           /\ a.kind = "assign" => a.contractor \in Contractors
           /\ a.kind = "status_code" => a.code \in Codes
           /\ a.kind \in {"async_receive", "receive"} => a.date \in Dates
           /\ a.kind \in {"async_status", "invoice_status"} => a.status \in Statuses \cup {None}
           /\ a.kind \in ById => a.id \in ids
<1>1. CASE a \in [kind : {"amount"}, amount : Amounts]
  BY <1>1 DEF ById
<1>2. CASE a \in [kind : {"blank_amount", "clear_receive", "unassign"}]
  BY <1>2 DEF ById
<1>3. CASE a \in [kind : {"assign"}, contractor : Contractors]
  BY <1>3 DEF ById
<1>4. CASE a \in [kind : {"status_code"}, code : Codes]
  BY <1>4 DEF ById
<1>5. CASE a \in [kind : {"async_receive", "receive"}, date : Dates]
  BY <1>5 DEF ById
<1>6. CASE a \in [kind : {"async_status"}, status : Statuses]
  BY <1>6 DEF ById
<1>7. CASE a \in [kind : {"invoice_status"}, status : Statuses \cup {None}]
  BY <1>7 DEF ById
<1>8. CASE a \in [kind : ById, id : ids]
  BY <1>8 DEF ById
<1> QED BY <1>1, <1>2, <1>3, <1>4, <1>5, <1>6, <1>7, <1>8 DEF Asks

\* A request about a repair stays one when repairs are added.
LEMMA AskStays ==
    ASSUME NEW m \in Nat, NEW n \in Nat, m <= n, NEW a \in Asks(1 .. m)
    PROVE  a \in Asks(1 .. n)
<1>1. CASE a \in [kind : ById, id : 1 .. m]
  <2>1. a \in [kind : ById, id : 1 .. n] BY <1>1
  <2> QED BY <2>1 DEF Asks
<1>2. CASE a \notin [kind : ById, id : 1 .. m]
  BY <1>2 DEF Asks
<1> QED BY <1>1, <1>2

-----------------------------------------------------------------------------
(* Types of what the actions are built from *)

LEMMA NothingType == NewRepair \in Repairs /\ Nothing \in [claim : Claims, id : Nat, repair : Repairs]
BY AmountsAssumption, SettlementsAssumption, CodesAssumption, StatusesAssumption
   DEF NewRepair, Repairs, Nothing, Created, Claims, Texts, FloatZero, Unauthorized

LEMMA LoadedType ==
    ASSUME TypeOK, NEW id \in 0 .. Len(repairs)
    PROVE  /\ Loaded(id) \in [claim : Claims, id : Nat, repair : Repairs]
           /\ Loaded(id).id = id
<1>1. claim \in Claims /\ repairs \in Seq(Repairs) /\ Len(repairs) \in Nat
  BY DEF TypeOK
<1>2. id # 0 => repairs[id] \in Repairs
  BY <1>1
<1> QED BY <1>1, <1>2, NothingType DEF Loaded

LEMMA FirstType == ASSUME TypeOK PROVE First \in 0 .. Len(repairs) /\ First \in {0, 1}
<1>1. Len(repairs) \in Nat BY DEF TypeOK
<1> QED BY <1>1 DEF First

LEMMA RenderedType == ASSUME TypeOK PROVE RenderedForm \in Forms /\ RenderedRelease \in Releases
<1>1. claim \in Claims BY DEF TypeOK
<1>2. First \in {0, 1} BY FirstType
<1>3. Loaded(First).repair.amount \in Amounts
  BY FirstType, LoadedType DEF Repairs
<1>4. Fixed(claim.buyout) \in Texts /\ Fixed(claim.reimbursement) \in Texts
  BY <1>1 DEF Fixed, Claims, Texts
<1>5. Listed(claim.status_code) \in ActiveCodes BY ActiveAssumption DEF Listed
<1>6. Prompt(claim.invoice_status) \in Statuses \cup {Blank} BY <1>1 DEF Prompt, Claims
<1>7. claim.invoice_receive \in Dates \cup {None} BY <1>1 DEF Claims
<1>8. RenderedForm \in Forms BY <1>2, <1>3, <1>5, <1>6, <1>7 DEF RenderedForm, Forms
<1>9. RenderedRelease \in Releases BY <1>4 DEF RenderedRelease, Releases
<1> QED BY <1>8, <1>9

\* An edit leaves a form the form it is, and of the same repair.
LEMMA EditsType ==
    ASSUME NEW f \in Pages, NEW e \in Edits(f)
    PROVE  /\ e \in Pages /\ e.kind = f.kind
           /\ f.kind = "form" => e \in Forms /\ e.id = f.id
           /\ f.kind = "release" => e \in Releases
<1>1. CASE f \in Forms
  <2>1. f.kind = "form" BY <1>1 DEF Forms
  <2>2. e \in FormEdits(f) BY <2>1 DEF Edits
  <2>3. f.status \in Statuses \cup {Blank} /\ f.amount \in Amounts /\ f.id \in {0, 1}
    BY <1>1 DEF Forms
  <2>4. e \in Forms /\ e.id = f.id /\ e.kind = f.kind BY <2>1, <2>2, <2>3 DEF FormEdits, Forms
  <2> QED BY <2>1, <2>4 DEF Pages
<1>2. CASE f \in Releases
  <2>1. f.kind = "release" BY <1>2 DEF Releases
  <2>2. e \in ReleaseEdits(f) BY <2>1 DEF Edits
  <2>3. Typed \subseteq Texts /\ f.buyout \in Texts /\ f.reimbursement \in Texts
    BY <1>2 DEF Typed, Texts, Releases
  <2>4. e \in Releases /\ e.kind = f.kind BY <2>1, <2>2, <2>3 DEF ReleaseEdits, Releases
  <2> QED BY <2>1, <2>4 DEF Pages
<1> QED BY <1>1, <1>2 DEF Pages

\* The before_save leaves a claim whose two sums are not both positive, if
\* the row it is applied to has not.
LEMMA SettleType ==
    ASSUME TypeOK, NEW c \in Claims, NEW f \in Releases
    PROVE  /\ buyout_or_reimbursement(c, f) \in Claims
           /\ OneSettlement =>
                ~(/\ buyout_or_reimbursement(c, f).buyout.amount > 0
                  /\ buyout_or_reimbursement(c, f).reimbursement.amount > 0)
<1>1. claim \in Claims BY DEF TypeOK
<1>2. /\ c.buyout \in Texts /\ c.reimbursement \in Texts
      /\ f.buyout \in Texts /\ f.reimbursement \in Texts
      /\ claim.buyout \in Texts /\ claim.reimbursement \in Texts
  BY <1>1 DEF Claims, Releases
<1>3. FloatZero \in Texts /\ FloatZero.amount = 0
  BY SettlementsAssumption DEF FloatZero, Texts
<1>4. \A t \in Texts : t.amount \in Nat
  BY SettlementsAssumption DEF Texts
<1>5. CASE f.reimbursement # c.reimbursement /\ f.reimbursement.amount > 0
  <2>1. buyout_or_reimbursement(c, f) =
          [claim EXCEPT !.buyout = FloatZero, !.reimbursement = f.reimbursement]
    BY <1>5 DEF buyout_or_reimbursement, Zeroed
  <2>2. buyout_or_reimbursement(c, f) \in Claims
    BY <1>1, <1>2, <1>3, <2>1 DEF Claims
  <2>3. buyout_or_reimbursement(c, f).buyout = FloatZero
    BY <1>1, <2>1 DEF Claims
  <2> QED BY <1>3, <2>2, <2>3
<1>6. CASE /\ ~(f.reimbursement # c.reimbursement /\ f.reimbursement.amount > 0)
           /\ f.buyout # c.buyout /\ f.buyout.amount > 0
  <2>1. buyout_or_reimbursement(c, f) =
          [claim EXCEPT !.buyout = f.buyout, !.reimbursement = FloatZero]
    BY <1>6 DEF buyout_or_reimbursement, Zeroed
  <2>2. buyout_or_reimbursement(c, f) \in Claims
    BY <1>1, <1>2, <1>3, <2>1 DEF Claims
  <2>3. buyout_or_reimbursement(c, f).reimbursement = FloatZero
    BY <1>1, <2>1 DEF Claims
  <2> QED BY <1>3, <2>2, <2>3
<1>7. CASE /\ ~(f.reimbursement # c.reimbursement /\ f.reimbursement.amount > 0)
           /\ ~(f.buyout # c.buyout /\ f.buyout.amount > 0)
  <2>1. buyout_or_reimbursement(c, f) =
          [claim EXCEPT !.buyout = Kept(f.buyout, c.buyout, @),
                        !.reimbursement = Kept(f.reimbursement, c.reimbursement, @)]
    BY <1>7 DEF buyout_or_reimbursement
  <2>2. /\ Kept(f.buyout, c.buyout, claim.buyout) \in Texts
        /\ Kept(f.reimbursement, c.reimbursement, claim.reimbursement) \in Texts
    BY <1>2 DEF Kept
  <2>3. /\ Kept(f.buyout, c.buyout, claim.buyout).amount > 0 => claim.buyout.amount > 0
        /\ Kept(f.reimbursement, c.reimbursement, claim.reimbursement).amount > 0
              => claim.reimbursement.amount > 0
    BY <1>2, <1>4, <1>7 DEF Kept
  <2> QED BY <1>1, <2>1, <2>2, <2>3 DEF OneSettlement, Claims
<1> QED BY <1>5, <1>6, <1>7

-----------------------------------------------------------------------------
(* Steps *)

\* The columns that the proofs of the steps need, without expanding TypeOK.
LEMMA Types ==
    ASSUME TypeOK
    PROVE  /\ claim \in Claims /\ repairs \in Seq(Repairs) /\ Len(repairs) \in Nat
           /\ \A r \in Requests :
                /\ copy[r] \in [claim : Claims, id : Nat, repair : Repairs]
                /\ copy[r].id <= Len(repairs)
                /\ copy[r].id # 0 => repairs[copy[r].id] \in Repairs
                /\ req[r].kind = "form" => req[r] \in Forms
                /\ req[r].kind = "release" => req[r] \in Releases
                /\ req[r].kind \notin {"form", "release"} =>
                      req[r] \in Asks(1 .. Len(repairs)) \cup {Idle}
<1>1. /\ claim \in Claims /\ repairs \in Seq(Repairs) /\ Len(repairs) \in Nat
      /\ copy \in [Requests -> [claim : Claims, id : Nat, repair : Repairs]]
      /\ req \in [Requests -> Pages \cup Asks(1 .. Len(repairs)) \cup {Idle}]
      /\ \A r \in Requests : copy[r].id <= Len(repairs)
  BY DEF TypeOK
<1>2. ASSUME NEW r \in Requests, copy[r].id # 0 PROVE repairs[copy[r].id] \in Repairs
  <2>1. copy[r].id \in 1 .. Len(repairs) BY <1>1, <1>2
  <2> QED BY <1>1, <2>1
<1>3. ASSUME NEW r \in Requests
      PROVE  /\ req[r].kind = "form" => req[r] \in Forms
             /\ req[r].kind = "release" => req[r] \in Releases
             /\ req[r].kind \notin {"form", "release"} =>
                   req[r] \in Asks(1 .. Len(repairs)) \cup {Idle}
  <2>1. \/ req[r] \in Forms \/ req[r] \in Releases
        \/ req[r] \in Asks(1 .. Len(repairs)) \/ req[r] = Idle
    BY <1>1 DEF Pages
  <2>2. req[r] \in Asks(1 .. Len(repairs)) => req[r].kind \notin {"form", "release"} BY AskFields
  <2>3. Idle.kind \notin {"form", "release"} BY DEF Idle
  <2>4. req[r] \in Forms => req[r].kind = "form" BY DEF Forms
  <2>5. req[r] \in Releases => req[r].kind = "release" BY DEF Releases
  <2> QED BY <2>1, <2>2, <2>3, <2>4, <2>5
<1> QED BY <1>1, <1>2, <1>3

\* A request's parameters stay what they are when repairs are added.
LEMMA ReqStays ==
    ASSUME TypeOK, Len(repairs') \in Nat, Len(repairs) <= Len(repairs')
    PROVE  req \in [Requests -> Pages \cup Asks(1 .. Len(repairs')) \cup {Idle}]
<1>1. /\ req \in [Requests -> Pages \cup Asks(1 .. Len(repairs)) \cup {Idle}]
      /\ Len(repairs) \in Nat
  BY DEF TypeOK
<1>2. \A a \in Asks(1 .. Len(repairs)) : a \in Asks(1 .. Len(repairs'))
  BY <1>1, AskStays
<1> QED BY <1>1, <1>2

\* A request that ends leaves the others as they were.
LEMMA EndsType ==
    ASSUME TypeOK, NEW r \in Requests, Ends(r), clean' \in [Requests -> BOOLEAN],
           claim' \in Claims, repairs' \in Seq(Repairs), Len(repairs) <= Len(repairs')
    PROVE  TypeOK'
<1>1. Len(repairs) \in Nat /\ Len(repairs') \in Nat BY DEF TypeOK
<1>2. req \in [Requests -> Pages \cup Asks(1 .. Len(repairs')) \cup {Idle}]
  BY <1>1, ReqStays
<1>3. req' \in [Requests -> Pages \cup Asks(1 .. Len(repairs')) \cup {Idle}]
  BY <1>2 DEF Ends
<1>4. /\ pc' \in [Requests -> {"idle", "form", "loaded", "date", "saved"}]
      /\ begun' \in Nat
  BY DEF TypeOK, Ends
<1>5. copy' \in [Requests -> [claim : Claims, id : Nat, repair : Repairs]]
  BY NothingType DEF TypeOK, Ends
<1>6. ASSUME NEW q \in Requests
      PROVE  /\ pc'[q] \in {"form", "saved"} => req'[q] \in Pages
             /\ pc'[q] = "date" => req'[q] \in Forms /\ req'[q].date # None
             /\ req'[q].kind = "form" => req'[q].id <= Len(repairs')
             /\ At(q, ById)' => copy'[q].id # 0
             /\ copy'[q].id <= Len(repairs')
  <2>1. CASE q = r
    <3>1. pc'[q] = "idle" /\ req'[q] = Idle /\ copy'[q] = Nothing
      BY <2>1 DEF TypeOK, Ends
    <3> QED BY <1>1, <3>1 DEF Idle, Nothing, At
  <2>2. CASE q # r
    <3>1. pc'[q] = pc[q] /\ req'[q] = req[q] /\ copy'[q] = copy[q]
      BY <2>2 DEF TypeOK, Ends
    <3>2. req[q].kind = "form" => req[q] \in Forms BY Types
    <3>3. copy[q].id \in Nat BY DEF TypeOK
    <3>4. req[q].kind = "form" => req[q].id \in Nat BY <3>2 DEF Forms
    <3>5. /\ pc[q] \in {"form", "saved"} => req[q] \in Pages
          /\ pc[q] = "date" => req[q] \in Forms /\ req[q].date # None
          /\ req[q].kind = "form" => req[q].id <= Len(repairs)
          /\ At(q, ById) => copy[q].id # 0
          /\ copy[q].id <= Len(repairs)
      BY DEF TypeOK
    <3> QED BY <1>1, <3>1, <3>3, <3>4, <3>5 DEF At
  <2> QED BY <2>1, <2>2
<1> QED BY <1>3, <1>4, <1>5, <1>6 DEF TypeOK

LEMMA StopsType ==
    ASSUME TypeOK, OneSettlement, NEW r \in Requests, Stops(r)
    PROVE  TypeOK' /\ OneSettlement'
<1>1. /\ clean' \in [Requests -> BOOLEAN] /\ claim' \in Claims /\ repairs' \in Seq(Repairs)
      /\ Len(repairs) <= Len(repairs')
  BY DEF TypeOK, Stops
<1>2. TypeOK' BY <1>1, EndsType DEF Stops
<1>3. OneSettlement' BY DEF OneSettlement, Stops
<1> QED BY <1>2, <1>3

LEMMA SaveClaimType ==
    ASSUME TypeOK, NEW r \in Requests, NEW row \in Claims, SaveClaim(r, row),
           OneSettlement, row.buyout = claim.buyout, row.reimbursement = claim.reimbursement
    PROVE  TypeOK' /\ OneSettlement'
<1>1. /\ clean' \in [Requests -> BOOLEAN] /\ claim' \in Claims /\ repairs' \in Seq(Repairs)
      /\ Len(repairs) <= Len(repairs')
  BY DEF TypeOK, SaveClaim, Wrote
<1>2. TypeOK' BY <1>1, EndsType DEF SaveClaim
<1>3. OneSettlement' BY DEF OneSettlement, SaveClaim
<1> QED BY <1>2, <1>3

LEMMA SaveRepairType ==
    ASSUME TypeOK, NEW r \in Requests, NEW row \in Repairs, SaveRepair(r, row),
           OneSettlement, copy[r].id # 0
    PROVE  TypeOK' /\ OneSettlement'
<1>1. /\ repairs \in Seq(Repairs) /\ copy[r].id \in 1 .. Len(repairs) /\ Len(repairs) \in Nat
  BY Types
<1>2. repairs' \in Seq(Repairs) /\ Len(repairs') = Len(repairs)
  BY <1>1 DEF SaveRepair
<1>3. clean' \in [Requests -> BOOLEAN] /\ claim' \in Claims
  BY DEF TypeOK, SaveRepair, Wrote
<1>4. TypeOK' BY <1>1, <1>2, <1>3, EndsType DEF SaveRepair
<1>5. OneSettlement' BY DEF OneSettlement, SaveRepair
<1> QED BY <1>4, <1>5

LEMMA CreateRepairType ==
    ASSUME TypeOK, NEW r \in Requests, NEW row \in Repairs, CreateRepair(r, row), OneSettlement
    PROVE  TypeOK' /\ OneSettlement'
<1>1. repairs \in Seq(Repairs) /\ Len(repairs) \in Nat
  BY Types
<1>2. repairs' \in Seq(Repairs) /\ Len(repairs') = Len(repairs) + 1
  BY <1>1 DEF CreateRepair
<1>3. clean' \in [Requests -> BOOLEAN] /\ claim' \in Claims
  BY DEF TypeOK, CreateRepair, Wrote
<1>4. TypeOK' BY <1>1, <1>2, <1>3, EndsType DEF CreateRepair
<1>5. OneSettlement' BY DEF OneSettlement, CreateRepair
<1> QED BY <1>4, <1>5

-----------------------------------------------------------------------------
(* The small requests *)

LEMMA AmountType ==
    ASSUME TypeOK, OneSettlement, NEW r \in Requests, Amount(r)
    PROVE  TypeOK' /\ OneSettlement'
<1> DEFINE new == req[r].amount
<1> DEFINE id  == copy[r].id
<1>1. new \in Amounts BY Types, AskFields DEF Amount, At, Idle
<1>2. \A stored \in {Unauthorized, "0", "1"} :
         Authorization(new, stored) \in {Unauthorized, "0", "1"}
  BY DEF Authorization
<1>3. CASE id = 0
  <2> DEFINE row == [NewRepair EXCEPT !.amount = new, !.authorization = Authorization(new, @)]
  <2>1. row \in Repairs BY <1>1, <1>2, NothingType DEF Repairs
  <2>2. CreateRepair(r, row) BY <1>3 DEF Amount
  <2> QED BY <2>1, <2>2, CreateRepairType
<1>4. CASE id # 0
  <2> DEFINE row == [repairs[id] EXCEPT !.amount = Kept(new, copy[r].repair.amount, @),
                                        !.authorization = Authorization(new, @)]
  <2>1. repairs[id] \in Repairs BY <1>4, Types
  <2>2. row \in Repairs BY <1>1, <1>2, <2>1 DEF Repairs, Kept
  <2>3. SaveRepair(r, row) BY <1>4 DEF Amount
  <2> QED BY <1>4, <2>2, <2>3, SaveRepairType
<1> QED BY <1>3, <1>4

LEMMA BlankAmountType ==
    ASSUME TypeOK, OneSettlement, NEW r \in Requests, BlankAmount(r)
    PROVE  TypeOK' /\ OneSettlement'
<1> DEFINE row == [repairs[copy[r].id] EXCEPT !.amount = Kept(0, copy[r].repair.amount, @)]
<1>1. CASE Stops(r) BY <1>1, StopsType
<1>2. CASE copy[r].id # 0 /\ SaveRepair(r, row)
  <2>1. repairs[copy[r].id] \in Repairs BY <1>2, Types
  <2>2. row \in Repairs BY <2>1, AmountsAssumption DEF Repairs, Kept
  <2> QED BY <1>2, <2>2, SaveRepairType
<1> QED BY <1>1, <1>2 DEF BlankAmount

LEMMA AssignType ==
    ASSUME TypeOK, OneSettlement, NEW r \in Requests, Assign(r)
    PROVE  TypeOK' /\ OneSettlement'
<1> DEFINE new == req[r].contractor
<1> DEFINE id  == copy[r].id
<1>1. new \in Contractors BY Types, AskFields DEF Assign, At, Idle
<1>2. CASE id = 0
  <2> DEFINE row == [NewRepair EXCEPT !.contractor_id = new]
  <2>1. row \in Repairs BY <1>1, NothingType DEF Repairs
  <2>2. CreateRepair(r, row) BY <1>2 DEF Assign
  <2> QED BY <2>1, <2>2, CreateRepairType
<1>3. CASE id # 0
  <2> DEFINE row == [repairs[id] EXCEPT
                        !.contractor_id = Kept(new, copy[r].repair.contractor_id, @)]
  <2>1. repairs[id] \in Repairs BY <1>3, Types
  <2>2. row \in Repairs BY <1>1, <2>1 DEF Repairs, Kept
  <2>3. SaveRepair(r, row) BY <1>3 DEF Assign
  <2> QED BY <1>3, <2>2, <2>3, SaveRepairType
<1> QED BY <1>2, <1>3

LEMMA StatusCodeType ==
    ASSUME TypeOK, OneSettlement, NEW r \in Requests, StatusCode(r)
    PROVE  TypeOK' /\ OneSettlement'
<1> DEFINE row == [claim EXCEPT !.status_code = Kept(req[r].code, copy[r].claim.status_code, @)]
<1>1. req[r].code \in Codes BY Types, AskFields DEF StatusCode, At, Idle
<1>2. /\ row \in Claims
      /\ row.buyout = claim.buyout /\ row.reimbursement = claim.reimbursement
  BY <1>1, Types DEF Claims, Kept
<1> QED BY <1>2, SaveClaimType DEF StatusCode

LEMMA InvoiceStatusType ==
    ASSUME TypeOK, OneSettlement, NEW r \in Requests, InvoiceStatus(r)
    PROVE  TypeOK' /\ OneSettlement'
<1> DEFINE row == [claim EXCEPT
                     !.invoice_status = Kept(req[r].status, copy[r].claim.invoice_status, @)]
<1>1. req[r].status \in Statuses \cup {None} BY Types, AskFields DEF InvoiceStatus, At, Idle
<1>2. /\ row \in Claims
      /\ row.buyout = claim.buyout /\ row.reimbursement = claim.reimbursement
  BY <1>1, Types DEF Claims, Kept
<1> QED BY <1>2, SaveClaimType DEF InvoiceStatus

LEMMA AsyncReceiveType ==
    ASSUME TypeOK, OneSettlement, NEW r \in Requests, AsyncReceive(r)
    PROVE  TypeOK' /\ OneSettlement'
<1> DEFINE row == [claim EXCEPT !.invoice_receive =
                     Kept(Misread[req[r].date], copy[r].claim.invoice_receive, @)]
<1>1. req[r].date \in Dates BY Types, AskFields DEF AsyncReceive, At, Idle
<1>2. Misread[req[r].date] \in Dates \cup {None} BY <1>1, MisreadAssumption
<1>3. /\ row \in Claims
      /\ row.buyout = claim.buyout /\ row.reimbursement = claim.reimbursement
  BY <1>2, Types DEF Claims, Kept
<1> QED BY <1>3, SaveClaimType DEF AsyncReceive

LEMMA ReceiveType ==
    ASSUME TypeOK, OneSettlement, NEW r \in Requests, Receive(r)
    PROVE  TypeOK' /\ OneSettlement'
<1> DEFINE row == [claim EXCEPT
                     !.invoice_receive = Kept(req[r].date, copy[r].claim.invoice_receive, @),
                     !.invoice_status  = Kept("Received", copy[r].claim.invoice_status, @)]
<1>1. req[r].date \in Dates BY Types, AskFields DEF Receive, At, Idle
<1>2. /\ row \in Claims
      /\ row.buyout = claim.buyout /\ row.reimbursement = claim.reimbursement
  BY <1>1, Types, StatusesAssumption DEF Claims, Kept
<1> QED BY <1>2, SaveClaimType DEF Receive

LEMMA ClearReceiveType ==
    ASSUME TypeOK, OneSettlement, NEW r \in Requests, ClearReceive(r)
    PROVE  TypeOK' /\ OneSettlement'
<1> DEFINE row == [claim EXCEPT !.invoice_receive = Kept(None, copy[r].claim.invoice_receive, @)]
<1>1. /\ row \in Claims
      /\ row.buyout = claim.buyout /\ row.reimbursement = claim.reimbursement
  BY Types DEF Claims, Kept
<1> QED BY <1>1, SaveClaimType DEF ClearReceive

\* toggle_status, toggle_authorization, complete and unassign.
LEMMA RepairsType ==
    ASSUME TypeOK, OneSettlement, NEW r \in Requests,
           toggle_status(r) \/ toggle_authorization(r) \/ complete(r) \/ unassign(r)
    PROVE  TypeOK' /\ OneSettlement'
<1> DEFINE id == copy[r].id
<1>1. id # 0 => repairs[id] \in Repairs BY Types
<1>2. copy[r].repair.status \in {0, 1} BY Types DEF Repairs
<1>3. At(r, ById) => id # 0 BY DEF TypeOK
<1>4. CASE toggle_status(r)
  <2> DEFINE row == [repairs[id] EXCEPT !.status = 1 - copy[r].repair.status]
  <2>1. id # 0 BY <1>3, <1>4 DEF toggle_status, At, ById
  <2>2. row \in Repairs BY <1>1, <1>2, <2>1 DEF Repairs
  <2> QED BY <1>4, <2>1, <2>2, SaveRepairType DEF toggle_status
<1>5. CASE toggle_authorization(r)
  <2> DEFINE row == [repairs[id] EXCEPT !.authorization = "0"]
  <2>1. id # 0 BY <1>3, <1>5 DEF toggle_authorization, At, ById
  <2>2. row \in Repairs BY <1>1, <2>1 DEF Repairs
  <2> QED BY <1>5, <2>1, <2>2, SaveRepairType DEF toggle_authorization
<1>6. CASE complete(r)
  <2> DEFINE row == [repairs[id] EXCEPT !.status = Kept(1, copy[r].repair.status, @)]
  <2>1. id # 0 BY <1>3, <1>6 DEF complete, At, ById
  <2>2. row \in Repairs BY <1>1, <2>1 DEF Repairs, Kept
  <2>3. Stops(r) \/ SaveRepair(r, row) BY <1>6 DEF complete
  <2> QED BY <2>1, <2>2, <2>3, SaveRepairType, StopsType
<1>7. CASE unassign(r)
  <2> DEFINE row == [repairs[id] EXCEPT
                       !.contractor_id = Kept(None, copy[r].repair.contractor_id, @)]
  <2>1. id # 0 => row \in Repairs BY <1>1 DEF Repairs, Kept
  <2>2. Stops(r) \/ (id # 0 /\ SaveRepair(r, row)) BY <1>7 DEF unassign
  <2> QED BY <2>1, <2>2, SaveRepairType, StopsType
<1> QED BY <1>4, <1>5, <1>6, <1>7

-----------------------------------------------------------------------------
(* The forms of the edit page *)

\* A step of r that keeps the rows of repairs in place: what is left to show
\* is about r alone.
LEMMA MovesType ==
    ASSUME TypeOK, NEW r \in Requests, Len(repairs') = Len(repairs), repairs' \in Seq(Repairs),
           claim' \in Claims, clean' \in [Requests -> BOOLEAN], begun' \in Nat,
           NEW at \in {"form", "loaded", "date", "saved"},
           NEW new \in Pages \cup Asks(1 .. Len(repairs)),
           NEW held \in [claim : Claims, id : Nat, repair : Repairs],
           pc'   = [pc EXCEPT ![r] = at],
           req'  = [req EXCEPT ![r] = new],
           copy' = [copy EXCEPT ![r] = held],
           at # "loaded" => new \in Pages,
           at = "date" => new \in Forms /\ new.date # None,
           new.kind = "form" => new.id <= Len(repairs),
           at = "loaded" /\ new.kind \in ById => held.id # 0,
           held.id <= Len(repairs)
    PROVE  TypeOK'
<1>1. /\ pc' \in [Requests -> {"idle", "form", "loaded", "date", "saved"}]
      /\ copy' \in [Requests -> [claim : Claims, id : Nat, repair : Repairs]]
  BY DEF TypeOK
<1>2. req' \in [Requests -> Pages \cup Asks(1 .. Len(repairs')) \cup {Idle}]
  BY DEF TypeOK
<1>3. ASSUME NEW q \in Requests
      PROVE  /\ pc'[q] \in {"form", "saved"} => req'[q] \in Pages
             /\ pc'[q] = "date" => req'[q] \in Forms /\ req'[q].date # None
             /\ req'[q].kind = "form" => req'[q].id <= Len(repairs')
             /\ At(q, ById)' => copy'[q].id # 0
             /\ copy'[q].id <= Len(repairs')
  <2>1. CASE q = r
    <3>1. pc'[q] = at /\ req'[q] = new /\ copy'[q] = held
      BY <2>1 DEF TypeOK
    <3> QED BY <3>1 DEF At
  <2>2. CASE q # r
    <3>1. pc'[q] = pc[q] /\ req'[q] = req[q] /\ copy'[q] = copy[q]
      BY <2>2 DEF TypeOK
    <3>2. /\ pc[q] \in {"form", "saved"} => req[q] \in Pages
          /\ pc[q] = "date" => req[q] \in Forms /\ req[q].date # None
          /\ req[q].kind = "form" => req[q].id <= Len(repairs)
          /\ At(q, ById) => copy[q].id # 0
          /\ copy[q].id <= Len(repairs)
      BY DEF TypeOK
    <3> QED BY <3>1, <3>2 DEF At
  <2> QED BY <2>1, <2>2
<1> QED BY <1>1, <1>2, <1>3 DEF TypeOK

LEMMA RenderType ==
    ASSUME TypeOK, OneSettlement, NEW r \in Requests, Render(r)
    PROVE  TypeOK' /\ OneSettlement'
<1>1. /\ claim' = claim /\ repairs' = repairs /\ copy' = copy
      /\ clean' \in [Requests -> BOOLEAN] /\ begun' \in Nat
  BY DEF Render, Begin, TypeOK
<1>2. copy' = [copy EXCEPT ![r] = copy[r]] BY <1>1 DEF TypeOK
<1>3. PICK f \in {RenderedForm, RenderedRelease} : req' = [req EXCEPT ![r] = f]
  BY DEF Render
<1>4. f \in Pages /\ f.kind \notin ById /\ (f.kind = "form" => f.id <= Len(repairs))
  <2>1. First <= Len(repairs) BY FirstType, Types
  <2>2. f \in Pages BY RenderedType DEF Pages
  <2> QED BY <2>1, <2>2 DEF RenderedForm, RenderedRelease, ById
<1>5. TypeOK'
  <2>1. pc' = [pc EXCEPT ![r] = "form"] BY DEF Render
  <2>2. /\ repairs' \in Seq(Repairs) /\ claim' \in Claims
        /\ copy[r] \in [claim : Claims, id : Nat, repair : Repairs]
        /\ copy[r].id <= Len(repairs)
    BY <1>1, Types
  <2> QED BY <1>1, <1>2, <1>3, <1>4, <2>1, <2>2, MovesType
<1>6. OneSettlement' BY <1>1 DEF OneSettlement
<1> QED BY <1>5, <1>6

LEMMA LoadType ==
    ASSUME TypeOK, OneSettlement, NEW r \in Requests, Load(r)
    PROVE  TypeOK' /\ OneSettlement'
<1>1. /\ claim' = claim /\ repairs' = repairs /\ clean' = clean /\ begun' \in Nat
      /\ pc' = [pc EXCEPT ![r] = "loaded"]
  BY DEF Load, Begin, TypeOK
<1>2. repairs' \in Seq(Repairs) /\ claim' \in Claims /\ clean' \in [Requests -> BOOLEAN]
  BY <1>1 DEF TypeOK
<1>3. /\ Loaded(First) \in [claim : Claims, id : Nat, repair : Repairs]
      /\ Loaded(First).id = First /\ First <= Len(repairs)
  BY FirstType, LoadedType, Types
<1>4. CASE /\ pc[r] = "form"
           /\ \E f \in Edits(req[r]) : req' = [req EXCEPT ![r] = f]
           /\ copy' = [copy EXCEPT ![r] = Loaded(First)]
  <2>1. req[r] \in Pages BY <1>4 DEF TypeOK
  <2>2. PICK f \in Edits(req[r]) : req' = [req EXCEPT ![r] = f] BY <1>4
  <2>3. /\ f \in Pages /\ f.kind = req[r].kind
        /\ req[r].kind = "form" => f.id = req[r].id
    BY <2>1, EditsType
  <2>4. f.kind \in {"form", "release"} BY <2>3 DEF Pages, Forms, Releases
  <2>5. f.kind = "form" => f.id <= Len(repairs) BY <2>3 DEF TypeOK
  <2>6. f.kind \notin ById BY <2>4 DEF ById
  <2> QED BY ZenonT(60), <1>1, <1>2, <1>3, <1>4, <2>2, <2>3, <2>5, <2>6, MovesType DEF OneSettlement
<1>5. ASSUME NEW a \in Asks(1 .. Len(repairs)), req' = [req EXCEPT ![r] = a],
             copy' = [copy EXCEPT ![r] = Loaded(IF a.kind \in ById THEN a.id ELSE First)]
      PROVE  TypeOK' /\ OneSettlement'
  <2> DEFINE id == IF a.kind \in ById THEN a.id ELSE First
  <2>1. Len(repairs) \in Nat /\ First \in 0 .. Len(repairs) BY Types, FirstType
  <2>2. a.kind # "form" /\ (a.kind \in ById => a.id \in 1 .. Len(repairs))
    BY AskFields
  <2>3. id \in 0 .. Len(repairs) /\ (a.kind \in ById => id # 0) BY <2>1, <2>2
  <2> HIDE DEF id
  <2>4. /\ Loaded(id) \in [claim : Claims, id : Nat, repair : Repairs]
        /\ Loaded(id).id = id
    BY <2>3, LoadedType
  <2>5. copy' = [copy EXCEPT ![r] = Loaded(id)] BY <1>5 DEF id
  <2>6. id <= Len(repairs) BY <2>1, <2>3
  <2>7. req' = [req EXCEPT ![r] = a] BY <1>5
  <2> DEFINE held == Loaded(id)
  <2>8. /\ held \in [claim : Claims, id : Nat, repair : Repairs]
        /\ copy' = [copy EXCEPT ![r] = held]
        /\ held.id <= Len(repairs) /\ (a.kind \in ById => held.id # 0)
    BY <2>3, <2>4, <2>5, <2>6
  <2> HIDE DEF held
  <2>9. TypeOK' BY ONLY TypeOK, r \in Requests, a \in Asks(1 .. Len(repairs)),
                       <1>1, <1>2, <2>2, <2>7, <2>8, MovesType
  <2> QED BY <1>1, <2>9 DEF OneSettlement
<1> QED BY <1>4, <1>5 DEF Load

LEMMA SaveFormType ==
    ASSUME TypeOK, OneSettlement, NEW r \in Requests, SaveForm(r)
    PROVE  TypeOK' /\ OneSettlement'
<1> DEFINE f    == req[r]
<1> DEFINE c    == copy[r].claim
<1> DEFINE read == IF f.date = None THEN None ELSE Misread[f.date]
<1> DEFINE new  == IF f.blank THEN 0 ELSE f.amount
<1>1. f \in Forms /\ f.kind = "form" BY Types DEF SaveForm, At
<1>2. /\ c \in Claims /\ copy[r] \in [claim : Claims, id : Nat, repair : Repairs]
      /\ copy[r].id <= Len(repairs)
  BY Types
<1>3. f.code \in Codes BY <1>1, ActiveAssumption DEF Forms
<1>4. read \in Dates \cup {None} BY <1>1, MisreadAssumption DEF Forms
<1>5. FormStatus(c, f) \in Statuses \cup {Blank}
  BY <1>1, StatusesAssumption DEF FormStatus, Forms
<1>6. claim' = [claim EXCEPT
                  !.status_code     = Kept(f.code, c.status_code, @),
                  !.invoice_receive = Kept(read, c.invoice_receive, @),
                  !.invoice_status  = Kept(FormStatus(c, f), c.invoice_status, @)]
  BY DEF SaveForm
<1>7. /\ claim' \in Claims
      /\ claim'.buyout = claim.buyout /\ claim'.reimbursement = claim.reimbursement
  <2> HIDE DEF read
  <2> QED BY <1>3, <1>4, <1>5, <1>6, Types DEF Claims, Kept
<1>8. repairs' \in Seq(Repairs) /\ Len(repairs') = Len(repairs)
  <2>1. CASE f.id = 0 BY <2>1, Types DEF SaveForm
  <2>2. CASE f.id # 0
    <3>1. f.id = 1 BY <1>1, <2>2 DEF Forms
    <3>2. f.id <= Len(repairs) BY <1>1 DEF TypeOK
    <3>3. repairs \in Seq(Repairs) /\ Len(repairs) \in Nat BY Types
    <3>4. repairs[1] \in Repairs BY <3>1, <3>2, <3>3
    <3>5. new \in Amounts BY <1>1, AmountsAssumption DEF Forms
    <3> DEFINE row == [repairs[1] EXCEPT !.amount = Kept(new, copy[r].repair.amount, @)]
    <3>6. row \in Repairs BY <3>4, <3>5 DEF Repairs, Kept
    <3>7. repairs' = [repairs EXCEPT ![1] = row] BY <3>1, <2>2 DEF SaveForm
    <3> HIDE DEF row
    <3> QED BY <3>1, <3>2, <3>3, <3>6, <3>7
  <2> QED BY <2>1, <2>2
<1>9. clean' \in [Requests -> BOOLEAN] /\ begun' \in Nat
  BY DEF SaveForm, Wrote, TypeOK
<1>10. TypeOK'
  <2> DEFINE at == IF f.date = None THEN "saved" ELSE "date"
  <2>1. /\ pc'   = [pc EXCEPT ![r] = at]
        /\ req'  = [req EXCEPT ![r] = f]
        /\ copy' = [copy EXCEPT ![r] = copy[r]]
    BY DEF SaveForm, TypeOK
  <2>2. at \in {"form", "loaded", "date", "saved"} /\ (at = "date" => f.date # None) /\ at # "loaded"
    OBVIOUS
  <2>3. f.id <= Len(repairs) BY <1>1 DEF TypeOK
  <2>4. f \in Pages BY <1>1 DEF Pages
  <2> HIDE DEF at, f
  <2> QED BY <1>1, <1>2, <1>7, <1>8, <1>9, <2>1, <2>2, <2>3, <2>4, MovesType
<1>11. OneSettlement' BY <1>7 DEF OneSettlement
<1> QED BY <1>10, <1>11

LEMMA SaveReleaseType ==
    ASSUME TypeOK, OneSettlement, NEW r \in Requests, SaveRelease(r)
    PROVE  TypeOK' /\ OneSettlement'
<1> DEFINE f == req[r]
           b == buyout_or_reimbursement(copy[r].claim, f)
<1>1. f \in Releases /\ f.kind = "release" BY Types DEF SaveRelease, At
<1>2. /\ copy[r] \in [claim : Claims, id : Nat, repair : Repairs]
      /\ copy[r].id <= Len(repairs)
  BY Types
<1>3. b \in Claims /\ ~(b.buyout.amount > 0 /\ b.reimbursement.amount > 0)
  BY <1>1, <1>2, SettleType
<1>4. claim' = b BY DEF SaveRelease
<1>5. /\ repairs' \in Seq(Repairs) /\ Len(repairs') = Len(repairs)
      /\ clean' \in [Requests -> BOOLEAN] /\ begun' \in Nat
  BY DEF SaveRelease, Wrote, TypeOK
<1>6. TypeOK'
  <2>1. /\ pc'   = [pc EXCEPT ![r] = "saved"]
        /\ req'  = [req EXCEPT ![r] = f]
        /\ copy' = [copy EXCEPT ![r] = copy[r]]
    BY DEF SaveRelease, TypeOK
  <2>2. f \in Pages BY <1>1 DEF Pages
  <2>3. claim' \in Claims BY <1>3, <1>4
  <2> HIDE DEF f, b
  <2> QED BY <1>1, <1>2, <1>5, <2>1, <2>2, <2>3, MovesType
<1>7. OneSettlement' BY <1>3, <1>4 DEF OneSettlement
<1> QED BY <1>6, <1>7

LEMMA SaveDateType ==
    ASSUME TypeOK, OneSettlement, NEW r \in Requests, SaveDate(r)
    PROVE  TypeOK' /\ OneSettlement'
<1>1. req[r] \in Forms /\ req[r].date # None BY DEF SaveDate, TypeOK
<1>2. req[r].kind = "form" /\ req[r].date \in Dates BY <1>1 DEF Forms
<1>3. claim' = [claim EXCEPT !.invoice_receive = Kept(req[r].date, Misread[req[r].date], @)]
  BY DEF SaveDate
<1>4. /\ claim' \in Claims
      /\ claim'.buyout = claim.buyout /\ claim'.reimbursement = claim.reimbursement
  BY <1>2, <1>3, Types DEF Claims, Kept
<1>5. /\ repairs' \in Seq(Repairs) /\ Len(repairs') = Len(repairs)
      /\ clean' \in [Requests -> BOOLEAN] /\ begun' \in Nat
  BY DEF SaveDate, Wrote, TypeOK
<1>6. TypeOK'
  <2>1. /\ pc'   = [pc EXCEPT ![r] = "saved"]
        /\ req'  = [req EXCEPT ![r] = req[r]]
        /\ copy' = [copy EXCEPT ![r] = copy[r]]
    BY DEF SaveDate, TypeOK
  <2>2. /\ req[r].id <= Len(repairs) /\ copy[r].id <= Len(repairs)
        /\ copy[r] \in [claim : Claims, id : Nat, repair : Repairs]
    BY <1>2 DEF TypeOK
  <2>3. req[r] \in Pages BY <1>1 DEF Pages
  <2> QED BY <1>1, <1>4, <1>5, <2>1, <2>2, <2>3, MovesType
<1>7. OneSettlement' BY <1>4 DEF OneSettlement
<1> QED BY <1>6, <1>7

-----------------------------------------------------------------------------
(* The theorems *)

LEMMA InitType == Init => TypeOK /\ OneSettlement
<1> SUFFICES ASSUME Init PROVE TypeOK /\ OneSettlement OBVIOUS
<1>1. claim \in Claims
  BY SettlementsAssumption, CodesAssumption, StatusesAssumption
     DEF Init, Created, Claims, Texts, FloatZero
<1>2. repairs \in Seq(Repairs) /\ Len(repairs) = 0 BY DEF Init
<1>3. OneSettlement BY DEF Init, OneSettlement, Created, FloatZero
<1>4. TypeOK BY <1>1, <1>2, NothingType DEF Init, TypeOK, Idle, Nothing, At
<1> QED BY <1>3, <1>4

LEMMA NextType == TypeOK /\ OneSettlement /\ [Next]_vars => TypeOK' /\ OneSettlement'
<1> SUFFICES ASSUME TypeOK, OneSettlement, [Next]_vars PROVE TypeOK' /\ OneSettlement'
  OBVIOUS
<1>1. ASSUME NEW r \in Requests, Step(r) PROVE TypeOK' /\ OneSettlement'
  <2>1. CASE Render(r) \/ Load(r) BY <2>1, RenderType, LoadType
  <2>2. CASE SaveForm(r) \/ SaveDate(r) \/ SaveRelease(r)
    BY <2>2, SaveFormType, SaveDateType, SaveReleaseType
  <2>3. CASE Answer(r) \/ GiveUp(r) BY <2>3, StopsType DEF Answer, GiveUp
  <2>4. CASE Amount(r) \/ BlankAmount(r) \/ Assign(r)
    BY <2>4, AmountType, BlankAmountType, AssignType
  <2>5. CASE StatusCode(r) \/ InvoiceStatus(r) \/ AsyncReceive(r)
    BY <2>5, StatusCodeType, InvoiceStatusType, AsyncReceiveType
  <2>6. CASE Receive(r) \/ ClearReceive(r) BY <2>6, ReceiveType, ClearReceiveType
  <2>7. CASE toggle_status(r) \/ toggle_authorization(r) \/ complete(r) \/ unassign(r)
    BY <2>7, RepairsType
  <2> QED BY <1>1, <2>1, <2>2, <2>3, <2>4, <2>5, <2>6, <2>7 DEF Step
<1>2. CASE UNCHANGED vars BY <1>2 DEF vars, TypeOK, OneSettlement, At
<1> QED BY <1>1, <1>2 DEF Next, Quiescent

\* Every column, copy and form keeps its type, and every id a request holds
\* is one of a repair that exists.
THEOREM TypeCorrect == Spec => []TypeOK
<1>1. Spec => [](TypeOK /\ OneSettlement) BY InitType, NextType, PTL DEF Spec
<1> QED BY <1>1, PTL

\* However many agents' forms and requests overlap, a claim never has both a
\* buyout and a reimbursement (Claim#buyout_or_reimbursement).
THEOREM SettledOneWay == Spec => []OneSettlement
<1>1. Spec => [](TypeOK /\ OneSettlement) BY InitType, NextType, PTL DEF Spec
<1> QED BY <1>1, PTL

-----------------------------------------------------------------------------
(* Authorized for nothing *)

\* What ZeroIsNeverAuthorizedAfresh says of row i in one step.
Explained(i) ==
    \/ i <= Len(repairs) /\ AuthorizedForNothing(repairs[i])
    \/ \E r \in Requests :
          /\ pc[r] = "loaded" /\ pc'[r] # "loaded"
          /\ \/ req[r].kind \in {"form", "blank_amount"}
             \/ copy[r].id = i /\ copy[r].repair # repairs[i]

\* A request that saves a repair changes that row alone, and is then over.
LEMMA SavedRow ==
    ASSUME TypeOK, NEW r \in Requests, pc[r] = "loaded",
           NEW row, SaveRepair(r, row), copy[r].id # 0,
           NEW i \in 1 .. Len(repairs'), AuthorizedForNothing(repairs'[i]),
           copy[r].repair = repairs[copy[r].id] /\ AuthorizedForNothing(row)
               => AuthorizedForNothing(repairs[copy[r].id])
    PROVE  Explained(i)
<1>1. /\ repairs \in Seq(Repairs) /\ copy[r].id \in 1 .. Len(repairs)
      /\ pc \in [Requests -> {"idle", "form", "loaded", "date", "saved"}]
  BY DEF TypeOK
<1>2. /\ repairs' = [repairs EXCEPT ![copy[r].id] = row]
      /\ pc' = [pc EXCEPT ![r] = "idle"]
  BY DEF SaveRepair, Ends
<1>3. Len(repairs') = Len(repairs) /\ pc'[r] # "loaded"
  BY <1>1, <1>2
<1>4. CASE i # copy[r].id
  <2>1. repairs'[i] = repairs[i] BY <1>1, <1>2, <1>3, <1>4
  <2> QED BY <2>1, <1>3 DEF Explained
<1>5. CASE i = copy[r].id
  <2>1. repairs'[i] = row BY <1>1, <1>2, <1>5
  <2>2. CASE copy[r].repair = repairs[i]
    BY <2>1, <2>2, <1>3, <1>5 DEF Explained
  <2>3. CASE copy[r].repair # repairs[i]
    BY <2>3, <1>3, <1>5 DEF Explained
  <2> QED BY <2>2, <2>3
<1> QED BY <1>4, <1>5

LEMMA CreatedRow ==
    ASSUME TypeOK, NEW r \in Requests, NEW row, CreateRepair(r, row),
           ~AuthorizedForNothing(row),
           NEW i \in 1 .. Len(repairs'), AuthorizedForNothing(repairs'[i])
    PROVE  Explained(i)
<1>1. repairs \in Seq(Repairs) /\ repairs' = Append(repairs, row)
  BY DEF TypeOK, CreateRepair
<1>2. i <= Len(repairs)
  BY <1>1
<1>3. repairs'[i] = repairs[i]
  BY <1>1, <1>2
<1> QED BY <1>2, <1>3 DEF Explained

LEMMA AmountExplained ==
    ASSUME TypeOK, NEW r \in Requests, Amount(r),
           NEW i \in 1 .. Len(repairs'), AuthorizedForNothing(repairs'[i])
    PROVE  Explained(i)
<1> DEFINE new == req[r].amount
           id  == copy[r].id
<1>1. pc[r] = "loaded" /\ new \in Nat
  <2>1. pc[r] = "loaded" /\ req[r].kind = "amount" BY DEF Amount, At
  <2>2. req[r] \in Asks(1 .. Len(repairs)) BY <2>1, Types DEF Idle
  <2>3. new \in Amounts BY <2>1, <2>2, AskFields
  <2> QED BY <2>1, <2>3, AmountsAssumption
<1>2. CASE id = 0
  <2> DEFINE row == [NewRepair EXCEPT !.amount = new, !.authorization = Authorization(new, @)]
  <2>1. CreateRepair(r, row) BY <1>2 DEF Amount
  <2>2. ~AuthorizedForNothing(row)
    BY <1>1 DEF AuthorizedForNothing, Authorization, NewRepair, Unauthorized
  <2> QED BY <2>1, <2>2, CreatedRow
<1>3. CASE id # 0
  <2> DEFINE row == [repairs[id] EXCEPT !.amount = Kept(new, copy[r].repair.amount, @),
                                        !.authorization = Authorization(new, @)]
  <2>1. SaveRepair(r, row) BY <1>3 DEF Amount
  <2>2. repairs[id] \in Repairs BY <1>3 DEF TypeOK
  <2>3. row.authorization = Authorization(new, repairs[id].authorization)
    BY <2>2 DEF Repairs
  <2>4. row.amount = Kept(new, copy[r].repair.amount, repairs[id].amount)
    BY <2>2 DEF Repairs
  <2>5. ASSUME copy[r].repair = repairs[id], AuthorizedForNothing(row)
        PROVE  AuthorizedForNothing(repairs[id])
    <3>1. new = 0 BY <2>4, <2>5 DEF AuthorizedForNothing, Kept
    <3> QED BY <3>1, <2>3, <2>5 DEF AuthorizedForNothing, Authorization
  <2> QED BY <1>1, <1>3, <2>1, <2>5, SavedRow
<1> QED BY <1>2, <1>3

\* The other requests about a repair leave its amount and its authorization,
\* or withdraw the authorization.
LEMMA RepairExplained ==
    ASSUME TypeOK, NEW r \in Requests,
           toggle_status(r) \/ toggle_authorization(r) \/ complete(r) \/ unassign(r)
               \/ Assign(r),
           NEW i \in 1 .. Len(repairs'), AuthorizedForNothing(repairs'[i])
    PROVE  Explained(i)
<1> DEFINE id == copy[r].id
<1>1. pc[r] = "loaded" /\ (id # 0 => repairs[id] \in Repairs)
  BY DEF toggle_status, toggle_authorization, complete, unassign, Assign, At, TypeOK
<1>2. CASE UNCHANGED repairs
  BY <1>2 DEF Explained
<1>3. ASSUME id # 0, NEW row, SaveRepair(r, row),
             AuthorizedForNothing(row) => AuthorizedForNothing(repairs[id])
      PROVE  Explained(i)
  BY <1>1, <1>3, SavedRow
<1>4. CASE toggle_status(r)
  <2>1. id # 0 BY <1>4 DEF toggle_status, TypeOK, At, ById
  <2> QED BY <1>1, <1>3, <1>4, <2>1 DEF toggle_status, AuthorizedForNothing, Repairs
<1>5. CASE toggle_authorization(r)
  <2>1. id # 0 BY <1>5 DEF toggle_authorization, TypeOK, At, ById
  <2> QED BY <1>1, <1>3, <1>5, <2>1 DEF toggle_authorization, AuthorizedForNothing, Repairs
<1>6. CASE complete(r)
  <2>1. id # 0 BY <1>6 DEF complete, TypeOK, At, ById
  <2> QED BY <1>1, <1>2, <1>3, <1>6, <2>1 DEF complete, AuthorizedForNothing, Repairs, Stops
<1>7. CASE unassign(r)
  BY <1>1, <1>2, <1>3, <1>7 DEF unassign, AuthorizedForNothing, Repairs, Stops
<1>8. CASE Assign(r)
  <2> DEFINE new == req[r].contractor
  <2>1. CASE id = 0
    <3>1. CreateRepair(r, [NewRepair EXCEPT !.contractor_id = new])
      BY <1>8, <2>1 DEF Assign
    <3>2. ~AuthorizedForNothing([NewRepair EXCEPT !.contractor_id = new])
      BY DEF AuthorizedForNothing, NewRepair, Unauthorized
    <3> QED BY <3>1, <3>2, CreatedRow
  <2>2. CASE id # 0
    BY <1>1, <1>3, <1>8, <2>2 DEF Assign, AuthorizedForNothing, Repairs
  <2> QED BY <2>1, <2>2
<1> QED BY <1>4, <1>5, <1>6, <1>7, <1>8

LEMMA NextExplained ==
    TypeOK /\ [Next]_vars =>
        [\A i \in 1 .. Len(repairs') : AuthorizedForNothing(repairs'[i]) => Explained(i)]_vars
<1> SUFFICES ASSUME TypeOK, Next,
                    NEW i \in 1 .. Len(repairs'), AuthorizedForNothing(repairs'[i])
             PROVE  Explained(i)
  OBVIOUS
<1>1. CASE UNCHANGED repairs
  BY <1>1 DEF Explained
<1>2. ASSUME NEW r \in Requests, Step(r) PROVE Explained(i)
  <2>1. CASE SaveForm(r) \/ BlankAmount(r)
    <3>1. /\ pc[r] = "loaded" /\ pc'[r] # "loaded"
          /\ req[r].kind \in {"form", "blank_amount"}
      BY <2>1 DEF SaveForm, BlankAmount, At, Stops, SaveRepair, Ends, TypeOK
    <3> QED BY <3>1 DEF Explained
  <2>2. CASE Amount(r) BY <2>2, AmountExplained
  <2>3. CASE toggle_status(r) \/ toggle_authorization(r) \/ complete(r) \/ unassign(r)
                 \/ Assign(r)
    BY <2>3, RepairExplained
  <2>4. CASE Render(r) \/ Load(r) \/ SaveDate(r) \/ SaveRelease(r) \/ Answer(r) \/ GiveUp(r)
    BY <1>1, <2>4 DEF Render, Load, SaveDate, SaveRelease, Answer, GiveUp, Stops
  <2>5. CASE StatusCode(r) \/ InvoiceStatus(r) \/ AsyncReceive(r) \/ Receive(r)
                 \/ ClearReceive(r)
    BY <1>1, <2>5 DEF StatusCode, InvoiceStatus, AsyncReceive, Receive, ClearReceive, SaveClaim
  <2> QED BY <1>2, <2>1, <2>2, <2>3, <2>4, <2>5 DEF Step
<1> QED BY <1>1, <1>2 DEF Next, Quiescent, vars

\* A repair comes to be authorized for $0 only through the edit form, a blank
\* amount or a stale copy (claims#async_update_claim_or_repair).
THEOREM ZeroNotAuthorizedAfresh == Spec => ZeroIsNeverAuthorizedAfresh
BY TypeCorrect, NextExplained, PTL DEF Spec, ZeroIsNeverAuthorizedAfresh, Explained

-----------------------------------------------------------------------------
(* What a form of the edit page says is what is saved.  As long as no one    *)
(* else writes, the form is about the first repair, the copy is the row, and *)
(* after each save the rows are the form's.                                  *)

FormEffect(r, day) ==
    /\ claim = [copy[r].claim EXCEPT
          !.status_code     = req[r].code,
          !.invoice_receive = day,
          !.invoice_status  = IF req[r].date \in {None, copy[r].claim.invoice_receive}
                              THEN req[r].status ELSE "Received"]
    /\ req[r].id = 1 => repairs[1] = [copy[r].repair EXCEPT
                            !.amount = IF req[r].blank THEN 0 ELSE req[r].amount]

ReleaseEffect(r) ==
    /\ claim = [copy[r].claim EXCEPT !.buyout = claim.buyout,
                                     !.reimbursement = claim.reimbursement]
    /\ ~(req[r].buyout.amount > 0 /\ req[r].reimbursement.amount > 0) =>
          /\ claim.buyout.amount = req[r].buyout.amount
          /\ claim.reimbursement.amount = req[r].reimbursement.amount

FormShows(r) ==
    /\ pc[r] # "idle"
    /\ pc[r] = "form" => (req[r].kind = "form" => req[r].id = First)
    /\ pc[r] = "loaded" => /\ req[r].kind \in {"form", "release"}
                           /\ req[r].kind = "form" => req[r].id = First
                           /\ copy[r] = Loaded(First)
    /\ pc[r] = "date" => FormEffect(r, Misread[req[r].date])
    /\ pc[r] = "saved" => /\ req[r].kind = "form" => FormEffect(r, req[r].date)
                          /\ req[r].kind = "release" => ReleaseEffect(r)

FormInv == \A r \in Requests : clean[r] => FormShows(r)

\* The small requests, and pages and requests that are given up.
Short(r) ==
    \/ Amount(r) \/ BlankAmount(r) \/ Assign(r) \/ StatusCode(r) \/ InvoiceStatus(r)
    \/ AsyncReceive(r) \/ Receive(r) \/ ClearReceive(r) \/ toggle_status(r)
    \/ toggle_authorization(r) \/ complete(r) \/ unassign(r)

LEMMA ShortEnds ==
    ASSUME NEW r \in Requests, Short(r)
    PROVE  /\ pc[r] = "loaded" /\ req[r].kind \notin {"form", "release"}
           /\ \/ Stops(r) \/ \E row : SaveClaim(r, row) \/ SaveRepair(r, row) \/ CreateRepair(r, row)
<1>1. CASE Amount(r) \/ BlankAmount(r) \/ Assign(r)
  BY <1>1 DEF Amount, BlankAmount, Assign, At
<1>2. CASE StatusCode(r) \/ InvoiceStatus(r) \/ AsyncReceive(r) \/ Receive(r) \/ ClearReceive(r)
  BY <1>2 DEF StatusCode, InvoiceStatus, AsyncReceive, Receive, ClearReceive, At
<1>3. CASE toggle_status(r) \/ toggle_authorization(r) \/ complete(r) \/ unassign(r)
  BY ZenonT(30), <1>3 DEF toggle_status, toggle_authorization, complete, unassign, At
<1> QED BY <1>1, <1>2, <1>3 DEF Short

\* Whoever keeps a clean form through another request's step has seen nothing
\* happen.
LEMMA Bystander ==
    ASSUME TypeOK, NEW r \in Requests, Step(r), NEW o \in Requests, o # r, clean'[o]
    PROVE  /\ clean[o] /\ UNCHANGED <<claim, repairs>>
           /\ pc'[o] = pc[o] /\ req'[o] = req[o] /\ copy'[o] = copy[o]
<1>1. /\ clean \in [Requests -> BOOLEAN]
      /\ pc \in [Requests -> {"idle", "form", "loaded", "date", "saved"}]
      /\ DOMAIN req = Requests /\ DOMAIN copy = Requests
  BY DEF TypeOK
<1>2. ~Wrote(r) BY DEF Wrote
<1>3. ASSUME Stops(r)
      PROVE  /\ clean[o] /\ UNCHANGED <<claim, repairs>>
             /\ pc'[o] = pc[o] /\ req'[o] = req[o] /\ copy'[o] = copy[o]
  <2>1. /\ pc'  = [pc EXCEPT ![r] = "idle"] /\ req' = [req EXCEPT ![r] = Idle]
        /\ copy' = [copy EXCEPT ![r] = Nothing] /\ clean' = [clean EXCEPT ![r] = FALSE]
        /\ UNCHANGED <<claim, repairs>>
    BY <1>3 DEF Stops, Ends
  <2> QED BY <1>1, <2>1
<1>4. CASE Short(r)
  <2>1. Stops(r) BY <1>2, <1>4, ShortEnds DEF SaveClaim, SaveRepair, CreateRepair
  <2> QED BY <1>3, <2>1
<1>5. CASE Answer(r) \/ GiveUp(r) BY <1>3, <1>5 DEF Answer, GiveUp
<1>6. CASE Render(r)
  <2>1. /\ pc'  = [pc EXCEPT ![r] = "form"] /\ \E f : req' = [req EXCEPT ![r] = f]
        /\ clean' = [clean EXCEPT ![r] = TRUE]
        /\ UNCHANGED <<claim, repairs, copy>>
    BY <1>6 DEF Render
  <2> QED BY <1>1, <2>1
<1>7. CASE Load(r)
  <2>1. /\ pc' = [pc EXCEPT ![r] = "loaded"] /\ UNCHANGED <<claim, repairs, clean>>
        /\ \E f : req' = [req EXCEPT ![r] = f]
        /\ \E held : copy' = [copy EXCEPT ![r] = held]
    BY <1>7 DEF Load
  <2> QED BY <1>1, <2>1
<1>8. CASE SaveForm(r) \/ SaveDate(r) \/ SaveRelease(r)
  BY <1>2, <1>8 DEF SaveForm, SaveDate, SaveRelease
<1> QED BY <1>4, <1>5, <1>6, <1>7, <1>8 DEF Step, Short

LEMMA BystanderShows ==
    ASSUME UNCHANGED <<claim, repairs>>, NEW o \in Requests, FormShows(o),
           pc'[o] = pc[o], req'[o] = req[o], copy'[o] = copy[o]
    PROVE  FormShows(o)'
<1>1. First' = First /\ Loaded(First)' = Loaded(First) BY DEF First, Loaded
<1>2. FormEffect(o, Misread[req[o].date]) => FormEffect(o, Misread[req[o].date])'
  BY DEF FormEffect
<1>3. FormEffect(o, req[o].date) => FormEffect(o, req[o].date)' BY DEF FormEffect
<1>4. ReleaseEffect(o) => ReleaseEffect(o)' BY DEF ReleaseEffect
<1> QED BY <1>1, <1>2, <1>3, <1>4 DEF FormShows

LEMMA RenderShows ==
    ASSUME TypeOK, NEW r \in Requests, Render(r) PROVE FormShows(r)'
<1>1. pc'[r] = "form" /\ UNCHANGED repairs /\ req'[r] \in {RenderedForm, RenderedRelease}
  BY DEF Render, TypeOK
<1>2. req'[r].kind = "form" => req'[r].id = First
  BY <1>1 DEF RenderedForm, RenderedRelease
<1>3. First' = First BY <1>1 DEF First
<1> QED BY <1>1, <1>2, <1>3 DEF FormShows

LEMMA LoadShows ==
    ASSUME TypeOK, NEW r \in Requests, Load(r), clean[r], FormShows(r) PROVE FormShows(r)'
<1>1. pc[r] = "form" BY DEF Load, Begin, FormShows
<1>2. PICK f \in Edits(req[r]) : req' = [req EXCEPT ![r] = f]
  BY <1>1 DEF Load, Begin
<1>3. /\ copy' = [copy EXCEPT ![r] = Loaded(First)]
      /\ pc' = [pc EXCEPT ![r] = "loaded"] /\ UNCHANGED <<claim, repairs>>
  BY <1>1 DEF Load, Begin
<1>4. req[r] \in Pages BY <1>1 DEF TypeOK
<1>5. f \in Pages /\ f.kind = req[r].kind /\ (f.kind = "form" => f.id = req[r].id)
  BY <1>4, EditsType
<1>6. f.kind \in {"form", "release"} BY <1>5 DEF Pages, Forms, Releases
<1>7. pc'[r] = "loaded" /\ req'[r] = f /\ copy'[r] = Loaded(First) BY <1>2, <1>3 DEF TypeOK
<1>8. First' = First /\ Loaded(First)' = Loaded(First) BY <1>3 DEF First, Loaded
<1>9. req[r].kind = "form" => req[r].id = First BY <1>1 DEF FormShows
<1> QED BY <1>5, <1>6, <1>7, <1>8, <1>9 DEF FormShows

\* The before_save, applied to the row that was loaded: the two sums become
\* the form's unless the form gives both.
LEMMA SettlesAsForm ==
    ASSUME TypeOK, NEW f \in Releases, ~(f.buyout.amount > 0 /\ f.reimbursement.amount > 0)
    PROVE  /\ buyout_or_reimbursement(claim, f).buyout.amount = f.buyout.amount
           /\ buyout_or_reimbursement(claim, f).reimbursement.amount = f.reimbursement.amount
<1>1. claim \in Claims BY DEF TypeOK
<1>2. f.buyout \in Texts /\ f.reimbursement \in Texts BY DEF Releases
<1>3. f.buyout.amount \in Nat /\ f.reimbursement.amount \in Nat
  BY <1>2, SettlementsAssumption DEF Texts
<1>4. FloatZero.amount = 0 BY DEF FloatZero
<1>5. CASE f.reimbursement # claim.reimbursement /\ f.reimbursement.amount > 0
  <2>1. buyout_or_reimbursement(claim, f) =
          [claim EXCEPT !.buyout = FloatZero, !.reimbursement = f.reimbursement]
    BY <1>5 DEF buyout_or_reimbursement, Zeroed
  <2>2. /\ buyout_or_reimbursement(claim, f).buyout = FloatZero
        /\ buyout_or_reimbursement(claim, f).reimbursement = f.reimbursement
    BY <1>1, <2>1 DEF Claims
  <2> QED BY <1>3, <1>4, <1>5, <2>2
<1>6. CASE /\ ~(f.reimbursement # claim.reimbursement /\ f.reimbursement.amount > 0)
           /\ f.buyout # claim.buyout /\ f.buyout.amount > 0
  <2>1. buyout_or_reimbursement(claim, f) =
          [claim EXCEPT !.buyout = f.buyout, !.reimbursement = FloatZero]
    BY <1>6 DEF buyout_or_reimbursement, Zeroed
  <2>2. /\ buyout_or_reimbursement(claim, f).buyout = f.buyout
        /\ buyout_or_reimbursement(claim, f).reimbursement = FloatZero
    BY <1>1, <2>1 DEF Claims
  <2> QED BY <1>3, <1>4, <1>6, <2>2
<1>7. CASE /\ ~(f.reimbursement # claim.reimbursement /\ f.reimbursement.amount > 0)
           /\ ~(f.buyout # claim.buyout /\ f.buyout.amount > 0)
  <2>1. buyout_or_reimbursement(claim, f) =
          [claim EXCEPT !.buyout = f.buyout, !.reimbursement = f.reimbursement]
    BY <1>7 DEF buyout_or_reimbursement, Kept
  <2>2. /\ buyout_or_reimbursement(claim, f).buyout = f.buyout
        /\ buyout_or_reimbursement(claim, f).reimbursement = f.reimbursement
    BY <1>1, <2>1 DEF Claims
  <2> QED BY <2>2
<1> QED BY <1>5, <1>6, <1>7

\* It leaves the other columns alone.
LEMMA SettlesOnly ==
    ASSUME TypeOK, NEW f
    PROVE  LET b == buyout_or_reimbursement(claim, f)
           IN  b = [claim EXCEPT !.buyout = b.buyout, !.reimbursement = b.reimbursement]
<1>1. claim \in Claims BY DEF TypeOK
<1>2. PICK x, y : buyout_or_reimbursement(claim, f) =
                    [claim EXCEPT !.buyout = x, !.reimbursement = y]
  BY Zenon DEF buyout_or_reimbursement
<1>3. /\ buyout_or_reimbursement(claim, f).buyout = x
      /\ buyout_or_reimbursement(claim, f).reimbursement = y
  BY <1>1, <1>2 DEF Claims
<1> QED BY <1>2, <1>3

LEMMA SaveReleaseShows ==
    ASSUME TypeOK, NEW r \in Requests, SaveRelease(r), clean[r], FormShows(r)
    PROVE  FormShows(r)'
<1> DEFINE f == req[r]
<1>1. pc[r] = "loaded" /\ f.kind = "release" /\ copy[r] = Loaded(First)
  BY DEF SaveRelease, At, FormShows
<1>2. copy[r].claim = claim BY <1>1 DEF Loaded
<1>3. f \in Releases BY <1>1, Types
<1>4. /\ claim' = buyout_or_reimbursement(claim, f) /\ UNCHANGED <<req, copy>>
      /\ pc'[r] = "saved"
  <2>1. /\ claim' = buyout_or_reimbursement(copy[r].claim, f) /\ UNCHANGED <<req, copy>>
        /\ pc' = [pc EXCEPT ![r] = "saved"]
    BY Zenon DEF SaveRelease
  <2>2. pc \in [Requests -> {"idle", "form", "loaded", "date", "saved"}] BY DEF TypeOK
  <2>3. pc'[r] = "saved" BY <2>1, <2>2
  <2> QED BY Zenon, <1>2, <2>1, <2>3
<1>5. claim' = [claim EXCEPT !.buyout = claim'.buyout, !.reimbursement = claim'.reimbursement]
  BY Zenon, <1>4, SettlesOnly
<1>6. ~(f.buyout.amount > 0 /\ f.reimbursement.amount > 0) =>
          /\ claim'.buyout.amount = f.buyout.amount
          /\ claim'.reimbursement.amount = f.reimbursement.amount
  BY <1>3, <1>4, SettlesAsForm
<1>7. ReleaseEffect(r)' BY <1>2, <1>4, <1>5, <1>6 DEF ReleaseEffect
<1> QED BY <1>1, <1>4, <1>7 DEF FormShows

LEMMA SaveFormShows ==
    ASSUME TypeOK, NEW r \in Requests, SaveForm(r), clean[r], FormShows(r) PROVE FormShows(r)'
<1> DEFINE f    == req[r]
           c    == copy[r].claim
           read == IF f.date = None THEN None ELSE Misread[f.date]
           new  == IF f.blank THEN 0 ELSE f.amount
<1>1. /\ pc[r] = "loaded" /\ f.kind = "form" /\ f.id = First /\ copy[r] = Loaded(First)
  BY DEF SaveForm, At, FormShows
<1>2. c = claim /\ (First = 1 => copy[r].repair = repairs[1]) BY <1>1 DEF Loaded
<1>3. claim \in Claims BY DEF TypeOK
<1>4. /\ claim' = [claim EXCEPT
             !.status_code     = Kept(f.code, claim.status_code, @),
             !.invoice_receive = Kept(read, claim.invoice_receive, @),
             !.invoice_status  = Kept(FormStatus(claim, f), claim.invoice_status, @)]
      /\ repairs' = IF f.id = 0 THEN repairs
                    ELSE [repairs EXCEPT ![f.id].amount = Kept(new, copy[r].repair.amount, @)]
      /\ pc' = [pc EXCEPT ![r] = IF f.date = None THEN "saved" ELSE "date"]
      /\ UNCHANGED <<req, copy>>
  BY <1>2 DEF SaveForm
<1> HIDE DEF read, new
<1>5. \A x, y : Kept(x, y, y) = x BY DEF Kept
<1>6. claim' = [claim EXCEPT !.status_code = f.code, !.invoice_receive = read,
                             !.invoice_status = FormStatus(claim, f)]
  BY <1>3, <1>4, <1>5 DEF Claims
<1>7. FormStatus(claim, f) =
         IF f.date \in {None, c.invoice_receive} THEN f.status ELSE "Received"
  BY <1>2 DEF FormStatus
<1>8. ASSUME f.id = 1 PROVE repairs'[1] = [copy[r].repair EXCEPT !.amount = new]
  <2>1. repairs \in Seq(Repairs) /\ 1 \in 1 .. Len(repairs)
    BY <1>1, <1>8, FirstType DEF TypeOK
  <2>2. repairs[1] \in Repairs BY <2>1
  <2>3. repairs' = [repairs EXCEPT ![1].amount = Kept(new, copy[r].repair.amount, @)]
    BY <1>4, <1>8
  <2>4. copy[r].repair = repairs[1] BY <1>1, <1>2, <1>8
  <2>5. Kept(new, copy[r].repair.amount, repairs[1].amount) = new BY <2>4 DEF Kept
  <2> QED BY <2>1, <2>2, <2>3, <2>4, <2>5
<1>9. pc'[r] = IF f.date = None THEN "saved" ELSE "date" BY <1>4 DEF TypeOK
<1>10. read = IF f.date = None THEN f.date ELSE Misread[f.date] BY DEF read
<1>11. FormEffect(r, IF req[r].date = None THEN req[r].date ELSE Misread[req[r].date])'
  BY <1>2, <1>4, <1>6, <1>7, <1>8, <1>10 DEF FormEffect, new
<1>12. CASE f.date = None BY <1>1, <1>4, <1>9, <1>11, <1>12 DEF FormShows
<1>13. CASE f.date # None BY <1>1, <1>4, <1>9, <1>11, <1>13 DEF FormShows
<1> QED BY <1>12, <1>13

\* The second save: the date that was misread is the one that is put right.
LEMMA SaveDateShows ==
    ASSUME TypeOK, NEW r \in Requests, SaveDate(r), clean[r], FormShows(r) PROVE FormShows(r)'
<1>1. pc[r] = "date" /\ FormEffect(r, Misread[req[r].date]) BY DEF SaveDate, FormShows
<1>2. /\ claim' = [claim EXCEPT !.invoice_receive = Kept(req[r].date, Misread[req[r].date], @)]
      /\ pc' = [pc EXCEPT ![r] = "saved"] /\ UNCHANGED <<repairs, req, copy>>
  BY DEF SaveDate
<1>3. claim \in Claims /\ copy[r].claim \in Claims /\ pc'[r] = "saved" BY <1>2 DEF TypeOK
<1>4. claim.invoice_receive = Misread[req[r].date] BY <1>1, <1>3 DEF FormEffect, Claims
<1>5. claim' = [claim EXCEPT !.invoice_receive = req[r].date] BY <1>2, <1>4 DEF Kept
<1> DEFINE status == IF req[r].date \in {None, copy[r].claim.invoice_receive}
                     THEN req[r].status ELSE "Received"
<1>6. claim = [copy[r].claim EXCEPT !.status_code = req[r].code,
                  !.invoice_receive = Misread[req[r].date], !.invoice_status = status]
  BY <1>1 DEF FormEffect
<1> HIDE DEF status
<1>7. claim' = [copy[r].claim EXCEPT !.status_code = req[r].code,
                  !.invoice_receive = req[r].date, !.invoice_status = status]
  BY <1>3, <1>5, <1>6 DEF Claims
<1>8. FormEffect(r, req[r].date)' BY <1>1, <1>2, <1>7 DEF FormEffect, status
<1>9. req[r].kind = "form"
  <2>1. req[r] \in Forms BY <1>1 DEF TypeOK
  <2> QED BY <2>1 DEF Forms
<1> QED BY <1>2, <1>3, <1>8, <1>9 DEF FormShows

LEMMA NextForm == TypeOK /\ FormInv /\ [Next]_vars => FormInv'
<1> SUFFICES ASSUME TypeOK, FormInv, [Next]_vars, NEW o \in Requests, clean'[o]
             PROVE  FormShows(o)'
  BY DEF FormInv
<1>1. CASE UNCHANGED vars
  <2>1. /\ UNCHANGED <<claim, repairs>> /\ clean[o]
        /\ pc'[o] = pc[o] /\ req'[o] = req[o] /\ copy'[o] = copy[o]
    BY <1>1 DEF vars
  <2> QED BY <2>1, BystanderShows DEF FormInv
<1>2. ASSUME NEW r \in Requests, Step(r), r # o PROVE FormShows(o)'
  BY <1>2, Bystander, BystanderShows DEF FormInv
<1>3. ASSUME Step(o) PROVE FormShows(o)'
  <2>1. ~Stops(o)
    <3>1. ASSUME Stops(o) PROVE FALSE
      <4>1. clean' = [clean EXCEPT ![o] = FALSE] BY <3>1 DEF Stops
      <4>2. clean'[o] = FALSE BY <4>1 DEF TypeOK
      <4> QED BY <4>2
    <3> QED BY <3>1
  <2>2. CASE Short(o)
    <3>1. Wrote(o) /\ pc[o] = "loaded" /\ req[o].kind \notin {"form", "release"}
      BY <2>1, <2>2, ShortEnds DEF SaveClaim, SaveRepair, CreateRepair
    <3>2. clean[o] BY <3>1 DEF Wrote
    <3> QED BY <3>1, <3>2 DEF FormInv, FormShows
  <2>3. CASE Answer(o) \/ GiveUp(o) BY <2>1, <2>3 DEF Answer, GiveUp
  <2>4. CASE Render(o) BY <2>4, RenderShows
  <2>5. CASE Load(o)
    <3>1. clean[o] BY <2>5 DEF Load
    <3> QED BY <2>5, <3>1, LoadShows DEF FormInv
  <2>6. CASE SaveForm(o)
    <3>1. clean[o] BY <2>6 DEF SaveForm, Wrote
    <3> QED BY <2>6, <3>1, SaveFormShows DEF FormInv
  <2>7. CASE SaveDate(o)
    <3>1. clean[o] BY <2>7 DEF SaveDate, Wrote
    <3> QED BY <2>7, <3>1, SaveDateShows DEF FormInv
  <2>8. CASE SaveRelease(o)
    <3>1. clean[o] BY <2>8 DEF SaveRelease, Wrote
    <3> QED BY <2>8, <3>1, SaveReleaseShows DEF FormInv
  <2> QED BY <1>3, <2>2, <2>3, <2>4, <2>5, <2>6, <2>7, <2>8 DEF Step, Short
<1> QED BY <1>1, <1>2, <1>3 DEF Next, Quiescent

\* Once a form of the edit page is saved, and no one else wrote since it was
\* rendered, the rows hold what was sent, the claim status included, and the
\* rest is as it was, for any amounts, dates, statuses, active statuses and
\* misreadings of dates (claims#update, Claim#buyout_or_reimbursement).
THEOREM FormsTakeEffect == Spec => []FormTakesEffect
<1>1. Init => FormInv BY DEF Init, FormInv
<1>2. FormInv => FormTakesEffect
  BY Zenon DEF FormInv, FormShows, FormEffect, ReleaseEffect, FormTakesEffect
<1> QED BY <1>1, <1>2, NextForm, TypeCorrect, PTL DEF Spec
==============================================================================
