-------------------------- MODULE RepairSheetProofs --------------------------
(***************************************************************************)
(* Theorems about RepairSheet, for any claims, contractors, requests and   *)
(* faults.                                                                 *)
(***************************************************************************)
EXTENDS RepairSheet, FiniteSetTheorems, TLAPS

-----------------------------------------------------------------------------
(* Type correctness                                                        *)

\* The answer to a create carries the new contractor's id.
CreatedInv ==
    \A q \in requests : q.verb = "create" /\ q.state = "answered" => q.id \in Contractors

TypeInv == TypeOK /\ IsFiniteSet(requests) /\ CreatedInv

\* The number `Unused` looks for exists.
LEMMA FreeNumber ==
    ASSUME NEW S, IsFiniteSet(S)
    PROVE  \E n \in 0..Cardinality(S) : \A q \in S : q.n # n
<1> DEFINE N == 0..Cardinality(S)
           f == [n \in N |-> CHOOSE q \in S : q.n = n]
<1>1. Cardinality(S) \in Nat
    BY FS_CardinalityType
<1>2. IsFiniteSet(N) /\ Cardinality(N) = Cardinality(S) + 1
    BY <1>1, FS_Interval
<1>3. SUFFICES ASSUME \A n \in N : \E q \in S : q.n = n PROVE FALSE
    OBVIOUS
<1>4. f \in [N -> S] /\ \A n \in N : f[n].n = n
    BY <1>3
<1>5. \E x, y \in N : x # y /\ f[x] = f[y]
  <2>1. Cardinality(S) < Cardinality(N)
      BY <1>1, <1>2
  <2> HIDE DEF N, f
  <2> QED
      BY <1>2, <1>4, <2>1, FS_PigeonHole
<1> QED
    BY <1>4, <1>5

LEMMA RequestType ==
    ASSUME TypeInv,
           NEW verb \in {"geocode", "find", "assign", "unassign", "create", "list"},
           NEW c \in Claims, NEW k \in Selections, NEW meant \in Claims
    PROVE  LET q == Request(verb, c, k, meant)
           IN  /\ q \in Requests
               /\ q.verb = verb /\ q.state = "sent" /\ q.at = 0
<1>1. Unused \in Nat
  <2>1. IsFiniteSet(requests)
      BY DEF TypeInv
  <2>2. \E n \in 0..Cardinality(requests) : \A q \in requests : q.n # n
      BY <2>1, FreeNumber
  <2>3. Cardinality(requests) \in Nat
      BY <2>1, FS_CardinalityType
  <2> QED
      BY <2>2, <2>3 DEF Unused
<1> HIDE DEF Unused
<1>2. [d \in Claims |-> NoRepair] \in [Claims -> Repairs]
    BY DEF Repairs
<1>3. Nothing \in Selections
    BY DEF Selections
<1> QED
    BY <1>1, <1>2, <1>3 DEF Request, Requests

LEMMA AskType ==
    ASSUME TypeInv,
           NEW verb \in {"geocode", "find", "assign", "unassign", "create", "list"}
    PROVE  /\ Ask(verb) \in Requests /\ Post(verb) \in Requests
           /\ Ask(verb).verb = verb /\ Ask(verb).state = "sent" /\ Ask(verb).at = 0
           /\ Post(verb).verb = verb /\ Post(verb).state = "sent" /\ Post(verb).at = 0
<1>1. claim.id \in Claims /\ selected \in Selections /\ Nothing \in Selections
    BY DEF TypeInv, TypeOK, Selections
<1> QED
    BY <1>1, RequestType DEF Ask, Post

LEMMA InitType == Init => TypeInv
<1> SUFFICES ASSUME Init PROVE TypeInv
    OBVIOUS
<1>1. IsFiniteSet(requests)
    BY FS_EmptySet DEF Init
<1>2. repair \in [Claims -> Repairs]
    BY KnownAssumption, MaxNewAssumption DEF Init, Repairs, Contractors
<1>3. made \in 0..(Known + MaxNew) /\ selected \in Selections
    BY KnownAssumption, MaxNewAssumption DEF Init, Selections
<1>c. claim \in [id : Claims, has : BOOLEAN]
    BY DEF Init
<1>4. disabled \in [Buttons -> BOOLEAN]
  <2>1. disabled = [b \in Buttons |-> b \in {"unassign", "assign"}]
      BY DEF Init
  <2>2. \A b \in Buttons : (b \in {"unassign", "assign"}) \in BOOLEAN
      BY SMT
  <2> QED
      BY Zenon, <2>1, <2>2
<1>n. sent \in Nat /\ faults \in Nat /\ writes \in Nat /\ shownAt \in Nat
    BY DEF Init
<1>b. /\ sheet \in BOOLEAN /\ newSheet \in BOOLEAN /\ prompt \in BOOLEAN
      /\ located \in BOOLEAN /\ calm \in BOOLEAN
    BY DEF Init
<1>s. shown = repair /\ listed = {} /\ requests = {}
    BY DEF Init
<1>5. TypeOK
    BY <1>2, <1>3, <1>c, <1>4, <1>n, <1>b, <1>s DEF TypeOK
<1> QED
    BY <1>1, <1>5, <1>s DEF TypeInv, CreatedInv

-----------------------------------------------------------------------------
(* What a step does to the requests, the selection and the tables.         *)

Verbs == {"geocode", "find", "assign", "unassign", "create", "list"}

\* The user: at most one request joins the others.  Assign is enabled only by
\* a selection, and the sheet is closed only with a list on its way.
Sends(q) ==
    /\ requests' = requests \cup {q}
    /\ q \in Requests /\ q.state = "sent" /\ q.at = 0
    /\ q.verb = "assign" => ~disabled["assign"]

UserMoves ==
    /\ UNCHANGED <<serverVars, tableVars, calm>>
    /\ claim' \in [id : Claims, has : BOOLEAN]
    /\ sheet' \in BOOLEAN /\ newSheet' \in BOOLEAN /\ prompt' \in BOOLEAN
    /\ sent' \in Nat
    /\ selected' = selected \/ selected' \in Contractors
    /\ disabled' \in [Buttons -> BOOLEAN]
    /\ disabled'["assign"] \/ disabled'["assign"] = disabled["assign"] \/ selected' \in Contractors
    /\ requests' = requests \/ \E q : Sends(q)
    /\ ~sheet' => ~sheet \/ \E q \in requests' : q.verb = "list" /\ q.state = "sent"

LEMMA UserStep ==
    ASSUME TypeInv, User
    PROVE  UserMoves
<1>0. /\ sent \in Nat /\ disabled \in [Buttons -> BOOLEAN] /\ claim \in [id : Claims, has : BOOLEAN]
      /\ sheet \in BOOLEAN /\ newSheet \in BOOLEAN /\ prompt \in BOOLEAN /\ listed \subseteq Contractors
    BY DEF TypeInv, TypeOK
<1>1. ASSUME NEW c \in Claims, OpenSheet(c) PROVE UserMoves
  <2> DEFINE q == Request("geocode", c, Nothing, c)
  <2>1. q \in Requests /\ q.verb = "geocode" /\ q.state = "sent" /\ q.at = 0
      BY RequestType DEF Selections
  <2>2. Send(q)
      BY <1>1 DEF OpenSheet
  <2> HIDE DEF q
  <2>3. \E r : Sends(r)
      BY <2>1, <2>2 DEF Send, Sends
  <2>4. claim' \in [id : Claims, has : BOOLEAN]
      BY <1>1 DEF OpenSheet
  <2>5. disabled' \in [Buttons -> BOOLEAN] /\ disabled'["assign"] = disabled["assign"]
      BY <1>0, <1>1 DEF OpenSheet, Buttons
  <2>6. /\ UNCHANGED <<serverVars, tableVars, calm, newSheet, prompt, selected>>
        /\ sheet' = TRUE /\ sent' \in Nat
      BY <1>0, <1>1, <2>2 DEF OpenSheet, Send
  <2> QED
      BY ZenonT(60), <1>0, <2>3, <2>4, <2>5, <2>6 DEF UserMoves
<1>2. CASE CancelSheet
  <2>1. Ask("list") \in Requests /\ Ask("list").verb = "list" /\ Ask("list").state = "sent" /\ Ask("list").at = 0
      BY AskType
  <2> HIDE DEF Ask
  <2>2. /\ UNCHANGED <<serverVars, tableVars, calm, claim, newSheet, prompt, selected, disabled>>
        /\ sheet' = FALSE /\ sent' \in Nat
      BY <1>0, <1>2 DEF CancelSheet, Send
  <2>3. Sends(Ask("list")) /\ Ask("list") \in requests'
      BY <1>2, <2>1 DEF CancelSheet, Send, Sends
  <2> QED
      BY <1>0, <2>1, <2>2, <2>3 DEF UserMoves
<1>3. CASE Search
  <2>1. Ask("find") \in Requests /\ Ask("find").verb = "find" /\ Ask("find").state = "sent" /\ Ask("find").at = 0
      BY AskType
  <2> HIDE DEF Ask
  <2> QED
      BY <1>0, <1>3, <2>1 DEF Search, sheetVars, Send, Sends, UserMoves
<1>4. ASSUME NEW k \in listed, Select(k) PROVE UserMoves
    BY <1>0, <1>4 DEF Select, sheetVars, UserMoves, Buttons
<1>5. CASE ClickAssign
  <2>1. Post("assign") \in Requests /\ Post("assign").state = "sent" /\ Post("assign").at = 0
      BY AskType
  <2>2. \E q : Sends(q)
      BY <1>5, <2>1 DEF ClickAssign, Clicked, Send, Sends
  <2>3. disabled' \in [Buttons -> BOOLEAN] /\ disabled'["assign"]
      BY <1>0, <1>5 DEF ClickAssign, Buttons
  <2>4. UNCHANGED <<serverVars, tableVars, calm, sheetVars, selected>> /\ sent' \in Nat
      BY <1>0, <1>5 DEF ClickAssign, Send
  <2> QED
      BY <1>0, <2>2, <2>3, <2>4 DEF sheetVars, UserMoves
<1>6. CASE ClickUnassign
  <2>1. Ask("unassign") \in Requests /\ Ask("unassign").verb = "unassign" /\ Ask("unassign").state = "sent"
        /\ Ask("unassign").at = 0
      BY AskType
  <2> HIDE DEF Ask
  <2> QED
      BY <1>0, <1>6, <2>1 DEF ClickUnassign, sheetVars, Send, Sends, UserMoves
<1>7. CASE ClickAssignNew
    BY <1>0, <1>7 DEF ClickAssignNew, UserMoves
<1>8. CASE ClickAdd
  <2>1. Ask("create") \in Requests /\ Ask("create").verb = "create" /\ Ask("create").state = "sent"
        /\ Ask("create").at = 0
      BY AskType
  <2> HIDE DEF Ask
  <2>2. \E q : Sends(q)
      BY <1>8, <2>1 DEF ClickAdd, Send, Sends
  <2>3. disabled' \in [Buttons -> BOOLEAN] /\ disabled'["assign"] = disabled["assign"]
      BY <1>0, <1>8 DEF ClickAdd, Buttons
  <2> QED
      BY <1>0, <1>8, <2>2, <2>3 DEF ClickAdd, sheetVars, Send, UserMoves
<1>9. CASE CancelNew
    BY <1>0, <1>9 DEF CancelNew, UserMoves
<1>10. CASE AnswerPrompt
  <2>1. Ask("list") \in Requests /\ Ask("list").verb = "list" /\ Ask("list").state = "sent" /\ Ask("list").at = 0
      BY AskType
  <2> HIDE DEF Ask
  <2>2. /\ UNCHANGED <<serverVars, tableVars, calm, claim, newSheet, selected, disabled>>
        /\ prompt' = FALSE /\ sheet' = FALSE /\ sent' \in Nat
      BY <1>0, <1>10 DEF AnswerPrompt, Send
  <2>3. CASE sheet
      BY <1>0, <1>10, <2>1, <2>2, <2>3 DEF AnswerPrompt, Send, Sends, UserMoves
  <2>4. CASE ~sheet
      BY <1>0, <1>10, <2>2, <2>4 DEF AnswerPrompt, UserMoves
  <2> QED
      BY <2>3, <2>4
<1> QED
    BY <1>1, <1>2, <1>3, <1>4, <1>5, <1>6, <1>7, <1>8, <1>9, <1>10 DEF User

\* The server and the network: one request is replaced by its answer.
Turns(q, r) ==
    /\ requests' = (requests \ {q}) \cup {r}
    /\ r \in Requests /\ r.verb = q.verb /\ r.state \in {"answered", "login", "failed"}
    /\ r.state \in {"login", "failed"} => q.verb # "geocode"
    /\ q.state = "sent" \/ r.state = "failed"
    /\ UNCHANGED <<tableVars, sheetVars, selected, disabled, sent, calm>>
    /\ faults' \in Nat
    /\ made' \in 0..(Known + MaxNew)
    /\ repair' \in [Claims -> Repairs]
    /\ writes' \in {writes, writes + 1}
    /\ writes' = writes => repair' = repair
    /\ writes' # writes => r.state = "answered" /\ q.verb \in {"assign", "unassign"}
    /\ q.verb = "create" /\ r.state = "answered" => r.id \in Contractors
    /\ r.at \in {q.at, writes}
    /\ q.verb = "list" /\ r.state = "answered" => r.repairs = repair /\ r.at = writes

LEMMA ServeStep ==
    ASSUME TypeInv, NEW q \in requests, Serve(q)
    PROVE  \E r : Turns(q, r)
<1> USE KnownAssumption, MaxNewAssumption
<1>0. /\ q \in Requests /\ writes \in Nat /\ faults \in Nat /\ made \in 0..(Known + MaxNew)
      /\ repair \in [Claims -> Repairs] /\ q.claim \in Claims /\ q.contractor \in Selections
      /\ q.state = "sent"
    BY DEF TypeInv, TypeOK, Requests, Serve
<1>1. CASE ServeAssign(q) \/ ServeUnassign(q)
  <2>1. Answered(q) \in Requests /\ Answered(q).verb = q.verb /\ Answered(q).state = "answered"
        /\ Answered(q).at = q.at
      BY <1>0 DEF Answered, Requests
  <2>2. repair' \in [Claims -> Repairs]
      BY <1>0, <1>1 DEF ServeAssign, ServeUnassign, Repairs
  <2>3. /\ q.verb \in {"assign", "unassign"} /\ writes' = writes + 1 /\ UNCHANGED <<made, faults>>
        /\ Reply(q, Answered(q))
      BY <1>1 DEF ServeAssign, ServeUnassign
  <2> HIDE DEF Answered
  <2>4. Turns(q, Answered(q))
      BY <1>0, <2>1, <2>2, <2>3 DEF Turns, Reply
  <2> QED
      BY <2>4
<1>2. CASE ServeCreate(q)
  <2> DEFINE r == [Answered(q) EXCEPT !.id = made + 1]
  <2>1. /\ q.verb = "create" /\ made < Known + MaxNew /\ made' = made + 1
        /\ Reply(q, r) /\ UNCHANGED <<repair, writes, faults>>
      BY <1>2 DEF ServeCreate
  <2>2. made + 1 \in Contractors /\ made + 1 \in Selections /\ made' \in 0..(Known + MaxNew)
      BY <1>0, <2>1 DEF Contractors, Selections
  <2>3. r \in Requests /\ r.verb = q.verb /\ r.state = "answered" /\ r.at = q.at /\ r.id = made + 1
      BY <1>0, <2>2 DEF Answered, Requests
  <2> HIDE DEF r
  <2>4. Turns(q, r)
      BY <1>0, <2>1, <2>2, <2>3 DEF Turns, Reply
  <2> QED
      BY <2>4
<1>3. CASE ServeFind(q)
  <2> DEFINE r == [Answered(q) EXCEPT !.rows = 1..made]
  <2>1. q.verb = "find" /\ Reply(q, r) /\ UNCHANGED serverVars
      BY <1>3 DEF ServeFind
  <2>2. 1..made \in SUBSET Contractors
      BY <1>0 DEF Contractors
  <2>3. r \in Requests /\ r.verb = q.verb /\ r.state = "answered" /\ r.at = q.at
      BY <1>0, <2>2 DEF Answered, Requests
  <2> HIDE DEF r
  <2>4. Turns(q, r)
      BY <1>0, <2>1, <2>3 DEF Turns, Reply, serverVars
  <2> QED
      BY <2>4
<1>4. CASE ServeList(q)
  <2> DEFINE r == [Answered(q) EXCEPT !.repairs = repair, !.at = writes]
  <2>1. q.verb = "list" /\ Reply(q, r) /\ UNCHANGED serverVars
      BY <1>4 DEF ServeList
  <2>2. /\ r \in Requests /\ r.verb = q.verb /\ r.state = "answered"
        /\ r.repairs = repair /\ r.at = writes
      BY <1>0 DEF Answered, Requests
  <2> HIDE DEF r
  <2>3. Turns(q, r)
      BY <1>0, <2>1, <2>2 DEF Turns, Reply, serverVars
  <2> QED
      BY <2>3
<1>5. CASE Redirect(q)
  <2> DEFINE r == [q EXCEPT !.state = "login"]
  <2>1. q.verb # "geocode" /\ Reply(q, r) /\ Fault
      BY <1>5 DEF Redirect
  <2>2. r \in Requests /\ r.verb = q.verb /\ r.state = "login" /\ r.at = q.at
      BY <1>0 DEF Requests
  <2> HIDE DEF r
  <2>3. Turns(q, r)
      BY <1>0, <2>1, <2>2 DEF Turns, Reply, Fault
  <2> QED
      BY <2>3
<1> QED
    BY <1>1, <1>2, <1>3, <1>4, <1>5 DEF Serve

LEMMA LoseStep ==
    ASSUME TypeInv, NEW q \in requests, Lose(q)
    PROVE  \E r : Turns(q, r)
<1> DEFINE r == [q EXCEPT !.state = "failed"]
<1>0. /\ q \in Requests /\ faults \in Nat /\ made \in 0..(Known + MaxNew)
      /\ repair \in [Claims -> Repairs] /\ writes \in Nat
    BY DEF TypeInv, TypeOK
<1>1. /\ q.verb # "geocode" /\ Fault /\ requests' = (requests \ {q}) \cup {r}
      /\ UNCHANGED <<tableVars, sheetVars, selected, disabled, sent, calm>>
    BY DEF Lose
<1>2. r \in Requests /\ r.verb = q.verb /\ r.state = "failed" /\ r.at = q.at
    BY <1>0 DEF Requests
<1> HIDE DEF r
<1>3. Turns(q, r)
    BY <1>0, <1>1, <1>2 DEF Turns, Fault
<1> QED
    BY <1>3

Calms(q) ==
    /\ calm' \in BOOLEAN
    /\ calm' => /\ calm
                /\ q.verb # "geocode" => q.state = "answered"
                /\ q.verb = "list" => q.at >= shownAt
                /\ q.verb \in {"assign", "unassign"} => sheet

\* A handler of the page: the request goes, and the requests it makes join the
\* others.  The sheet is closed only with a list on its way.
Takes(q, more) ==
    /\ requests' = (requests \ {q}) \cup more
    /\ more \subseteq Requests /\ IsFiniteSet(more)
    /\ \A r \in more : /\ r.state = "sent" /\ r.at = 0
                       /\ r.verb = "assign" => selected' # Nothing
    /\ UNCHANGED <<serverVars, sent>>
    /\ claim' = claim
    /\ sheet' \in BOOLEAN /\ newSheet' \in BOOLEAN /\ prompt' \in BOOLEAN
    /\ located' \in BOOLEAN
    /\ listed' \subseteq Contractors
    /\ selected' = selected \/ selected' \in Contractors \cup {NullId}
    /\ disabled' \in [Buttons -> BOOLEAN]
    /\ disabled'["assign"] = disabled["assign"] \/ q.verb = "assign"
    /\ \/ UNCHANGED <<shown, shownAt>>
       \/ q.verb = "list" /\ shown' = q.repairs /\ shownAt' = q.at
    /\ q.verb = "list" /\ q.state = "answered" => shown' = q.repairs /\ shownAt' = q.at
    /\ ~sheet' => ~sheet \/ \E r \in more : r.verb = "list"
    /\ Calms(q)

LEMMA PageStep ==
    ASSUME TypeInv, NEW q \in requests, Receive(q)
    PROVE  \E more : Takes(q, more)
<1>0. /\ sheet \in BOOLEAN /\ newSheet \in BOOLEAN /\ prompt \in BOOLEAN /\ located \in BOOLEAN
      /\ listed \subseteq Contractors /\ disabled \in [Buttons -> BOOLEAN]
      /\ q.rows \subseteq Contractors /\ q.id \in Selections /\ claim.id \in Claims
      /\ q.meant \in Claims
    BY DEF TypeInv, TypeOK, Requests
<1>c. Calms(q)
    BY DEF Receive, Calms
<1>f. IsFiniteSet({}) /\ \A x : IsFiniteSet({x})
    BY FS_EmptySet, FS_Singleton
<1>1. CASE Located(q)
  <2>1. Ask("find") \in Requests /\ Ask("find").verb = "find" /\ Ask("find").state = "sent" /\ Ask("find").at = 0
      BY AskType
  <2> HIDE DEF Ask
  <2>2. Takes(q, {Ask("find")})
      BY <1>0, <1>c, <1>f, <1>1, <2>1 DEF Located, Finish, Takes, sheetVars
  <2> QED
      BY <2>2
<1>2. CASE NotLocated(q)
  <2>1. Takes(q, {})
      BY <1>0, <1>c, <1>f, <1>2 DEF NotLocated, Finish, Takes, tableVars
  <2> QED
      BY <2>1
<1>3. CASE GotContractors(q)
  <2>1. Takes(q, {})
      BY <1>0, <1>c, <1>f, <1>3 DEF GotContractors, Finish, Takes, sheetVars
  <2> QED
      BY <2>1
<1>4. CASE GotClaims(q)
  <2>1. Takes(q, {})
      BY <1>0, <1>c, <1>f, <1>4 DEF GotClaims, Finish, Takes, sheetVars
  <2> QED
      BY <2>1
<1>5. CASE Hides(q)
  <2>1. Ask("list") \in Requests /\ Ask("list").verb = "list" /\ Ask("list").state = "sent" /\ Ask("list").at = 0
      BY AskType
  <2> HIDE DEF Ask
  <2> DEFINE more == IF sheet THEN {Ask("list")} ELSE {}
  <2>2. /\ more \subseteq Requests /\ IsFiniteSet(more)
        /\ \A r \in more : r.verb = "list" /\ r.state = "sent" /\ r.at = 0
        /\ sheet => \E r \in more : r.verb = "list"
      BY <1>f, <2>1
  <2>3. Finish(q, more)
      BY <1>5 DEF Hides
  <2> HIDE DEF more
  <2>4. Takes(q, more)
      BY <1>0, <1>c, <1>5, <2>2, <2>3 DEF Hides, Finish, Takes, tableVars
  <2> QED
      BY <2>4
<1>6. CASE Added(q)
  <2> DEFINE r == Request("assign", claim.id, selected', q.meant)
  <2>1. selected' = IF q.state = "login" THEN NullId ELSE q.id
      BY <1>6 DEF Added
  <2>2. /\ Finish(q, {r}) /\ q.verb = "create" /\ Succeeded(q) /\ newSheet' = FALSE
        /\ UNCHANGED <<tableVars, claim, sheet, prompt, disabled>>
      BY <1>6 DEF Added
  <2>3. selected' \in Contractors \cup {NullId}
      BY <2>1, <2>2 DEF TypeInv, CreatedInv, Succeeded
  <2>4. selected' \in Selections /\ selected' # Nothing
      BY <2>3, KnownAssumption, MaxNewAssumption DEF Contractors, Selections, Nothing, NullId
  <2>5. r \in Requests /\ r.verb = "assign" /\ r.state = "sent" /\ r.at = 0
      BY <1>0, <2>4, RequestType
  <2> HIDE DEF r
  <2>6. Takes(q, {r})
      BY <1>0, <1>c, <1>f, <2>2, <2>3, <2>4, <2>5 DEF Finish, Takes, tableVars
  <2> QED
      BY <2>6
<1>7. CASE AssignFailed(q)
  <2>1. disabled' \in [Buttons -> BOOLEAN]
      BY <1>0, <1>7 DEF AssignFailed, Buttons
  <2>2. Takes(q, {})
      BY <1>0, <1>c, <1>f, <1>7, <2>1 DEF AssignFailed, Finish, Takes, tableVars, sheetVars
  <2> QED
      BY <2>2
<1>8. CASE OtherFailed(q)
  <2>1. Takes(q, {})
      BY <1>0, <1>c, <1>f, <1>8 DEF OtherFailed, Finish, Takes, tableVars, sheetVars
  <2> QED
      BY <2>1
<1> QED
    BY <1>1, <1>2, <1>3, <1>4, <1>5, <1>6, <1>7, <1>8 DEF Receive

LEMMA NextType == TypeInv /\ [Next]_vars => TypeInv'
<1> SUFFICES ASSUME TypeInv, [Next]_vars PROVE TypeInv'
    OBVIOUS
<1>0. Nothing \in Selections /\ Contractors \subseteq Selections /\ NullId \in Selections
    BY DEF Selections
<1>1. CASE UNCHANGED vars
  <2>1. TypeOK'
      BY <1>1 DEF TypeInv, TypeOK, vars, serverVars, tableVars, sheetVars
  <2> QED
      BY <1>1, <2>1 DEF TypeInv, CreatedInv, vars
<1>2. CASE User
  <2>1. UserMoves
      BY <1>2, UserStep
  <2>2. requests' \subseteq Requests /\ IsFiniteSet(requests') /\ CreatedInv'
      BY <2>1, FS_AddElement DEF UserMoves, Sends, TypeInv, TypeOK, CreatedInv
  <2>3. selected' \in Selections
      BY <1>0, <2>1 DEF UserMoves, TypeInv, TypeOK
  <2>4. UNCHANGED <<repair, made, writes, faults, shown, shownAt, listed, located, calm>>
      BY <2>1 DEF UserMoves, serverVars, tableVars
  <2> QED
      BY <2>1, <2>2, <2>3, <2>4 DEF UserMoves, TypeInv, TypeOK
<1>3. ASSUME NEW q \in requests, Serve(q) \/ Lose(q) PROVE TypeInv'
  <2>1. PICK r : Turns(q, r)
      BY <1>3, ServeStep, LoseStep
  <2>2. requests' \subseteq Requests /\ IsFiniteSet(requests') /\ CreatedInv'
      BY <2>1, FS_AddElement, FS_RemoveElement DEF Turns, TypeInv, TypeOK, CreatedInv
  <2>3. writes' \in Nat
      BY <2>1 DEF Turns, TypeInv, TypeOK
  <2>4. UNCHANGED <<shown, shownAt, listed, located, claim, sheet, newSheet, prompt,
                    selected, disabled, sent, calm>>
      BY <2>1 DEF Turns, tableVars, sheetVars
  <2> QED
      BY <2>1, <2>2, <2>3, <2>4 DEF Turns, TypeInv, TypeOK
<1>4. ASSUME NEW q \in requests, Receive(q) PROVE TypeInv'
  <2>1. PICK more : Takes(q, more)
      BY <1>4, PageStep
  <2>2. requests' \subseteq Requests /\ CreatedInv'
      BY <2>1 DEF Takes, TypeInv, TypeOK, CreatedInv
  <2>3. IsFiniteSet(requests')
    <3>1. IsFiniteSet(requests \ {q})
        BY FS_RemoveElement DEF TypeInv
    <3> QED
        BY <2>1, <3>1, FS_Union DEF Takes
  <2>4. selected' \in Selections
      BY <1>0, <2>1 DEF Takes, TypeInv, TypeOK
  <2>5. shown' \in [Claims -> Repairs] /\ shownAt' \in Nat
      BY <2>1 DEF Takes, TypeInv, TypeOK, Requests
  <2>6. UNCHANGED <<repair, made, writes, faults, sent, claim>> /\ calm' \in BOOLEAN
      BY <2>1 DEF Takes, Calms, serverVars
  <2> QED
      BY <2>1, <2>2, <2>3, <2>4, <2>5, <2>6 DEF Takes, TypeInv, TypeOK
<1> QED
    BY <1>1, <1>2, <1>3, <1>4 DEF Next, Network

LEMMA TypeInvariant == Spec => []TypeInv
BY InitType, NextType, PTL DEF Spec

\* Every variable of the page and of the server keeps its type (TypeOK).
THEOREM TypeCorrect == Spec => []TypeOK
<1>1. TypeInv => TypeOK
    BY DEF TypeInv
<1> QED
    BY <1>1, TypeInvariant, PTL

-----------------------------------------------------------------------------
(* The selection: it is never cleared, so an assignment in flight, whose   *)
(* failure enables Assign again, has a selection behind it.                *)

SelectedInv ==
    /\ EnabledMeansSelected
    /\ \A q \in requests : q.verb = "assign" => selected # Nothing

LEMMA NextSelected == TypeInv /\ SelectedInv /\ [Next]_vars => SelectedInv'
<1> SUFFICES ASSUME TypeInv, SelectedInv, [Next]_vars PROVE SelectedInv'
    OBVIOUS
<1>0. Nothing \notin Contractors \cup {NullId}
    BY KnownAssumption, MaxNewAssumption DEF Contractors, Nothing, NullId
<1>1. CASE UNCHANGED vars
    BY <1>1 DEF SelectedInv, EnabledMeansSelected, vars
<1>2. CASE User
  <2>1. UserMoves
      BY <1>2, UserStep
  <2>2. selected # Nothing => selected' # Nothing
      BY <1>0, <2>1 DEF UserMoves
  <2> QED
      BY <1>0, <2>1, <2>2 DEF UserMoves, Sends, SelectedInv, EnabledMeansSelected
<1>3. ASSUME NEW q \in requests, Serve(q) \/ Lose(q) PROVE SelectedInv'
  <2>1. PICK r : Turns(q, r)
      BY <1>3, ServeStep, LoseStep
  <2> QED
      BY <2>1 DEF Turns, SelectedInv, EnabledMeansSelected
<1>4. ASSUME NEW q \in requests, Receive(q) PROVE SelectedInv'
  <2>1. PICK more : Takes(q, more)
      BY <1>4, PageStep
  <2>2. selected # Nothing => selected' # Nothing
      BY <1>0, <2>1 DEF Takes
  <2>3. EnabledMeansSelected'
      BY <2>1, <2>2 DEF Takes, SelectedInv, EnabledMeansSelected
  <2>4. \A r \in requests' : r.verb = "assign" => selected' # Nothing
      BY <2>1, <2>2 DEF Takes, SelectedInv
  <2> QED
      BY <2>3, <2>4 DEF SelectedInv
<1> QED
    BY <1>1, <1>2, <1>3, <1>4 DEF Next, Network

\* Assign can be clicked only while a contractor, if only a null one, is
\* selected, whatever fails and whichever sheets come and go (assignButton).
THEOREM EnabledIsSelected == Spec => []EnabledMeansSelected
<1>1. Init => SelectedInv
    BY DEF Init, SelectedInv, EnabledMeansSelected, Buttons
<1>2. SelectedInv => EnabledMeansSelected
    BY DEF SelectedInv
<1> QED
    BY <1>1, <1>2, NextSelected, TypeInvariant, PTL DEF Spec

-----------------------------------------------------------------------------
(* The claims table: as long as the page is calm and the sheet closed, the *)
(* table shows the newest list, or a request in flight will see to it or   *)
(* end the calm.                                                           *)

Refreshing(q) ==
    \/ q.verb # "geocode" /\ q.state \in {"login", "failed"}
    \/ q.verb = "list" /\ q.state = "sent"
    \/ q.verb = "list" /\ q.state = "answered" /\ q.at = writes
    \/ q.verb \in {"assign", "unassign"} /\ q.state = "answered"

ListInv(q) ==
    /\ q.at <= writes
    /\ q.verb = "list" /\ q.state = "answered" /\ q.at = writes => q.repairs = repair

FreshInv ==
    /\ shownAt <= writes
    /\ \A q \in requests : ListInv(q)
    /\ calm /\ ~sheet => \/ shownAt = writes /\ shown = repair
                         \/ \E q \in requests : Refreshing(q)

LEMMA UserFresh ==
    ASSUME TypeInv, FreshInv, User
    PROVE  FreshInv'
<1>1. UserMoves
    BY UserStep
<1>2. writes \in Nat /\ UNCHANGED <<repair, writes, shown, shownAt, calm>>
    BY <1>1 DEF UserMoves, TypeInv, TypeOK, serverVars, tableVars
<1>3. \A q \in requests' : ListInv(q)'
    BY <1>1, <1>2 DEF UserMoves, Sends, FreshInv, ListInv
<1>4. \A q : Refreshing(q)' <=> Refreshing(q)
    BY <1>2 DEF Refreshing
<1>5. requests \subseteq requests'
    BY <1>1 DEF UserMoves, Sends
<1>6. CASE ~sheet'
  <2>1. CASE \E q \in requests' : q.verb = "list" /\ q.state = "sent"
    <3>1. \E q \in requests' : Refreshing(q)'
        BY <1>4, <2>1 DEF Refreshing
    <3> QED
        BY <1>2, <1>3, <3>1 DEF FreshInv
  <2>2. CASE ~sheet
      BY <1>2, <1>3, <1>4, <1>5, <2>2 DEF FreshInv
  <2> QED
      BY <1>1, <1>6, <2>1, <2>2 DEF UserMoves
<1>7. CASE sheet'
    BY <1>2, <1>3, <1>7 DEF FreshInv
<1> QED
    BY <1>6, <1>7

LEMMA NetworkFresh ==
    ASSUME TypeInv, FreshInv, NEW q \in requests, Serve(q) \/ Lose(q)
    PROVE  FreshInv'
<1>1. PICK r : Turns(q, r)
    BY ServeStep, LoseStep
<1>2. writes \in Nat /\ shownAt \in Nat /\ \A o \in requests : o.at \in Nat
    BY DEF TypeInv, TypeOK, Requests
<1>3. UNCHANGED <<shown, shownAt, sheet, calm>>
    BY <1>1 DEF Turns, tableVars, sheetVars
<1>4. writes' \in Nat /\ writes <= writes' /\ (writes' = writes => repair' = repair)
    BY <1>1, <1>2 DEF Turns
<1>5. shownAt' <= writes'
    BY <1>2, <1>3, <1>4 DEF FreshInv
<1>6. \A o \in requests' : ListInv(o)'
  <2>1. ListInv(r)'
      BY <1>1, <1>2, <1>4 DEF Turns, FreshInv, ListInv
  <2>2. ASSUME NEW o \in requests PROVE ListInv(o)'
      BY <1>2, <1>4 DEF FreshInv, ListInv
  <2> QED
      BY <1>1, <2>1, <2>2 DEF Turns
<1>7. ASSUME calm, ~sheet
      PROVE  \/ shownAt = writes' /\ shown = repair'
             \/ \E o \in requests' : Refreshing(o)'
  <2>1. CASE writes' # writes
    <3>1. Refreshing(r)'
        BY <1>1, <2>1 DEF Turns, Refreshing
    <3> QED
        BY <1>1, <3>1 DEF Turns
  <2>2. CASE writes' = writes
    <3>1. \A o \in requests \ {q} : Refreshing(o) => Refreshing(o)'
        BY <2>2 DEF Refreshing
    <3>2. Refreshing(q) => Refreshing(r)'
        BY <1>1, <2>2 DEF Turns, Refreshing
    <3>3. requests' = (requests \ {q}) \cup {r}
        BY <1>1 DEF Turns
    <3> QED
        BY <1>4, <1>7, <2>2, <3>1, <3>2, <3>3 DEF FreshInv
  <2> QED
      BY <2>1, <2>2
<1> QED
    BY <1>3, <1>5, <1>6, <1>7 DEF FreshInv

LEMMA PageFresh ==
    ASSUME TypeInv, FreshInv, NEW q \in requests, Receive(q)
    PROVE  FreshInv'
<1>1. PICK more : Takes(q, more)
    BY PageStep
<1>2. writes \in Nat /\ shownAt \in Nat /\ q.at \in Nat
    BY DEF TypeInv, TypeOK, Requests
<1>3. UNCHANGED <<repair, writes>>
    BY <1>1 DEF Takes, serverVars
<1>4. shownAt' <= writes'
    BY <1>1, <1>2, <1>3 DEF Takes, FreshInv, ListInv
<1>5. \A o \in requests' : ListInv(o)'
    BY <1>1, <1>2, <1>3 DEF Takes, FreshInv, ListInv
<1>6. ASSUME calm', ~sheet'
      PROVE  \/ shownAt' = writes /\ shown' = repair
             \/ \E o \in requests' : Refreshing(o)'
  <2>1. /\ calm
        /\ q.verb # "geocode" => q.state = "answered"
        /\ q.verb = "list" => q.at >= shownAt
        /\ q.verb \in {"assign", "unassign"} => sheet
      BY <1>1, <1>6 DEF Takes, Calms
  <2>2. \A o : Refreshing(o)' <=> Refreshing(o)
      BY <1>3 DEF Refreshing
  <2>3. CASE sheet
    <3>1. PICK o \in more : o.verb = "list" /\ o.state = "sent"
        BY <1>1, <1>6, <2>3 DEF Takes
    <3>2. o \in requests' /\ Refreshing(o)
        BY <1>1, <3>1 DEF Takes, Refreshing
    <3> QED
        BY <2>2, <3>2
  <2>4. CASE ~sheet /\ q.verb = "list" /\ q.at = writes
    <3>1. shown' = q.repairs /\ shownAt' = q.at
        BY <1>1, <2>1, <2>4 DEF Takes
    <3>2. q.repairs = repair
        BY <2>1, <2>4 DEF FreshInv, ListInv
    <3> QED
        BY <2>4, <3>1, <3>2
  <2>5. CASE ~sheet /\ ~(q.verb = "list" /\ q.at = writes)
    <3>1. ~Refreshing(q)
        BY <2>1, <2>5 DEF Refreshing
    <3> HIDE DEF Refreshing
    <3>2. CASE \E o \in requests : Refreshing(o)
      <4>1. PICK o \in requests : Refreshing(o)
          BY <3>2
      <4>2. o \in requests'
          BY <1>1, <3>1, <4>1 DEF Takes
      <4> QED
          BY <2>2, <4>1, <4>2
    <3>3. CASE shownAt = writes /\ shown = repair
      <4>1. q.verb # "list"
          BY <1>2, <2>1, <2>5, <3>3 DEF FreshInv, ListInv
      <4> QED
          BY <1>1, <3>3, <4>1 DEF Takes
    <3> QED
        BY <2>1, <2>5, <3>2, <3>3 DEF FreshInv
  <2> QED
      BY <2>3, <2>4, <2>5
<1> QED
    BY <1>3, <1>4, <1>5, <1>6 DEF FreshInv

LEMMA NextFresh == TypeInv /\ FreshInv /\ [Next]_vars => FreshInv'
<1> SUFFICES ASSUME TypeInv, FreshInv, [Next]_vars PROVE FreshInv'
    OBVIOUS
<1>1. CASE UNCHANGED vars
    BY <1>1 DEF FreshInv, ListInv, Refreshing, vars, serverVars, tableVars, sheetVars
<1> QED
    BY <1>1, UserFresh, NetworkFresh, PageFresh DEF Next, Network

\* Once the sheet is closed and nothing is in flight, the claims table of a
\* calm page shows the contractors as the server has them (addRepairSheet).
THEOREM QuietTableIsRight == Spec => []QuietTableShowsAssignments
<1>1. Init => FreshInv
    BY DEF Init, FreshInv, ListInv
<1>2. FreshInv => QuietTableShowsAssignments
    BY DEF FreshInv, QuietTableShowsAssignments
<1> QED
    BY <1>1, <1>2, NextFresh, TypeInvariant, PTL DEF Spec

-----------------------------------------------------------------------------
(* Requests come to an end.                                                *)

TurnsInto(q, r) ==
    /\ requests' = (requests \ {q}) \cup {r}
    /\ r.n = q.n /\ Ahead(r) < Ahead(q)

MakesWay(q, more) ==
    /\ requests' = (requests \ {q}) \cup more
    /\ \A r \in more : Ahead(r) < Ahead(q)

\* A request goes from "sent" to an answer, and from there only to "failed".
LEMMA StateAhead ==
    ASSUME NEW q, NEW r, r.n = q.n, r.verb = q.verb,
           \/ q.state = "sent" /\ r.state \in {"answered", "login"}
           \/ q.state \in {"sent", "answered", "login"} /\ r.state = "failed",
           requests' = (requests \ {q}) \cup {r}
    PROVE  TurnsInto(q, r)
<1>1. Chain(q.verb) \in Nat
    BY DEF Chain
<1> QED
    BY <1>1 DEF TurnsInto, Ahead

\* The server and the network keep the request's number and bring it further.
LEMMA TurnsFurther ==
    ASSUME TypeInv, NEW q \in requests, Serve(q) \/ Lose(q)
    PROVE  \E r : TurnsInto(q, r)
<1>0. q \in Requests
    BY DEF TypeInv, TypeOK
<1>1. CASE Serve(q)
  <2> DEFINE a == Answered(q)
  <2>0. /\ q.state = "sent"
        /\ a \in Requests /\ a.n = q.n /\ a.verb = q.verb /\ a.state = "answered"
      BY <1>0, <1>1 DEF Serve, Answered, Requests
  <2> HIDE DEF a
  <2>1. CASE ServeAssign(q) \/ ServeUnassign(q)
    <3>1. requests' = (requests \ {q}) \cup {a}
        BY <2>1 DEF ServeAssign, ServeUnassign, Reply, a
    <3> QED
        BY <2>0, <3>1, StateAhead
  <2>2. CASE ServeCreate(q)
    <3> DEFINE r == [a EXCEPT !.id = made + 1]
    <3>1. requests' = (requests \ {q}) \cup {r}
        BY <2>2 DEF ServeCreate, Reply, a
    <3>2. r.n = q.n /\ r.verb = q.verb /\ r.state = "answered"
        BY <2>0 DEF Requests
    <3> QED
        BY <2>0, <3>1, <3>2, StateAhead
  <2>3. CASE ServeFind(q)
    <3> DEFINE r == [a EXCEPT !.rows = 1..made]
    <3>1. requests' = (requests \ {q}) \cup {r}
        BY <2>3 DEF ServeFind, Reply, a
    <3>2. r.n = q.n /\ r.verb = q.verb /\ r.state = "answered"
        BY <2>0 DEF Requests
    <3> QED
        BY <2>0, <3>1, <3>2, StateAhead
  <2>4. CASE ServeList(q)
    <3> DEFINE r == [a EXCEPT !.repairs = repair, !.at = writes]
    <3>1. requests' = (requests \ {q}) \cup {r}
        BY <2>4 DEF ServeList, Reply, a
    <3>2. r.n = q.n /\ r.verb = q.verb /\ r.state = "answered"
        BY <2>0 DEF Requests
    <3> QED
        BY <2>0, <3>1, <3>2, StateAhead
  <2>5. CASE Redirect(q)
    <3> DEFINE r == [q EXCEPT !.state = "login"]
    <3>1. requests' = (requests \ {q}) \cup {r}
        BY <2>5 DEF Redirect, Reply
    <3>2. r.n = q.n /\ r.verb = q.verb /\ r.state = "login"
        BY <1>0 DEF Requests
    <3> QED
        BY <2>0, <3>1, <3>2, StateAhead
  <2> QED
      BY <1>1, <2>1, <2>2, <2>3, <2>4, <2>5 DEF Serve
<1>2. CASE Lose(q)
  <2> DEFINE r == [q EXCEPT !.state = "failed"]
  <2>1. requests' = (requests \ {q}) \cup {r} /\ q.state \in {"sent", "answered", "login"}
      BY <1>2 DEF Lose
  <2>2. r.n = q.n /\ r.verb = q.verb /\ r.state = "failed"
      BY <1>0 DEF Requests
  <2> QED
      BY <2>1, <2>2, StateAhead
<1> QED
    BY <1>1, <1>2

\* A handler makes requests with less ahead of them.
LEMMA TakesFurther ==
    ASSUME NEW q \in requests, Receive(q)
    PROVE  \E more : MakesWay(q, more)
<1>1. CASE Located(q)
  <2>1. requests' = (requests \ {q}) \cup {Ask("find")} /\ q.verb = "geocode"
      BY <1>1 DEF Located, Finish
  <2>2. Ahead(Ask("find")) < Ahead(q)
      BY <2>1 DEF Ahead, Chain, Ask, Request
  <2>3. MakesWay(q, {Ask("find")})
      BY <2>1, <2>2 DEF MakesWay
  <2> QED
      BY <2>3
<1>2. CASE Hides(q)
  <2> DEFINE more == IF sheet THEN {Ask("list")} ELSE {}
  <2>1. q.verb \in {"assign", "unassign"} /\ requests' = (requests \ {q}) \cup more
      BY <1>2 DEF Hides, Finish
  <2>2. Ahead(Ask("list")) < Ahead(q)
      BY <2>1 DEF Ahead, Chain, Ask, Request
  <2>3. MakesWay(q, more)
      BY <2>1, <2>2 DEF MakesWay
  <2> QED
      BY <2>3
<1>3. CASE Added(q)
  <2> DEFINE r == Request("assign", claim.id, selected', q.meant)
  <2>1. q.verb = "create" /\ requests' = (requests \ {q}) \cup {r}
      BY <1>3 DEF Added, Finish
  <2>2. Ahead(r) < Ahead(q)
      BY <2>1 DEF Ahead, Chain, Request
  <2>3. MakesWay(q, {r})
      BY <2>1, <2>2 DEF MakesWay
  <2> QED
      BY <2>3
<1>4. CASE NotLocated(q) \/ GotContractors(q) \/ GotClaims(q) \/ AssignFailed(q) \/ OtherFailed(q)
  <2>1. MakesWay(q, {})
      BY <1>4 DEF NotLocated, GotContractors, GotClaims, AssignFailed, OtherFailed, Finish,
                  MakesWay
  <2> QED
      BY <2>1
<1> QED
    BY <1>1, <1>2, <1>3, <1>4 DEF Receive

\* Whatever takes the place of a request has less ahead of it, for any number
\* of claims, contractors, requests and faults (CIRequest.send, the handlers of
\* contractor-map.js).
THEOREM NoEndlessRequests == Spec => RequestsRunOut
<1> DEFINE RunOut == \A q \in requests \ requests', r \in requests' \ requests :
                         Ahead(r) < Ahead(q)
<1>1. TypeInv /\ [Next]_vars => [RunOut]_vars
  <2> SUFFICES ASSUME TypeInv, Next PROVE RunOut
      OBVIOUS
  <2>1. CASE User
    <3>1. requests \subseteq requests'
        BY <2>1, UserStep DEF UserMoves, Sends
    <3> QED
        BY <3>1
  <2>2. ASSUME NEW q \in requests, Serve(q) \/ Lose(q) PROVE RunOut
      BY <2>2, TurnsFurther DEF TurnsInto
  <2>3. ASSUME NEW q \in requests, Receive(q) PROVE RunOut
      BY <2>3, TakesFurther DEF MakesWay
  <2> QED
      BY <2>1, <2>2, <2>3 DEF Next, Network
<1> QED
    BY <1>1, TypeInvariant, PTL DEF Spec, RequestsRunOut

\* An assignment that ends under an open sheet closes it or enables Assign: the
\* part of AssignEnds that does not rest on fairness (assignButton).
THEOREM AssignsSettle == Spec => AssignSettles
<1> DEFINE Settles == sheet /\ (\E q \in requests : /\ q.verb = "assign"
                                                    /\ \A r \in requests' : r.n # q.n)
                          => ~sheet' \/ ~disabled'["assign"]
<1>1. TypeInv /\ [Next]_vars => [Settles]_vars
  <2> SUFFICES ASSUME TypeInv, Next, sheet,
                      NEW q \in requests, q.verb = "assign", \A r \in requests' : r.n # q.n
               PROVE  ~sheet' \/ ~disabled'["assign"]
      OBVIOUS
  <2>1. q \notin requests'
      OBVIOUS
  <2>2. CASE User
    <3>1. requests \subseteq requests'
        BY <2>2, UserStep DEF UserMoves, Sends
    <3> QED
        BY <2>1, <3>1
  <2>3. ASSUME NEW o \in requests, Serve(o) \/ Lose(o) PROVE FALSE
    <3>1. PICK r : requests' = (requests \ {o}) \cup {r} /\ r.n = o.n
        BY <2>3, TurnsFurther DEF TurnsInto
    <3> QED
        BY <2>1, <3>1
  <2>4. ASSUME NEW o \in requests, Receive(o) PROVE ~sheet' \/ ~disabled'["assign"]
    <3>1. o = q
        BY <2>1, <2>4, TakesFurther DEF MakesWay
    <3>2. CASE Hides(q)
        BY <3>2 DEF Hides
    <3>3. CASE AssignFailed(q)
        BY <3>3 DEF AssignFailed, TypeInv, TypeOK, Buttons
    <3> QED
        BY <2>4, <3>1, <3>2, <3>3
           DEF Receive, Located, NotLocated, GotContractors, GotClaims, Added, OtherFailed
  <2> QED
      BY <2>2, <2>3, <2>4 DEF Next, Network
<1> QED
    BY <1>1, TypeInvariant, PTL DEF Spec, AssignSettles
=============================================================================
