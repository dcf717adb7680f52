---------------------------- MODULE CITableProofs ----------------------------
(***************************************************************************)
(* Theorems about CITable, for any page, any number of records, requests   *)
(* and faults.                                                             *)
(***************************************************************************)
EXTENDS CITable, FiniteSetTheorems, SequenceTheorems, TLAPS

-----------------------------------------------------------------------------
(* Types, and what they rest on: an attached editor is on a row that shows *)
(* the record it was opened on, so Save posts to that record, and the      *)
(* answer to a save carries a record.                                      *)

EditorInv ==
    hud.attached => hud.row \in DOMAIN rows /\ rows[hud.row].id = hud.opened

AnswersInv ==
    \A q \in requests :
        q.verb = "update" /\ q.state = "answered" => q.answer # <<>>

TypeInv ==
    /\ TypeOK
    /\ IsFiniteSet(requests)
    /\ AnyValue \in Values
    /\ EditorInv
    /\ AnswersInv
    /\ SaveTargetsOpened

\* The number `Unused` looks for exists.
LEMMA FreeNumber ==
    ASSUME NEW S, IsFiniteSet(S)
    PROVE  \E n \in 0..Cardinality(S) : \A q \in S : q.n # n
<1> DEFINE N == 0..Cardinality(S)
           f == [n \in N |-> CHOOSE q \in S : q.n = n]
<1>1. Cardinality(S) \in Nat
    BY FS_CardinalityType
<1>2. IsFiniteSet(N) /\ Cardinality(N) = Cardinality(S) + 1
    BY <1>1, FS_Interval
<1>3. SUFFICES ASSUME \A n \in N : \E q \in S : q.n = n PROVE FALSE
    OBVIOUS
<1>4. f \in [N -> S] /\ \A n \in N : f[n].n = n
    BY <1>3
<1>5. \E x, y \in N : x # y /\ f[x] = f[y]
  <2>1. Cardinality(S) < Cardinality(N)
      BY <1>1, <1>2
  <2> HIDE DEF N, f
  <2> QED
      BY <1>2, <1>4, <2>1, FS_PigeonHole
<1> QED
    BY <1>4, <1>5

LEMMA RequestType ==
    ASSUME TypeInv, NEW verb \in {"get", "update", "create", "delete"},
           NEW id \in 0..MaxRecords, NEW value \in Values, NEW opened \in 0..MaxRecords
    PROVE  Request(verb, id, value, opened) \in Requests
<1>1. Unused \in Nat
  <2>1. IsFiniteSet(requests)
      BY DEF TypeInv
  <2>2. \E n \in 0..Cardinality(requests) : \A q \in requests : q.n # n
      BY <2>1, FreeNumber
  <2>3. Cardinality(requests) \in Nat
      BY <2>1, FS_CardinalityType
  <2> QED
      BY <2>2, <2>3 DEF Unused
<1> HIDE DEF Unused
<1>2. <<>> \in Seq(Records)
    OBVIOUS
<1> QED
    BY <1>1, <1>2 DEF Request, Requests

LEMMA GetType ==
    ASSUME TypeInv
    PROVE  Get \in Requests /\ Get.verb = "get" /\ Get.state = "sent"
<1>1. Get \in Requests
    BY RequestType, MaxRecordsAssumption DEF Get, TypeInv
<1> QED
    BY <1>1 DEF Get, Request

LEMMA InitType == Init => TypeInv
<1> SUFFICES ASSUME Init PROVE TypeInv
    OBVIOUS
<1>1. PICK v \in Values, k \in 0..MaxRecords :
          made = k /\ db = [i \in 1..k |-> [id |-> i, value |-> v]]
    BY DEF Init
<1>2. AnyValue \in Values
    BY <1>1 DEF AnyValue
<1> HIDE DEF AnyValue
<1>3. db \in Seq(Records)
    BY <1>1, MaxRecordsAssumption DEF Records
<1>4. FirstGet \in Requests
    BY <1>2, MaxRecordsAssumption DEF FirstGet, Requests
<1>5. IsFiniteSet(requests)
    BY FS_Singleton DEF Init
<1>6. TypeOK
    BY <1>1, MaxRecordsAssumption, <1>3, <1>4 DEF Init, TypeOK, None, Huds
<1> QED
    BY <1>2, <1>5, <1>6
       DEF Init, TypeInv, EditorInv, AnswersInv, SaveTargetsOpened, FirstGet, None

LEMMA SendType ==
    ASSUME TypeInv, NEW q \in Requests, Send(q), q.state = "sent",
           q.verb = "update" => q.id = q.opened
    PROVE  TypeInv'
<1>1. TypeOK'
    BY DEF Send, TypeInv, TypeOK, serverVars
<1>2. IsFiniteSet(requests')
    BY FS_AddElement DEF Send, TypeInv
<1>3. EditorInv' /\ AnswersInv' /\ SaveTargetsOpened'
    BY DEF Send, TypeInv, EditorInv, AnswersInv, SaveTargetsOpened
<1> QED
    BY <1>1, <1>2, <1>3 DEF TypeInv, AnyValue

LEMMA Element ==
    ASSUME NEW s \in Seq(Records), NEW i \in DOMAIN s
    PROVE  i \in Nat /\ s[i] \in Records /\ s[i].id \in 1..MaxRecords
<1>1. s \in [1..Len(s) -> Records] /\ DOMAIN s = 1..Len(s)
    BY LenProperties
<1>2. s[i] \in Records /\ i \in Nat
    BY <1>1
<1> QED
    BY <1>2 DEF Records

LEMMA UserType ==
    ASSUME TypeInv, User
    PROVE  TypeInv'
<1> USE MaxRecordsAssumption
<1>0. /\ rows \in Seq(Records) /\ hud \in Huds
      /\ \A i \in DOMAIN rows : i \in Nat /\ rows[i] \in Records /\ rows[i].id \in 0..MaxRecords
  <2>1. rows \in Seq(Records) /\ hud \in Huds
      BY DEF TypeInv, TypeOK
  <2> QED
      BY <2>1, Element
<1>1. CASE GetData
    BY <1>1, GetType, SendType DEF GetData
<1>2. ASSUME NEW i \in DOMAIN rows, EditCell(i) PROVE TypeInv'
  <2>1. TypeOK'
      BY <1>0, <1>2 DEF EditCell, TypeInv, TypeOK, Huds, serverVars
  <2>2. EditorInv' /\ AnswersInv' /\ SaveTargetsOpened' /\ IsFiniteSet(requests')
      BY <1>2 DEF EditCell, TypeInv, EditorInv, AnswersInv, SaveTargetsOpened
  <2> QED
      BY <2>1, <2>2 DEF TypeInv, AnyValue
<1>3. ASSUME NEW i \in DOMAIN rows, DeleteRecord(i) PROVE TypeInv'
  <2> DEFINE q == Request("delete", rows[i].id, AnyValue, 0)
  <2>1. q \in Requests
      BY <1>0, RequestType DEF TypeInv
  <2>2. q.state = "sent" /\ q.verb = "delete"
      BY DEF Request
  <2>3. Send(q)
      BY <1>3 DEF DeleteRecord
  <2> HIDE DEF q
  <2> QED
      BY <2>1, <2>2, <2>3, SendType
<1>4. CASE StopEditing
  <2>1. TypeOK'
      BY <1>4 DEF StopEditing, TypeInv, TypeOK, Huds, None, serverVars
  <2>2. EditorInv' /\ AnswersInv' /\ SaveTargetsOpened' /\ IsFiniteSet(requests')
      BY <1>4 DEF StopEditing, TypeInv, EditorInv, AnswersInv, SaveTargetsOpened, None
  <2> QED
      BY <2>1, <2>2 DEF TypeInv, AnyValue
<1>5. ASSUME NEW v \in Values, CommitChanges(v) PROVE TypeInv'
  <2> DEFINE q == Request("update", rows[hud.row].id, v, hud.opened)
  <2>1. hud.row \in DOMAIN rows /\ rows[hud.row].id = hud.opened
      BY <1>5 DEF CommitChanges, TypeInv, EditorInv
  <2>2. q \in Requests
      BY <1>0, <2>1, RequestType
  <2>3. q.state = "sent" /\ q.id = q.opened
      BY <2>1 DEF Request
  <2>4. Send(q)
      BY <1>5 DEF CommitChanges
  <2> HIDE DEF q
  <2> QED
      BY <2>2, <2>3, <2>4, SendType
<1>6. ASSUME NEW v \in Values, AddRecord(v) PROVE TypeInv'
  <2> DEFINE q == Request("create", 0, v, 0)
  <2>1. q \in Requests
      BY RequestType
  <2>2. q.state = "sent" /\ q.verb = "create"
      BY DEF Request
  <2>3. Send(q)
      BY <1>6 DEF AddRecord
  <2> HIDE DEF q
  <2> QED
      BY <2>1, <2>2, <2>3, SendType
<1> QED
    BY <1>1, <1>2, <1>3, <1>4, <1>5, <1>6 DEF User

LEMMA AnswerType ==
    ASSUME TypeInv, NEW q \in requests,
           NEW state \in {"answered", "login", "failed"}, NEW list \in Seq(Records),
           q.verb = "update" /\ state = "answered" => list # <<>>,
           db' \in Seq(Records), made' \in 0..MaxRecords,
           Answer(q, state, list)
    PROVE  TypeInv'
<1> DEFINE r == [q EXCEPT !.state = state, !.answer = list, !.at = writes]
<1>1. q \in Requests /\ writes \in Nat /\ faults \in Nat
    BY DEF TypeInv, TypeOK
<1>2. r \in Requests
    BY <1>1 DEF Requests
<1>3. r.verb = q.verb /\ r.id = q.id /\ r.opened = q.opened /\ r.state = state /\ r.answer = list
    BY <1>1 DEF Requests
<1>4. requests' = (requests \ {q}) \cup {r} /\ UNCHANGED <<kind, rows, hud, busy, sent, shownAt, calm>>
    BY DEF Answer
<1> HIDE DEF r
<1>5. Range(list) \subseteq Records
    BY Element DEF Range
<1>6. served' \subseteq Records /\ writes' \in Nat /\ faults' \in Nat
    BY <1>1, <1>5 DEF Answer, TypeInv, TypeOK
<1>7. TypeOK'
    BY <1>2, <1>4, <1>6 DEF TypeInv, TypeOK
<1>8. IsFiniteSet(requests')
    BY <1>4, FS_AddElement, FS_RemoveElement DEF TypeInv
<1>9. EditorInv' /\ AnswersInv' /\ SaveTargetsOpened'
    BY <1>3, <1>4 DEF TypeInv, EditorInv, AnswersInv, SaveTargetsOpened
<1> QED
    BY <1>7, <1>8, <1>9 DEF TypeInv, AnyValue

\* What each action of the server does to its table.
LEMMA ServeAnswers ==
    ASSUME TypeInv, NEW q \in requests, Serve(q)
    PROVE  \E state \in {"answered", "login", "failed"}, list \in Seq(Records) :
              /\ Answer(q, state, list)
              /\ db' \in Seq(Records) /\ made' \in 0..MaxRecords
              /\ q.verb = "update" /\ state = "answered" => list # <<>>
              /\ q.verb = "get" /\ state = "answered" => list = db
              /\ q.verb = "get" => db' = db
              /\ state # "answered" => db' = db
<1> USE MaxRecordsAssumption
<1>0. /\ db \in Seq(Records) /\ made \in 0..MaxRecords /\ q.value \in Values
      /\ DOMAIN db = 1..Len(db) /\ Len(db) \in Nat
    BY LenProperties DEF TypeInv, TypeOK, Requests
<1>e. <<>> \in Seq(Records)
    OBVIOUS
<1>1. CASE ServeGet(q)
    BY <1>0, <1>1 DEF ServeGet
<1>2. CASE ServeUpdate(q)
  <2>1. PICK i \in DOMAIN db :
            /\ q.verb = "update"
            /\ db' = IF kind = "properties" /\ q.value \in Refused
                     THEN db ELSE [db EXCEPT ![i].value = q.value]
            /\ Answer(q, "answered", <<db'[i]>>)
            /\ UNCHANGED made
      BY <1>2 DEF ServeUpdate
  <2>2. db[i] \in Records /\ i \in 1..Len(db)
      BY <1>0, Element
  <2>3. [db[i] EXCEPT !.value = q.value] \in Records
      BY <1>0, <2>2 DEF Records
  <2>4. db' \in Seq(Records) /\ i \in DOMAIN db'
      BY <1>0, <2>1, <2>2, <2>3, ExceptSeq
  <2>5. db'[i] \in Records
      BY <2>4, Element
  <2>6. <<db'[i]>> \in Seq(Records) /\ <<db'[i]>> # <<>>
      BY <2>5
  <2> QED
      BY <1>0, <2>1, <2>4, <2>6
<1>3. CASE ServeCreate(q)
  <2> DEFINE r == [id |-> made + 1, value |-> q.value]
  <2>1. q.verb = "create" /\ made < MaxRecords /\ db' = Insert(r) /\ made' = made + 1
        /\ Answer(q, "answered", <<r>>)
      BY <1>3 DEF ServeCreate
  <2>2. r \in Records
      BY <1>0, <2>1 DEF Records
  <2> HIDE DEF r
  <2>3. <<r>> \in Seq(Records)
      BY <2>2
  <2>4. Insert(r) \in Seq(Records)
      BY <1>0, <2>2, <2>3, ConcatProperties DEF Insert
  <2>5. made' \in 0..MaxRecords /\ db' \in Seq(Records) /\ q.verb \notin {"get", "update"}
      BY <1>0, <2>1, <2>4
  <2> QED
      BY <2>1, <2>3, <2>5
<1>4. CASE ServeDelete(q)
  <2>1. PICK i \in DOMAIN db :
            /\ q.verb = "delete"
            /\ db' = SubSeq(db, 1, i - 1) \o SubSeq(db, i + 1, Len(db))
            /\ Answer(q, "answered", <<db[i]>>)
            /\ UNCHANGED made
      BY <1>4 DEF ServeDelete
  <2>2. i \in 1..Len(db) /\ \A j \in 1..Len(db) : db[j] \in Records
      BY <1>0, Element
  <2>a. /\ 1 \in Int /\ i - 1 \in Int /\ i + 1 \in Int /\ Len(db) \in Int
        /\ \A j \in 1..(i - 1) : db[j] \in Records
        /\ \A j \in (i + 1)..Len(db) : db[j] \in Records
      BY <1>0, <2>2
  <2>3. SubSeq(db, 1, i - 1) \in Seq(Records)
      BY <2>a, SubSeqProperties
  <2>4. SubSeq(db, i + 1, Len(db)) \in Seq(Records)
      BY <2>a, SubSeqProperties
  <2>5. db' \in Seq(Records)
      BY <2>1, <2>3, <2>4, ConcatProperties
  <2>6. <<db[i]>> \in Seq(Records)
      BY <1>0, <2>2
  <2> QED
      BY <1>0, <2>1, <2>5, <2>6
<1>5. CASE NotFound(q)
    BY <1>0, <1>e, <1>5 DEF NotFound
<1>6. CASE Redirect(q)
    BY <1>0, <1>e, <1>6 DEF Redirect
<1> QED
    BY <1>1, <1>2, <1>3, <1>4, <1>5, <1>6 DEF Serve

LEMMA ServeType ==
    ASSUME TypeInv, NEW q \in requests, Serve(q)
    PROVE  TypeInv'
BY ServeAnswers, AnswerType

LEMMA LoseType ==
    ASSUME TypeInv, NEW q \in requests, Lose(q)
    PROVE  TypeInv'
<1> DEFINE r == [q EXCEPT !.state = "failed"]
<1>1. q \in Requests /\ faults \in Nat
    BY DEF TypeInv, TypeOK
<1>2. r \in Requests
    BY <1>1 DEF Requests
<1>3. r.verb = q.verb /\ r.id = q.id /\ r.opened = q.opened /\ r.state = "failed"
    BY <1>1 DEF Requests
<1>4. /\ requests' = (requests \ {q}) \cup {r} /\ faults' \in Nat
      /\ UNCHANGED <<kind, db, made, served, writes, rows, hud, busy, sent, shownAt, calm>>
    BY <1>1 DEF Lose
<1> HIDE DEF r
<1>5. TypeOK'
    BY <1>2, <1>4 DEF TypeInv, TypeOK
<1>6. IsFiniteSet(requests')
    BY <1>4, FS_AddElement, FS_RemoveElement DEF TypeInv
<1>7. EditorInv' /\ AnswersInv' /\ SaveTargetsOpened'
    BY <1>3, <1>4 DEF TypeInv, EditorInv, AnswersInv, SaveTargetsOpened
<1> QED
    BY <1>5, <1>6, <1>7 DEF TypeInv, AnyValue

\* The handler of an answer takes the request away and may send a get.
LEMMA Finishes ==
    ASSUME TypeInv, NEW q \in requests, NEW reload \in BOOLEAN, Finish(q, reload)
    PROVE  /\ requests' \subseteq Requests /\ IsFiniteSet(requests')
           /\ busy' \in BOOLEAN
           /\ AnswersInv' /\ SaveTargetsOpened'
           /\ UNCHANGED <<serverVars, sent>>
<1>1. requests' = (requests \ {q}) \cup (IF reload THEN {Get} ELSE {})
    BY DEF Finish
<1>2. Get \in Requests /\ Get.verb = "get" /\ Get.state = "sent"
    BY GetType
<1> HIDE DEF Get
<1>3. requests' \subseteq Requests
    BY <1>1, <1>2 DEF TypeInv, TypeOK
<1>4. IsFiniteSet(requests')
  <2>1. IsFiniteSet(requests \ {q})
      BY FS_RemoveElement DEF TypeInv
  <2>2. IsFiniteSet((requests \ {q}) \cup {Get})
      BY <2>1, FS_AddElement
  <2>3. (requests \ {q}) \cup {} = requests \ {q}
      OBVIOUS
  <2> QED
      BY <1>1, <2>1, <2>2, <2>3
<1>5. AnswersInv' /\ SaveTargetsOpened'
    BY <1>1, <1>2 DEF TypeInv, AnswersInv, SaveTargetsOpened
<1>6. busy' \in BOOLEAN
    BY DEF Finish
<1> QED
    BY <1>3, <1>4, <1>5, <1>6 DEF Finish

LEMMA ReceiveType ==
    ASSUME TypeInv, NEW q \in requests, Receive(q)
    PROVE  TypeInv'
<1>0. /\ q \in Requests /\ q.answer \in Seq(Records) /\ q.at \in Nat
      /\ rows \in Seq(Records) /\ hud \in Huds /\ shownAt \in Nat
      /\ q.state \in {"sent", "answered", "login", "failed"}
    BY DEF TypeInv, TypeOK, Requests
<1>c. calm' \in BOOLEAN
    BY DEF Receive
<1>f. /\ requests' \subseteq Requests /\ IsFiniteSet(requests') /\ busy' \in BOOLEAN
      /\ AnswersInv' /\ SaveTargetsOpened' /\ UNCHANGED <<serverVars, sent>>
  <2>1. \E reload \in BOOLEAN : Finish(q, reload)
      BY DEF Receive, RequestFailed, GotData, PostedUpdate, Changed
  <2> QED
      BY <2>1, Finishes
<1>1. rows' \in Seq(Records) /\ hud' \in Huds /\ shownAt' \in Nat /\ EditorInv'
  <2>1. CASE RequestFailed(q) \/ Changed(q)
      BY <1>0, <2>1 DEF RequestFailed, Changed, TypeInv, EditorInv
  <2>2. CASE GotData(q)
    <3>1. CASE UNCHANGED <<rows, hud, shownAt>>
        BY <1>0, <3>1 DEF TypeInv, EditorInv
    <3>2. CASE /\ rows' = q.answer /\ shownAt' = q.at
               /\ hud' = IF hud = None THEN None ELSE [hud EXCEPT !.attached = FALSE]
      <4>1. hud' \in Huds /\ hud'.attached = FALSE
          BY <1>0, <3>2 DEF Huds, None
      <4> QED
          BY <1>0, <3>2, <4>1 DEF EditorInv
    <3> QED
        BY <2>2, <3>1, <3>2 DEF GotData
  <2>3. CASE PostedUpdate(q)
    <3>1. hud' \in Huds /\ hud'.attached = FALSE
        BY <1>0, <2>3, MaxRecordsAssumption DEF PostedUpdate, Huds, None
    <3>2. rows' \in Seq(Records)
      <4>1. CASE hud.attached /\ q.state = "answered"
        <5>1. q.answer # <<>> /\ hud.row \in DOMAIN rows
            BY <2>3, <4>1 DEF PostedUpdate, TypeInv, AnswersInv, EditorInv
        <5>2. q.answer[1] \in Records /\ hud.row \in 1..Len(rows)
            BY <1>0, <5>1, EmptySeq, LenProperties, ElementOfSeq
        <5> QED
            BY <1>0, <2>3, <4>1, <5>2, ExceptSeq DEF PostedUpdate
      <4>2. CASE ~(hud.attached /\ q.state = "answered")
          BY <1>0, <2>3, <4>2 DEF PostedUpdate
      <4> QED
          BY <4>1, <4>2
    <3> QED
        BY <1>0, <2>3, <3>1, <3>2 DEF PostedUpdate, EditorInv
  <2> QED
      BY <2>1, <2>2, <2>3 DEF Receive
<1>2. TypeOK'
    BY <1>c, <1>f, <1>1 DEF TypeInv, TypeOK, serverVars
<1> QED
    BY <1>f, <1>1, <1>2 DEF TypeInv, AnyValue

LEMMA NextType == TypeInv /\ [Next]_vars => TypeInv'
<1> SUFFICES ASSUME TypeInv, [Next]_vars PROVE TypeInv'
    OBVIOUS
<1>1. CASE UNCHANGED vars
  <2>1. TypeOK'
      BY <1>1 DEF TypeInv, TypeOK, vars, serverVars
  <2> QED
      BY <1>1, <2>1 DEF TypeInv, AnyValue, EditorInv, AnswersInv, SaveTargetsOpened, vars
<1> QED
    BY <1>1, UserType, ServeType, LoseType, ReceiveType DEF Next

LEMMA TypeInvariant == Spec => []TypeInv
BY InitType, NextType, PTL DEF Spec

\* Every variable of the page and of the server keeps its type (TypeOK).
THEOREM TypeCorrect == Spec => []TypeOK
<1>1. TypeInv => TypeOK
    BY DEF TypeInv
<1> QED
    BY <1>1, TypeInvariant, PTL

\* Save posts to the record whose cell was opened, for any number of reloads,
\* saves and answers while the editor is open (commitChanges).
THEOREM SavesReachOpened == Spec => []SaveTargetsOpened
<1>1. TypeInv => SaveTargetsOpened
    BY DEF TypeInv
<1> QED
    BY <1>1, TypeInvariant, PTL

-----------------------------------------------------------------------------
(* Rows: an answer in flight carries records the server has answered with. *)

ServedInv ==
    /\ RowsWereServed
    /\ \A q \in requests : Range(q.answer) \subseteq served

LEMMA UserServed ==
    ASSUME TypeInv, ServedInv, User
    PROVE  ServedInv'
<1>1. UNCHANGED <<rows, served>>
    BY DEF User, GetData, EditCell, DeleteRecord, StopEditing, CommitChanges, AddRecord,
           Send, serverVars
<1>2. \/ requests' = requests
      \/ \E verb, id, value, opened : requests' = requests \cup {Request(verb, id, value, opened)}
    BY DEF User, GetData, Get, EditCell, DeleteRecord, StopEditing, CommitChanges, AddRecord,
           Send
<1>3. \A q \in requests' : q \in requests \/ q.answer = <<>>
    BY <1>2 DEF Request
<1> QED
    BY <1>1, <1>3 DEF ServedInv, RowsWereServed, Range

LEMMA ServeServed ==
    ASSUME TypeInv, ServedInv, NEW q \in requests, Serve(q)
    PROVE  ServedInv'
<1>1. PICK state \in {"answered", "login", "failed"}, list \in Seq(Records) :
          Answer(q, state, list)
    BY ServeAnswers
<1> DEFINE r == [q EXCEPT !.state = state, !.answer = list, !.at = writes]
<1>2. r.answer = list
    BY DEF TypeInv, TypeOK, Requests
<1>3. /\ requests' = (requests \ {q}) \cup {r} /\ served' = served \cup Range(list)
      /\ UNCHANGED rows
    BY <1>1 DEF Answer
<1> HIDE DEF r
<1> QED
    BY <1>2, <1>3 DEF ServedInv, RowsWereServed

LEMMA LoseServed ==
    ASSUME TypeInv, ServedInv, NEW q \in requests, Lose(q)
    PROVE  ServedInv'
<1> DEFINE r == [q EXCEPT !.state = "failed"]
<1>1. r.answer = q.answer
    BY DEF TypeInv, TypeOK, Requests
<1>2. requests' = (requests \ {q}) \cup {r} /\ UNCHANGED <<rows, served>>
    BY DEF Lose
<1> HIDE DEF r
<1> QED
    BY <1>1, <1>2 DEF ServedInv, RowsWereServed

LEMMA ReceiveServed ==
    ASSUME TypeInv, ServedInv, NEW q \in requests, Receive(q)
    PROVE  ServedInv'
<1>0. q.answer \in Seq(Records) /\ rows \in Seq(Records)
    BY DEF TypeInv, TypeOK, Requests
<1>1. requests' \subseteq requests \cup {Get} /\ served' = served
    BY DEF Receive, RequestFailed, GotData, PostedUpdate, Changed, Finish, serverVars
<1>2. Get.answer = <<>>
    BY DEF Get, Request
<1> HIDE DEF Get
<1>3. \A o \in requests' : Range(o.answer) \subseteq served'
    BY <1>1, <1>2 DEF ServedInv, Range
<1>4. \/ rows' \in {rows, q.answer}
      \/ /\ q.answer # <<>> /\ hud.row \in DOMAIN rows
         /\ rows' = [rows EXCEPT ![hud.row] = q.answer[1]]
    BY DEF Receive, RequestFailed, GotData, PostedUpdate, Changed, TypeInv, AnswersInv, EditorInv
<1>5. CASE rows' \in {rows, q.answer}
    BY <1>1, <1>3, <1>5 DEF ServedInv, RowsWereServed
<1>6. CASE /\ q.answer # <<>> /\ hud.row \in DOMAIN rows
           /\ rows' = [rows EXCEPT ![hud.row] = q.answer[1]]
  <2>1. 1 \in DOMAIN q.answer
      BY <1>0, <1>6, EmptySeq, LenProperties
  <2>2. q.answer[1] \in served
      BY <2>1 DEF ServedInv, Range
  <2>3. Range(rows') \subseteq Range(rows) \cup {q.answer[1]}
      BY <1>6 DEF Range
  <2> QED
      BY <1>1, <1>3, <2>2, <2>3 DEF ServedInv, RowsWereServed
<1> QED
    BY <1>4, <1>5, <1>6

LEMMA NextServed == TypeInv /\ ServedInv /\ [Next]_vars => ServedInv'
<1> SUFFICES ASSUME TypeInv, ServedInv, [Next]_vars PROVE ServedInv'
    OBVIOUS
<1>1. CASE UNCHANGED vars
    BY <1>1 DEF ServedInv, RowsWereServed, vars, serverVars
<1> QED
    BY <1>1, UserServed, ServeServed, LoseServed, ReceiveServed DEF Next

\* A row shows a record as the server once answered it, whatever is typed,
\* refused or lost (_onPostedData, setCollection).
THEOREM RowsAreServed == Spec => []RowsWereServed
<1>1. Init => ServedInv
    BY DEF Init, ServedInv, RowsWereServed, FirstGet, Range
<1>2. ServedInv => RowsWereServed
    BY DEF ServedInv
<1> QED
    BY <1>1, <1>2, NextServed, TypeInvariant, PTL DEF Spec

-----------------------------------------------------------------------------
(* What a step does to the requests in flight, as far as the indicator and *)
(* the freshness of the table go.                                          *)

\* The user: a request joins the others; nothing is shown or stored.
Sends(q) ==
    /\ requests' = requests \cup {q}
    /\ busy' = (busy \/ OwnRequest(q))
    /\ q.state = "sent" /\ q.at = 0
    /\ q.verb = "update" => hud.attached

UserSends ==
    /\ UNCHANGED <<kind, db, writes, rows, shownAt, calm>>
    /\ hud'.attached => hud.attached \/ kind # "cards"
    /\ UNCHANGED <<requests, busy>> \/ \E q : Sends(q)

LEMMA UserStep ==
    ASSUME TypeInv, User
    PROVE  UserSends
<1> USE DEF Send, serverVars, UserSends, Sends
<1>1. CASE GetData
    BY <1>1 DEF GetData, Get, Request
<1>2. ASSUME NEW i \in DOMAIN rows, EditCell(i) PROVE UserSends
    BY <1>2 DEF EditCell, Editable
<1>3. ASSUME NEW i \in DOMAIN rows, DeleteRecord(i) PROVE UserSends
    BY <1>3 DEF DeleteRecord, Request
<1>4. CASE StopEditing
    BY <1>4 DEF StopEditing, None
<1>5. ASSUME NEW v \in Values, CommitChanges(v) PROVE UserSends
    BY <1>5 DEF CommitChanges, Request
<1>6. ASSUME NEW v \in Values, AddRecord(v) PROVE UserSends
    BY <1>6 DEF AddRecord, Request
<1> QED
    BY <1>1, <1>2, <1>3, <1>4, <1>5, <1>6 DEF User

\* The server and the network: one request is replaced by its answer.
Turns(q, r) ==
    /\ requests' = (requests \ {q}) \cup {r}
    /\ r.verb = q.verb
    /\ r.state \in {"answered", "login", "failed"}
    /\ r.at \in Nat /\ r.at \in {q.at, writes}
    /\ writes' = IF db' = db THEN writes ELSE writes + 1
    /\ q.verb = "get" \/ r.state # "answered" => db' = db
    /\ q.verb = "get" /\ r.state = "answered" => r.answer = db /\ r.at = writes
    /\ UNCHANGED <<kind, rows, hud, busy, shownAt, calm>>

LEMMA NetworkStep ==
    ASSUME TypeInv, NEW q \in requests, Serve(q) \/ Lose(q)
    PROVE  \E r : Turns(q, r)
<1>0. q \in Requests /\ q.at \in Nat /\ writes \in Nat
    BY DEF TypeInv, TypeOK, Requests
<1>1. CASE Serve(q)
  <2>1. PICK state \in {"answered", "login", "failed"}, list \in Seq(Records) :
            /\ Answer(q, state, list)
            /\ q.verb = "get" /\ state = "answered" => list = db
            /\ q.verb = "get" => db' = db
            /\ state # "answered" => db' = db
      BY <1>1, ServeAnswers
  <2> DEFINE r == [q EXCEPT !.state = state, !.answer = list, !.at = writes]
  <2>2. r.verb = q.verb /\ r.state = state /\ r.answer = list /\ r.at = writes
      BY <1>0 DEF Requests
  <2>3. /\ requests' = (requests \ {q}) \cup {r}
        /\ writes' = IF db' = db THEN writes ELSE writes + 1
        /\ UNCHANGED <<kind, rows, hud, busy, shownAt, calm>>
      BY <2>1 DEF Answer
  <2> HIDE DEF r
  <2>4. Turns(q, r)
      BY <1>0, <2>1, <2>2, <2>3 DEF Turns
  <2> QED
      BY <2>4
<1>2. CASE Lose(q)
  <2> DEFINE r == [q EXCEPT !.state = "failed"]
  <2>1. r.verb = q.verb /\ r.state = "failed" /\ r.at = q.at
      BY <1>0 DEF Requests
  <2>2. /\ requests' = (requests \ {q}) \cup {r}
        /\ UNCHANGED <<db, writes, kind, rows, hud, busy, shownAt, calm>>
      BY <1>2 DEF Lose
  <2> HIDE DEF r
  <2>3. Turns(q, r)
      BY <1>0, <2>1, <2>2 DEF Turns
  <2> QED
      BY <2>3
<1> QED
    BY <1>1, <1>2

\* The page: the request goes, and a get may come in its place.
Takes(q, reload) ==
    /\ requests' = (requests \ {q}) \cup (IF reload THEN {Get} ELSE {})
    /\ busy' = (reload \/ (busy /\ ~OwnRequest(q)))
    /\ UNCHANGED <<kind, db, writes>>
    /\ hud'.attached => hud.attached

LEMMA PageStep ==
    ASSUME TypeInv, NEW q \in requests, Receive(q)
    PROVE  \E reload \in BOOLEAN : Takes(q, reload)
<1>1. hud'.attached => hud.attached
    BY DEF Receive, RequestFailed, GotData, PostedUpdate, Changed, None, TypeInv, TypeOK, Huds
<1>2. \E reload \in BOOLEAN : Finish(q, reload)
    BY DEF Receive, RequestFailed, GotData, PostedUpdate, Changed
<1> QED
    BY <1>1, <1>2 DEF Finish, Takes, serverVars

-----------------------------------------------------------------------------
(* The indicator                                                           *)

LEMMA NextBusy == TypeInv /\ BusyMeansWaiting /\ [Next]_vars => BusyMeansWaiting'
<1> SUFFICES ASSUME TypeInv, BusyMeansWaiting, [Next]_vars PROVE BusyMeansWaiting'
    OBVIOUS
<1> USE DEF BusyMeansWaiting, OwnRequest
<1>1. CASE UNCHANGED vars
    BY <1>1 DEF vars, serverVars
<1>2. CASE User
    BY <1>2, UserStep DEF UserSends, Sends
<1>3. ASSUME NEW q \in requests, Serve(q) \/ Lose(q) PROVE BusyMeansWaiting'
    BY <1>3, NetworkStep DEF Turns
<1>4. ASSUME NEW q \in requests, Receive(q) PROVE BusyMeansWaiting'
  <2>1. PICK reload \in BOOLEAN : Takes(q, reload)
      BY <1>4, PageStep
  <2>2. Get.verb = "get"
      BY GetType
  <2> HIDE DEF Get
  <2>3. CASE reload
      BY <2>1, <2>2, <2>3 DEF Takes
  <2>4. CASE ~reload
      BY <2>1, <2>4 DEF Takes
  <2> QED
      BY <2>3, <2>4
<1> QED
    BY <1>1, <1>2, <1>3, <1>4 DEF Next

\* The table's indicator is shown only while one of its requests is in flight,
\* in whatever order and however they end (CIRequestable, CIRequest.send).
THEOREM BusyIsWaiting == Spec => []BusyMeansWaiting
<1>1. Init => BusyMeansWaiting
    BY DEF Init, BusyMeansWaiting, OwnRequest, FirstGet
<1> QED
    BY <1>1, NextBusy, TypeInvariant, PTL DEF Spec

-----------------------------------------------------------------------------
(* Freshness: as long as the table is calm, what it shows is the newest    *)
(* list, or a request in flight will see to it.                            *)

Refreshing(q) ==
    \/ q.state \in {"login", "failed"}
    \/ q.verb = "get" /\ q.state = "sent"
    \/ q.verb = "get" /\ q.state = "answered" /\ q.at = writes
    \/ q.verb # "get" /\ q.state = "answered"

RequestInv(q) ==
    /\ q.verb = "update" => kind # "cards"
    /\ q.at <= writes
    /\ q.verb = "get" /\ q.state = "answered" /\ q.at = writes => q.answer = db

FreshInv ==
    /\ shownAt <= writes
    /\ hud.attached => kind # "cards"
    /\ \A q \in requests : RequestInv(q)
    /\ kind # "properties" /\ calm =>
          \/ shownAt = writes /\ rows = db
          \/ \E q \in requests : Refreshing(q)

LEMMA UserFresh ==
    ASSUME TypeInv, FreshInv, User
    PROVE  FreshInv'
<1>1. UserSends
    BY UserStep
<1>2. writes \in Nat
    BY DEF TypeInv, TypeOK
<1> QED
    BY <1>1, <1>2 DEF UserSends, Sends, FreshInv, RequestInv, Refreshing

LEMMA NetworkFresh ==
    ASSUME TypeInv, FreshInv, NEW q \in requests, Serve(q) \/ Lose(q)
    PROVE  FreshInv'
<1>1. PICK r : Turns(q, r)
    BY NetworkStep
<1>2. /\ writes \in Nat /\ shownAt \in Nat /\ \A o \in requests : o.at \in Nat
      /\ q.state \in {"sent", "answered", "login", "failed"}
    BY DEF TypeInv, TypeOK, Requests
<1>3. writes' \in Nat /\ writes <= writes' /\ (db' # db => writes' > writes)
    BY <1>1, <1>2 DEF Turns
<1>4. shownAt' <= writes' /\ (hud'.attached => kind' # "cards")
    BY <1>1, <1>2, <1>3 DEF Turns, FreshInv
<1>5. \A o \in requests' : RequestInv(o)'
  <2>1. RequestInv(r)'
      BY <1>1, <1>2, <1>3 DEF Turns, FreshInv, RequestInv
  <2>2. ASSUME NEW o \in requests PROVE RequestInv(o)'
      BY <1>1, <1>2, <1>3 DEF Turns, FreshInv, RequestInv
  <2> QED
      BY <1>1, <2>1, <2>2 DEF Turns
<1>6. kind' # "properties" /\ calm' => \/ shownAt' = writes' /\ rows' = db'
                                       \/ \E o \in requests' : Refreshing(o)'
  <2>1. CASE db' # db
    <3>1. Refreshing(r)'
        BY <1>1, <2>1 DEF Turns, Refreshing
    <3> QED
        BY <1>1, <3>1 DEF Turns
  <2>2. CASE db' = db
    <3>1. writes' = writes /\ \A o \in requests \ {q} : Refreshing(o) => Refreshing(o)'
        BY <1>1, <2>2 DEF Turns, Refreshing
    <3>2. Refreshing(q) => Refreshing(r)'
        BY <1>1, <2>2, <3>1 DEF Turns, Refreshing
    <3> QED
        BY <1>1, <2>2, <3>1, <3>2 DEF Turns, FreshInv
  <2> QED
      BY <2>1, <2>2
<1> QED
    BY <1>4, <1>5, <1>6 DEF FreshInv

LEMMA PageFresh ==
    ASSUME TypeInv, FreshInv, NEW q \in requests, Receive(q)
    PROVE  FreshInv'
<1>0. /\ writes \in Nat /\ shownAt \in Nat /\ q.at \in Nat /\ kind \in Kinds
      /\ q.state \in {"sent", "answered", "login", "failed"}
    BY DEF TypeInv, TypeOK, Requests
<1>1. PICK reload \in BOOLEAN : Takes(q, reload)
    BY PageStep
<1>2. Get.verb = "get" /\ Get.state = "sent" /\ Get.at = 0
    BY GetType DEF Get, Request
<1>3. shownAt' \in {shownAt, q.at}
    BY DEF Receive, RequestFailed, GotData, PostedUpdate, Changed
<1>4. UNCHANGED <<kind, db, writes>>
    BY <1>1 DEF Takes
<1>5. /\ calm' => /\ calm /\ q.state = "answered" /\ (q.verb = "get" => q.at >= shownAt)
                  /\ ~(kind = "claims" /\ q.verb = "update" /\ PostRaises(q))
    BY DEF Receive
<1> HIDE DEF Get
<1>6. shownAt' <= writes' /\ (hud'.attached => kind' # "cards")
    BY <1>0, <1>1, <1>3, <1>4 DEF Takes, FreshInv, RequestInv
<1>7. \A o \in requests' : RequestInv(o)'
    BY <1>0, <1>1, <1>2, <1>4 DEF Takes, FreshInv, RequestInv
<1>8. ASSUME kind # "properties", calm'
      PROVE  \/ shownAt' = writes /\ rows' = db
             \/ \E o \in requests' : Refreshing(o)'
  <2>r. ASSUME Get \in requests' PROVE \E o \in requests' : Refreshing(o)'
      BY <1>2, <2>r DEF Refreshing
  <2>1. CASE GotData(q)
    <3>1. rows' = q.answer /\ shownAt' = q.at /\ q.verb = "get"
        BY <1>5, <1>8, <2>1 DEF GotData
    <3>2. CASE q.at = writes
        BY <1>5, <1>8, <3>1, <3>2 DEF FreshInv, RequestInv
    <3>3. CASE q.at # writes
      <4>1. ~Refreshing(q)
          BY <1>5, <1>8, <3>1, <3>3 DEF Refreshing
      <4>2. shownAt # writes
          BY <1>0, <1>5, <1>8, <3>1, <3>3 DEF FreshInv, RequestInv
      <4>3. PICK o \in requests : Refreshing(o)
          BY <1>5, <1>8, <4>2 DEF FreshInv
      <4>4. o \in requests' /\ Refreshing(o)'
          BY <1>1, <1>4, <4>1, <4>3 DEF Takes, Refreshing
      <4> QED
          BY <4>4
    <3> QED
        BY <3>2, <3>3
  <2>2. CASE PostedUpdate(q)
    <3>1. q.verb = "update" /\ kind # "cards"
        BY <2>2 DEF PostedUpdate, FreshInv, RequestInv
    <3>2. kind \in {"notes", "claims"}
        BY <1>0, <1>8, <3>1, KindsAssumption
    <3>3. kind = "notes" \/ (kind = "claims" /\ ~PostRaises(q))
        BY <1>5, <1>8, <3>1, <3>2
    <3>4. Get \in requests'
        BY <2>2, <3>3 DEF PostedUpdate, Finish
    <3> QED
        BY <2>r, <3>4
  <2>3. CASE Changed(q)
      BY <2>r, <2>3 DEF Changed, Finish
  <2>4. CASE RequestFailed(q)
      BY <1>5, <1>8, <2>4 DEF RequestFailed
  <2> QED
      BY <2>1, <2>2, <2>3, <2>4 DEF Receive
<1> QED
    BY <1>4, <1>6, <1>7, <1>8 DEF FreshInv

LEMMA NextFresh == TypeInv /\ FreshInv /\ [Next]_vars => FreshInv'
<1> SUFFICES ASSUME TypeInv, FreshInv, [Next]_vars PROVE FreshInv'
    OBVIOUS
<1>1. CASE UNCHANGED vars
    BY <1>1 DEF FreshInv, RequestInv, Refreshing, vars, serverVars
<1> QED
    BY <1>1, UserFresh, NetworkFresh, PageFresh DEF Next

\* A calm table that reloads itself after a change shows the server's records
\* once nothing is in flight (_onPostedData, deleteRecord, the add forms).
THEOREM QuietTablesAreFresh == Spec => []QuietTableIsFresh
<1>1. Init => FreshInv
    BY DEF Init, FreshInv, RequestInv, Refreshing, FirstGet, None
<1>2. FreshInv => QuietTableIsFresh
    BY DEF FreshInv, QuietTableIsFresh
<1> QED
    BY <1>1, <1>2, NextFresh, TypeInvariant, PTL DEF Spec
=============================================================================
