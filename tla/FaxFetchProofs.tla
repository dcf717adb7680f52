--------------------------- MODULE FaxFetchProofs ---------------------------
(***************************************************************************)
(* No fax is lost, and none is saved twice without reason, for any number  *)
(* of jobs, requests, sources and messages.                                *)
(***************************************************************************)
EXTENDS FaxFetch, WellFoundedInduction, TLAPS

-----------------------------------------------------------------------------
(* Type correctness *)

LEMMA InitType == Init => TypeOK
BY FirstScannedAssumption DEF Init, TypeOK, NoCopy

\* The variables of a process that ends a pass or ends altogether.
LocalType ==
    /\ pc \in [Procs -> Running \cup {"idle", "done", "dead"}]
    /\ src \in [Procs -> Sources]
    /\ copy \in [Procs -> [Sources -> [lock_flag : {0, 1}, last_scanned_id : Nat]]]
    /\ left \in [Procs -> SUBSET Sources]
    /\ todo \in [Procs -> SUBSET Nat]
    /\ last \in [Procs -> Nat]

LEMMA EndType ==
    ASSUME TypeOK, NEW p \in Procs, NEW how \in {"done", "dead"}, End(p, how)
    PROVE  LocalType'
BY DEF TypeOK, LocalType, End, NoCopy

LEMMA LeaveType ==
    ASSUME TypeOK, NEW p \in Procs, Leave(p)
    PROVE  LocalType'
<1>1. CASE End(p, "done")
    BY <1>1, EndType
<1>2. CASE ~End(p, "done")
  <2>1. /\ left' = [left EXCEPT ![p] = @ \ {src[p]}]
        /\ pc'   = [pc EXCEPT ![p] = "next"]
        /\ todo' = [todo EXCEPT ![p] = {}]
        /\ last' = [last EXCEPT ![p] = 0]
        /\ UNCHANGED <<src, copy>>
      BY <1>2 DEF Leave
  <2> QED
      BY <2>1 DEF TypeOK, LocalType, Running
<1> QED
    BY <1>1, <1>2

LEMMA NextType == TypeOK /\ [Next]_vars => TypeOK'
<1> SUFFICES ASSUME TypeOK, [Next]_vars PROVE TypeOK'
    OBVIOUS
<1> USE DEF TypeOK, LocalType, table, mail, local, Running, Inside
<1>1. ASSUME NEW s \in Sources, Deliver(s) PROVE TypeOK'
    BY <1>1 DEF Deliver
<1>2. ASSUME NEW p \in Jobs, perform(p) PROVE TypeOK'
    BY Zenon, <1>2 DEF perform, Load, Procs
<1>3. ASSUME NEW p \in Agents, retrieve(p) PROVE TypeOK'
    BY ZenonT(30), <1>3 DEF retrieve, Load, Procs
<1>4. ASSUME NEW p \in Procs, Step(p) PROVE TypeOK'
  <2>1. CASE Seize(p)       BY <2>1 DEF Seize
  <2>2. CASE Skip(p)        BY ZenonT(30), <2>2 DEF Skip
  <2>3. CASE PerformDone(p)
    <3>1. LocalType'
        BY Zenon, <2>3, EndType DEF PerformDone
    <3> QED
        BY Zenon, <2>3, <3>1 DEF PerformDone
  <2>4. CASE Connect(p)
    <3> DEFINE found == (1 .. Len(inbox[src[p]])) \ flagged[src[p]]
    <3>1. found \in SUBSET Nat
        OBVIOUS
    <3> HIDE DEF found
    <3>2. \/ todo' = [todo EXCEPT ![p] = found] /\ last' = [last EXCEPT ![p] = 0]
          \/ UNCHANGED <<todo, last>>
        BY <2>4 DEF Connect, found
    <3>3. todo' \in [Procs -> SUBSET Nat] /\ last' \in [Procs -> Nat]
      <4>1. todo \in [Procs -> SUBSET Nat] /\ last \in [Procs -> Nat] /\ 0 \in Nat
          OBVIOUS
      <4>2. CASE UNCHANGED <<todo, last>>
          BY <4>1, <4>2
      <4>3. CASE todo' = [todo EXCEPT ![p] = found] /\ last' = [last EXCEPT ![p] = 0]
          BY ONLY <3>1, <4>1, <4>3
      <4> QED
          BY <3>2, <4>2, <4>3
    <3>4. pc' \in [Procs -> Running \cup {"idle", "done", "dead"}]
        BY Zenon, <2>4 DEF Connect
    <3>5. overlap' \in SUBSET Sources
        BY <2>4 DEF Connect
    <3>6. UNCHANGED <<lock_flag, last_scanned_id, inbox, flagged, faxes, src, copy, left, failed>>
        BY <2>4 DEF Connect
    <3> QED
        BY Zenon, <3>3, <3>4, <3>5, <3>6
  <2>5. CASE ScanSkips(p)   BY <2>5 DEF ScanSkips
  <2>6. CASE ScanOther(p)
    <3>1. PICK m \in todo[p] : /\ todo' = [todo EXCEPT ![p] = @ \ {m}]
                               /\ last' = [last EXCEPT ![p] = m]
        BY Zenon, <2>6 DEF ScanOther
    <3>2. todo' \in [Procs -> SUBSET Nat] /\ last' \in [Procs -> Nat]
        BY <3>1
    <3> QED
        BY Zenon, <2>6, <3>2 DEF ScanOther
  <2>7. CASE ScanFax(p)
    <3>1. PICK m \in todo[p] :
             /\ faxes' = faxes \cup {[source |-> src[p], message |-> m, by |-> p]}
             /\ last' = [last EXCEPT ![p] = m]
        BY Zenon, <2>7 DEF ScanFax
    <3>2. m \in Nat BY <3>1
    <3>3. last' \in [Procs -> Nat] BY <3>1, <3>2
    <3>4. faxes' \in SUBSET [source : Sources, message : Nat, by : Procs]
        BY <3>1, <3>2
    <3> QED BY Zenon, <2>7, <3>3, <3>4 DEF ScanFax
  <2>8. CASE Flag(p)        BY <2>8 DEF Flag
  <2>9. CASE ScanDone(p)    BY Zenon, <2>9 DEF ScanDone
  <2>10. CASE Finish(p)     BY <2>10 DEF Finish
  <2>11. CASE Unlock(p)     BY Zenon, <2>11, LeaveType DEF Unlock
  <2> QED
      BY Zenon, <1>4, <2>1, <2>2, <2>3, <2>4, <2>5, <2>6, <2>7, <2>8, <2>9, <2>10, <2>11
         DEF Step, Pass
<1>8. ASSUME NEW p \in Procs, Fails(p), pc[p] \in Running
      PROVE  failed' \in SUBSET [proc : Procs, at : Running, source : Sources]
  <2>1. src[p] \in Sources
      OBVIOUS
  <2>2. [proc |-> p, at |-> pc[p], source |-> src[p]]
            \in [proc : Procs, at : Running, source : Sources]
      BY <1>8, <2>1
  <2> QED
      BY <1>8, <2>2 DEF Fails
<1>5. ASSUME NEW p \in Procs, Raise(p) PROVE TypeOK'
  <2>1. LocalType'
      BY Zenon, <1>5, LeaveType DEF Raise
  <2>2. failed' \in SUBSET [proc : Procs, at : Running, source : Sources]
      BY <1>5, <1>8 DEF Raise
  <2> QED
      BY Zenon, <1>5, <2>1, <2>2 DEF Raise
<1>6. ASSUME NEW p \in Procs, Die(p) PROVE TypeOK'
  <2>1. LocalType'
      BY Zenon, <1>6, EndType DEF Die
  <2>2. failed' \in SUBSET [proc : Procs, at : Running, source : Sources]
      BY <1>6, <1>8 DEF Die
  <2> QED
      BY Zenon, <1>6, <2>1, <2>2 DEF Die
<1>7. CASE UNCHANGED vars
    BY <1>7 DEF vars
<1> QED
    BY Zenon, <1>1, <1>2, <1>3, <1>4, <1>5, <1>6, <1>7 DEF Next, Quiescent

\* Every variable keeps its type, whatever jobs and requests do (TypeOK).
THEOREM TypeCorrect == Spec => []TypeOK
BY InitType, NextType, PTL DEF Spec

-----------------------------------------------------------------------------
(* No fax is lost.  KeptBelow(s, b): the faxes a bound b hides are saved.  *)
(* It has to hold of every copy of last_scanned_id a process has read, and *)
(* PassInv says what a pass has saved of the messages it left behind.      *)

FaxAt(s, m) == m \in 1 .. Len(inbox[s]) /\ inbox[s][m] = "fax"

KeptBelow(s, b) ==
    /\ b <= FirstScanned \/ b <= Len(inbox[s])
    /\ \A m \in Nat : FaxAt(s, m) /\ FirstScanned <= m /\ m < b => Saved(s, m)

FlaggedKept(s) ==
    \A m \in flagged[s] : m \in 1 .. Len(inbox[s]) /\ Saved(s, m)

PassInv(p, s) ==
    /\ todo[p] \subseteq 1 .. Len(inbox[s])
    /\ last[p] <= Len(inbox[s])
    /\ \A m \in Nat :
          /\ FaxAt(s, m)
          /\ copy[p][s].last_scanned_id <= m
          /\ m \notin todo[p]
          /\ m <= last[p] \/ \E n \in todo[p] : m < n
          => Saved(s, m)
    /\ pc[p] \in {"scan", "finish"} => \A n \in todo[p] : n > last[p]
    /\ pc[p] = "flag" => /\ \A n \in todo[p] : n >= last[p]
                         /\ last[p] \in todo[p]
                         /\ Saved(s, last[p])

FaxInv ==
    /\ \A s \in Sources : KeptBelow(s, last_scanned_id[s]) /\ FlaggedKept(s)
    /\ \A p \in Procs : pc[p] \in Running =>
          \A s \in Sources : KeptBelow(s, copy[p][s].last_scanned_id)
    /\ \A p \in Procs : pc[p] \in {"scan", "flag", "finish"} => PassInv(p, src[p])

LEMMA SavedStays ==
    ASSUME NEW s, NEW m, faxes \subseteq faxes', Saved(s, m)
    PROVE  Saved(s, m)'
BY DEF Saved

\* Most steps of a process leave the inbox and the bounds alone and change at
\* most its own pass.
LEMMA QuietStep ==
    ASSUME TypeOK, FaxInv, NEW p \in Procs,
           faxes \subseteq faxes',
           UNCHANGED <<last_scanned_id, inbox>>,
           \A o \in Procs \ {p} : /\ pc'[o] = pc[o] /\ src'[o] = src[o]
                                  /\ todo'[o] = todo[o] /\ last'[o] = last[o]
                                  /\ copy'[o] = copy[o],
           pc[p] \in Running, pc'[p] \in Running => copy'[p] = copy[p],
           \A s \in Sources : FlaggedKept(s)',
           pc'[p] \in {"scan", "flag", "finish"} => PassInv(p, src[p])' /\ src'[p] = src[p]
    PROVE  FaxInv'
<1>1. \A s, m : Saved(s, m) => Saved(s, m)'
    BY SavedStays
<1>2. ASSUME NEW s \in Sources PROVE KeptBelow(s, last_scanned_id[s])'
    BY <1>1 DEF FaxInv, KeptBelow, FaxAt
<1>3. ASSUME NEW o \in Procs, NEW s \in Sources, pc'[o] \in Running
      PROVE  KeptBelow(s, copy[o][s].last_scanned_id)'
  <2>1. pc[o] \in Running /\ copy'[o] = copy[o]
      BY <1>3
  <2>2. KeptBelow(s, copy[o][s].last_scanned_id)
      BY <2>1 DEF FaxInv
  <2> QED
      BY <1>1, <2>1, <2>2 DEF KeptBelow, FaxAt
<1>4. ASSUME NEW o \in Procs, pc'[o] \in {"scan", "flag", "finish"}
      PROVE  PassInv(o, src[o])'
  <2>1. CASE o # p
    <3>1. PassInv(o, src[o])
        BY <1>4, <2>1 DEF FaxInv
    <3> QED
        BY <1>1, <2>1, <3>1 DEF PassInv, FaxAt
  <2>2. CASE o = p
      BY <1>4, <2>2
  <2> QED
      BY <2>1, <2>2
<1> QED
    BY <1>2, <1>3, <1>4 DEF FaxInv

LEMMA StepFax ==
    ASSUME TypeOK, FaxInv, NEW p \in Procs, Step(p) \/ Raise(p) \/ Die(p)
    PROVE  FaxInv'
<1> USE DEF table, mail, local
<1>1. ASSUME UNCHANGED <<inbox, faxes, flagged>> PROVE \A s \in Sources : FlaggedKept(s)'
    BY <1>1 DEF FaxInv, FlaggedKept, Saved
<1>17. /\ todo[p] \subseteq Nat /\ last[p] \in Nat /\ Len(inbox[src[p]]) \in Nat
      /\ copy[p][src[p]].last_scanned_id \in Nat
    BY DEF TypeOK
<1>18. ASSUME UNCHANGED faxes PROVE \A s, m : Saved(s, m)' <=> Saved(s, m)
    BY <1>18 DEF Saved
<1>2. ASSUME pc[p] \in {"scan", "flag", "finish"} PROVE PassInv(p, src[p])
    BY <1>2 DEF FaxInv
<1>3. ASSUME UNCHANGED <<last_scanned_id, inbox, faxes, flagged>>,
             pc[p] \in Running, pc'[p] \in Running => copy'[p] = copy[p],
             pc'[p] \notin {"scan", "flag", "finish"},
             \A o \in Procs \ {p} : /\ pc'[o] = pc[o] /\ src'[o] = src[o]
                                    /\ todo'[o] = todo[o] /\ last'[o] = last[o]
                                    /\ copy'[o] = copy[o]
      PROVE  FaxInv'
    BY <1>1, <1>3, QuietStep
<1>19. ASSUME End(p, "done") \/ End(p, "dead") \/ Leave(p)
      PROVE  /\ pc'[p] \in {"next", "done", "dead"}
             /\ pc'[p] \in Running => copy'[p] = copy[p]
             /\ \A o \in Procs \ {p} : /\ pc'[o] = pc[o] /\ src'[o] = src[o]
                                    /\ todo'[o] = todo[o] /\ last'[o] = last[o]
                                    /\ copy'[o] = copy[o]
    BY SMTT(90), <1>19 DEF Leave, End, TypeOK, Running, Inside
<1>4. CASE Seize(p)       BY <1>3, <1>4 DEF Seize, TypeOK, Running, Inside
<1>5. CASE Skip(p)        BY <1>3, <1>5 DEF Skip, TypeOK, Running
<1>6. CASE PerformDone(p) BY <1>3, <1>6, <1>19 DEF PerformDone, Running
<1>7. CASE Unlock(p)      BY <1>3, <1>7, <1>19 DEF Unlock, Running, Inside
<1>8. CASE Raise(p)       BY <1>3, <1>8, <1>19 DEF Raise, Running, Inside
<1>9. CASE Die(p)         BY <1>3, <1>9, <1>19 DEF Die
<1>10. CASE Connect(p)
  <2> DEFINE found == (1 .. Len(inbox[src[p]])) \ flagged[src[p]]
  <2>1. CASE pc' = [pc EXCEPT ![p] = "unlock"] /\ UNCHANGED <<todo, last>>
      BY Zenon, <1>3, <1>10, <2>1 DEF Connect, TypeOK, Running, Inside
  <2>2. CASE /\ todo' = [todo EXCEPT ![p] = found]
             /\ last' = [last EXCEPT ![p] = 0]
             /\ pc'   = [pc EXCEPT ![p] = "scan"]
    <3>1. /\ UNCHANGED <<last_scanned_id, inbox, faxes, flagged, copy, src>>
          /\ pc[p] = "connect" /\ pc'[p] = "scan"
          /\ todo'[p] = found /\ last'[p] = 0
          /\ \A o \in Procs \ {p} : /\ pc'[o] = pc[o] /\ src'[o] = src[o]
                                    /\ todo'[o] = todo[o] /\ last'[o] = last[o]
        BY <1>10, <2>2 DEF Connect, TypeOK
    <3>2. FlaggedKept(src[p])
        BY DEF FaxInv, TypeOK
    <3>3. PassInv(p, src[p])'
        BY <1>17, <1>18, <3>1, <3>2 DEF PassInv, FlaggedKept, FaxAt
    <3> QED
        BY <1>1, <3>1, <3>3, QuietStep DEF Running, Inside
  <2> QED
      BY <1>10, <2>1, <2>2 DEF Connect
<1>11. CASE ScanSkips(p)
  <2>1. PICK m \in todo[p] : /\ IsNext(p, m)
                             /\ m < copy[p][src[p]].last_scanned_id
                             /\ todo' = [todo EXCEPT ![p] = @ \ {m}]
      BY Zenon, <1>11 DEF ScanSkips
  <2>2. /\ UNCHANGED <<last_scanned_id, inbox, faxes, flagged, copy, src, pc, last>>
        /\ pc[p] = "scan" /\ todo'[p] = todo[p] \ {m}
        /\ \A o \in Procs \ {p} : todo'[o] = todo[o]
      BY <1>11, <2>1 DEF ScanSkips, TypeOK
  <2>3. PassInv(p, src[p])'
    <3>1. /\ PassInv(p, src[p]) /\ m \in Nat /\ m <= Len(inbox[src[p]])
          /\ \A n \in todo[p] : m <= n
        BY SMTT(60), <1>17, <1>2, <2>1, <2>2 DEF PassInv, IsNext
    <3>2. ASSUME NEW k \in Nat, FaxAt(src[p], k), copy[p][src[p]].last_scanned_id <= k,
                 k \notin todo'[p], k <= last[p] \/ \E n \in todo'[p] : k < n
          PROVE  Saved(src[p], k)
      <4>1. k # m
          BY SMTT(60), <1>17, <2>1, <3>1, <3>2
      <4>2. k \notin todo[p] /\ (k <= last[p] \/ \E n \in todo[p] : k < n)
          BY ZenonT(30), <1>17, <2>1, <2>2, <3>1, <3>2, <4>1
      <4> QED
          BY <3>1, <3>2, <4>2 DEF PassInv
    <3>3. todo'[p] \subseteq 1 .. Len(inbox[src[p]]) /\ \A n \in todo'[p] : n > last[p]
        BY <1>17, <2>2, <3>1 DEF PassInv
    <3> QED
        BY <1>17, <1>18, <2>2, <3>1, <3>2, <3>3 DEF PassInv, FaxAt
  <2> QED
      BY <1>1, <2>2, <2>3, QuietStep DEF Running, Inside
<1>12. CASE ScanOther(p)
  <2>1. PICK m \in todo[p] : /\ IsNext(p, m)
                             /\ inbox[src[p]][m] = "other"
                             /\ todo' = [todo EXCEPT ![p] = @ \ {m}]
                             /\ last' = [last EXCEPT ![p] = m]
      BY Zenon, <1>12 DEF ScanOther
  <2>2. /\ UNCHANGED <<last_scanned_id, inbox, faxes, flagged, copy, src, pc>>
        /\ pc[p] = "scan" /\ todo'[p] = todo[p] \ {m} /\ last'[p] = m
        /\ \A o \in Procs \ {p} : todo'[o] = todo[o] /\ last'[o] = last[o]
      BY <1>12, <2>1 DEF ScanOther, TypeOK
  <2>3. PassInv(p, src[p])'
    <3>1. /\ PassInv(p, src[p]) /\ m \in Nat /\ m <= Len(inbox[src[p]])
          /\ \A n \in todo[p] : m <= n
        BY <1>17, <1>2, <2>1, <2>2 DEF PassInv, IsNext
    <3>2. ASSUME NEW k \in Nat, FaxAt(src[p], k), copy[p][src[p]].last_scanned_id <= k,
                 k \notin todo'[p], k <= m \/ \E n \in todo'[p] : k < n
          PROVE  Saved(src[p], k)
      <4>1. k # m
          BY <2>1, <3>2 DEF FaxAt
      <4>2. k \notin todo[p] /\ (k <= last[p] \/ \E n \in todo[p] : k < n)
          BY <1>17, <2>1, <2>2, <3>1, <3>2, <4>1
      <4> QED
          BY <3>1, <3>2, <4>2 DEF PassInv
    <3>3. todo'[p] \subseteq 1 .. Len(inbox[src[p]]) /\ \A n \in todo'[p] : n > m
        BY <1>17, <2>2, <3>1 DEF PassInv
    <3> QED
        BY <1>17, <1>18, <2>2, <3>1, <3>2, <3>3 DEF PassInv, FaxAt
  <2> QED
      BY <1>1, <2>2, <2>3, QuietStep DEF Running, Inside
<1>13. CASE ScanFax(p)
  <2>1. PICK m \in todo[p] : /\ IsNext(p, m)
                             /\ faxes' = faxes \cup {[source |-> src[p], message |-> m, by |-> p]}
                             /\ last' = [last EXCEPT ![p] = m]
      BY Zenon, <1>13 DEF ScanFax
  <2>2. /\ UNCHANGED <<last_scanned_id, inbox, flagged, copy, src, todo>>
        /\ pc[p] = "scan" /\ pc'[p] = "flag" /\ last'[p] = m
        /\ \A o \in Procs \ {p} : pc'[o] = pc[o] /\ last'[o] = last[o]
      BY <1>13, <2>1 DEF ScanFax, TypeOK
  <2>3. Saved(src[p], m)' /\ faxes \subseteq faxes'
      BY <2>1, <2>2 DEF Saved
  <2>4. \A s, n : Saved(s, n) => Saved(s, n)'
      BY <2>3, SavedStays
  <2>5. PassInv(p, src[p])'
      BY <1>2, <2>1, <2>2, <2>3, <2>4 DEF PassInv, FaxAt, IsNext, TypeOK
  <2>6. \A s \in Sources : FlaggedKept(s)'
      BY <2>2, <2>4 DEF FaxInv, FlaggedKept
  <2> QED
      BY Zenon, <2>2, <2>3, <2>5, <2>6, QuietStep DEF Running, Inside
<1>14. CASE Flag(p)
  <2>1. /\ UNCHANGED <<last_scanned_id, inbox, faxes, copy, src, last>>
        /\ pc[p] = "flag" /\ pc'[p] \in {"scan", "finish"}
        /\ todo'[p] = todo[p] \ {last[p]}
        /\ flagged' = [flagged EXCEPT ![src[p]] = @ \cup {last[p]}]
        /\ \A o \in Procs \ {p} : pc'[o] = pc[o] /\ todo'[o] = todo[o]
      BY Zenon, <1>14 DEF Flag, TypeOK
  <2>2. PassInv(p, src[p])'
      BY SMTT(90), <1>17, <1>18, <1>2, <2>1 DEF PassInv, FaxAt
  <2>3. \A s \in Sources : FlaggedKept(s)'
    <3>1. /\ Saved(src[p], last[p]) /\ last[p] \in 1 .. Len(inbox[src[p]])
          /\ src[p] \in Sources
        BY <1>2, <2>1 DEF PassInv, TypeOK
    <3>2. \A s, m : Saved(s, m)' <=> Saved(s, m)
        BY <2>1 DEF Saved
    <3>3. ASSUME NEW s \in Sources, NEW m \in flagged'[s]
          PROVE  m \in flagged[s] \/ (s = src[p] /\ m = last[p])
        BY <2>1, <3>3 DEF TypeOK
    <3>4. \A s \in Sources : \A m \in flagged[s] : m \in 1 .. Len(inbox[s]) /\ Saved(s, m)
        BY Zenon DEF FaxInv, FlaggedKept
    <3> QED
        BY Zenon, <2>1, <3>1, <3>2, <3>3, <3>4 DEF FlaggedKept
  <2> QED
      BY <2>1, <2>2, <2>3, QuietStep DEF Running, Inside
<1>15. CASE ScanDone(p)
  <2>1. /\ UNCHANGED <<last_scanned_id, inbox, faxes, flagged, copy, src, todo, last>>
        /\ pc[p] = "scan" /\ pc'[p] = "finish"
        /\ \A o \in Procs \ {p} : pc'[o] = pc[o]
      BY Zenon, <1>15 DEF ScanDone, TypeOK
  <2>2. PassInv(p, src[p])'
      BY Zenon, <1>2, <2>1 DEF PassInv, FaxAt, Saved
  <2> QED
      BY <1>1, <2>1, <2>2, QuietStep DEF Running, Inside
<1>16. CASE Finish(p)
  <2> DEFINE s == src[p]
             b == copy[p][s].last_scanned_id
  <2>1. /\ UNCHANGED <<inbox, faxes, flagged, copy, src, todo, last>>
        /\ pc[p] = "finish" /\ pc'[p] = "unlock"
        /\ \A o \in Procs \ {p} : pc'[o] = pc[o]
        /\ last_scanned_id' = [last_scanned_id EXCEPT ![s] = IF last[p] > b THEN last[p] ELSE @]
      BY <1>16 DEF Finish, TypeOK
  <2>2. /\ s \in Sources /\ b \in Nat /\ last[p] \in Nat /\ todo[p] \subseteq Nat
        /\ last_scanned_id \in [Sources -> Nat]
      BY DEF TypeOK
  <2>3. KeptBelow(s, b)
      BY Zenon, <2>1, <2>2 DEF FaxInv, Running, Inside
  <2>4. KeptBelow(s, last[p])
      BY SMTT(90), <1>2, <2>1, <2>2, <2>3 DEF KeptBelow, PassInv, FaxAt
  <2>5. \A t \in Sources : KeptBelow(t, last_scanned_id[t])'
      BY Zenon, <2>1, <2>2, <2>4 DEF FaxInv, KeptBelow, FaxAt, Saved
  <2>6. \A o \in Procs : pc'[o] \in Running =>
            \A t \in Sources : KeptBelow(t, copy[o][t].last_scanned_id)'
    <3>1. ASSUME NEW o \in Procs, pc'[o] \in Running PROVE pc[o] \in Running
        BY <2>1, <3>1 DEF Running, Inside
    <3> QED
        BY <2>1, <3>1 DEF FaxInv, KeptBelow, FaxAt, Saved
  <2>7. \A o \in Procs : pc'[o] \in {"scan", "flag", "finish"} => PassInv(o, src[o])'
    <3>1. ASSUME NEW o \in Procs, pc'[o] \in {"scan", "flag", "finish"}
          PROVE  PassInv(o, src[o])'
      <4>1. pc'[o] = pc[o] /\ PassInv(o, src[o])
          BY ZenonT(30), <2>1, <3>1 DEF FaxInv
      <4>2. \A t, m : Saved(t, m)' <=> Saved(t, m)
          BY <1>18, <2>1
      <4> QED
          BY Zenon, <2>1, <4>1, <4>2 DEF PassInv, FaxAt
    <3> QED
        BY Zenon, <3>1
  <2> QED
      BY <1>1, <2>1, <2>5, <2>6, <2>7 DEF FaxInv
<1> QED
    BY <1>4, <1>5, <1>6, <1>7, <1>8, <1>9, <1>10, <1>11, <1>12, <1>13, <1>14, <1>15, <1>16
       DEF Step, Pass

LEMMA DeliverFax ==
    ASSUME TypeOK, FaxInv, NEW s \in Sources, Deliver(s)
    PROVE  FaxInv'
<1>1. UNCHANGED <<last_scanned_id, flagged, faxes, pc, src, copy, todo, last>>
    BY DEF Deliver, table, local
<1>2. \A t, m : Saved(t, m)' <=> Saved(t, m)
    BY <1>1 DEF Saved
<1>3. \A t \in Sources : /\ Len(inbox[t]) \in Nat /\ Len(inbox'[t]) \in Nat
                         /\ Len(inbox[t]) <= Len(inbox'[t])
                         /\ \A m \in 1 .. Len(inbox[t]) : inbox'[t][m] = inbox[t][m]
  <2>1. PICK kind \in Kinds : inbox' = [inbox EXCEPT ![s] = Append(@, kind)]
      BY ZenonT(60) DEF Deliver
  <2> QED
      BY <2>1 DEF TypeOK
<1>4. ASSUME NEW t \in Sources, NEW b \in Nat, KeptBelow(t, b)
      PROVE  /\ b <= FirstScanned \/ b <= Len(inbox'[t])
             /\ \A m \in Nat : /\ m \in 1 .. Len(inbox'[t]) /\ inbox'[t][m] = "fax"
                               /\ FirstScanned <= m /\ m < b
                               => Saved(t, m)
  <2>1. /\ Len(inbox[t]) \in Nat /\ Len(inbox'[t]) \in Nat
        /\ Len(inbox[t]) <= Len(inbox'[t]) /\ FirstScanned \in Nat
        /\ \A m \in 1 .. Len(inbox[t]) : inbox'[t][m] = inbox[t][m]
      BY <1>3, FirstScannedAssumption
  <2>2. b <= FirstScanned \/ b <= Len(inbox[t])
      BY <1>4 DEF KeptBelow
  <2>3. ASSUME NEW m \in Nat, m \in 1 .. Len(inbox'[t]), inbox'[t][m] = "fax",
               FirstScanned <= m, m < b
        PROVE  Saved(t, m)
    <3>1. m \in 1 .. Len(inbox[t]) BY <2>1, <2>2, <2>3
    <3>2. FaxAt(t, m) BY <2>1, <2>3, <3>1 DEF FaxAt
    <3> QED BY <1>4, <2>3, <3>2 DEF KeptBelow
  <2>4. b <= FirstScanned \/ b <= Len(inbox'[t]) BY <2>1, <2>2
  <2>5. \A m \in Nat : /\ m \in 1 .. Len(inbox'[t]) /\ inbox'[t][m] = "fax"
                       /\ FirstScanned <= m /\ m < b
                       => Saved(t, m)
      BY <2>3
  <2> QED BY SMTT(90), <2>4, <2>5
<1>5. ASSUME NEW t \in Sources PROVE KeptBelow(t, last_scanned_id[t])' /\ FlaggedKept(t)'
  <2>1. last_scanned_id[t] \in Nat /\ KeptBelow(t, last_scanned_id[t]) /\ FlaggedKept(t)
      BY DEF TypeOK, FaxInv
  <2> QED
      BY SMTT(90), <1>1, <1>2, <1>3, <1>4, <2>1 DEF KeptBelow, FlaggedKept, FaxAt
<1>6. ASSUME NEW p \in Procs, NEW t \in Sources, pc'[p] \in Running
      PROVE  KeptBelow(t, copy[p][t].last_scanned_id)'
  <2>1. copy[p][t].last_scanned_id \in Nat /\ KeptBelow(t, copy[p][t].last_scanned_id)
      BY <1>1, <1>6 DEF TypeOK, FaxInv
  <2> QED
      BY Zenon, <1>1, <1>2, <1>4, <2>1 DEF KeptBelow, FaxAt
<1>7. ASSUME NEW p \in Procs, pc'[p] \in {"scan", "flag", "finish"}
      PROVE  PassInv(p, src[p])'
  <2>1. PassInv(p, src[p])
      BY <1>1, <1>7 DEF FaxInv
  <2>2. src[p] \in Sources /\ todo[p] \subseteq Nat /\ last[p] \in Nat
      BY Zenon DEF TypeOK
  <2>3. todo[p] \subseteq 1 .. Len(inbox'[src[p]]) /\ last[p] <= Len(inbox'[src[p]])
      BY SMTT(90), <1>3, <2>1, <2>2 DEF PassInv
  <2>4. ASSUME NEW m \in Nat, m \in 1 .. Len(inbox'[src[p]]), inbox'[src[p]][m] = "fax",
               m <= last[p] \/ \E n \in todo[p] : m < n
        PROVE  FaxAt(src[p], m)
      BY SMTT(90), <1>3, <2>1, <2>2, <2>4 DEF PassInv, FaxAt
  <2> QED
      BY Zenon, <1>1, <1>2, <2>1, <2>3, <2>4 DEF PassInv, FaxAt
<1> QED
    BY <1>5, <1>6, <1>7 DEF FaxInv

LEMMA LoadFax ==
    ASSUME TypeOK, FaxInv, NEW p \in Procs, perform(p) \/ retrieve(p)
    PROVE  FaxInv'
<1>1. /\ UNCHANGED <<last_scanned_id, inbox, flagged, faxes, todo, last>>
      /\ pc'[p] \in {"next", "connect"}
      /\ \A s \in Sources : copy'[p][s].last_scanned_id = last_scanned_id[s]
      /\ \A o \in Procs \ {p} : pc'[o] = pc[o] /\ src'[o] = src[o] /\ copy'[o] = copy[o]
    BY SMTT(90) DEF perform, retrieve, Load, TypeOK, table, mail
<1>2. \A s, m : Saved(s, m)' <=> Saved(s, m)
    BY Zenon, <1>1 DEF Saved
<1>3. ASSUME NEW s \in Sources PROVE KeptBelow(s, last_scanned_id[s])' /\ FlaggedKept(s)'
    BY <1>1, <1>2 DEF FaxInv, KeptBelow, FlaggedKept, FaxAt
<1>4. ASSUME NEW o \in Procs, NEW s \in Sources, pc'[o] \in Running
      PROVE  KeptBelow(s, copy[o][s].last_scanned_id)'
  <2>1. CASE o = p
      BY Zenon, <1>1, <1>3, <2>1 DEF KeptBelow
  <2>2. CASE o # p
    <3>1. KeptBelow(s, copy[o][s].last_scanned_id)
        BY Zenon, <1>1, <1>4, <2>2 DEF FaxInv
    <3> QED
        BY SMTT(90), <1>1, <1>2, <2>2, <3>1 DEF KeptBelow, FaxAt
  <2> QED
      BY Zenon, <2>1, <2>2
<1>5. ASSUME NEW o \in Procs, pc'[o] \in {"scan", "flag", "finish"}
      PROVE  PassInv(o, src[o])'
  <2>1. o # p /\ PassInv(o, src[o])
      BY Zenon, <1>1, <1>5 DEF FaxInv
  <2>2. /\ pc'[o] = pc[o] /\ src'[o] = src[o] /\ copy'[o] = copy[o]
        /\ UNCHANGED <<inbox, todo, last>>
      BY <1>1, <2>1
  <2>3. \A m : FaxAt(src[o], m)' <=> FaxAt(src[o], m)
      BY <2>2 DEF FaxAt
  <2> QED
      BY Zenon, <1>2, <2>1, <2>2, <2>3 DEF PassInv
<1> QED
    BY <1>3, <1>4, <1>5 DEF FaxInv

LEMMA NextFax == TypeOK /\ FaxInv /\ [Next]_vars => FaxInv'
<1> SUFFICES ASSUME TypeOK, FaxInv, [Next]_vars PROVE FaxInv'
    BY SMTT(90)
<1>1. CASE UNCHANGED vars
    BY ZenonT(60), <1>1 DEF vars, table, mail, local, FaxInv, KeptBelow, FlaggedKept, PassInv, FaxAt, Saved
<1> QED
    BY <1>1, DeliverFax, LoadFax, StepFax DEF Next, Quiescent, Procs

\* A fax message that no later pass will look at was saved, for any number of
\* overlapping, failing or dying passes over any inbox (retrieve!, perform).
THEOREM NoFaxLost == Spec => []NothingLost
<1>1. Init => FaxInv
    BY FirstScannedAssumption DEF Init, FaxInv, KeptBelow, FlaggedKept, FaxAt, Running, Inside
<1>2. TypeOK /\ FaxInv => NothingLost
    BY DEF TypeOK, FaxInv, NothingLost, KeptBelow, FlaggedKept, FaxAt
<1> QED
    BY <1>1, <1>2, NextFax, TypeCorrect, PTL DEF Spec

-----------------------------------------------------------------------------
(* Fetching implements the mailbox.  ScanFax keeps, Flag and Finish settle, *)
(* Deliver is an arrival, and no other step shows.                          *)

Hidden(s, m) == m \in flagged[s] \/ (FirstScanned <= m /\ m < last_scanned_id[s])

LEMMA SettledMembers ==
    \A x : x \in Settled <=>
        \E s \in Sources : \E m \in 1 .. Len(inbox[s]) : x = <<s, m>> /\ Hidden(s, m)
BY DEF Settled, Hidden

LEMMA KeptMembers ==
    ASSUME TypeOK, NEW s, NEW m
    PROVE  <<s, m>> \in Kept <=> Saved(s, m)
<1>1. ASSUME <<s, m>> \in Kept PROVE Saved(s, m)
  <2>1. PICK f \in faxes : <<s, m>> = <<f.source, f.message>>
      BY <1>1 DEF Kept
  <2>2. f.by \in Procs /\ f = [source |-> s, message |-> m, by |-> f.by]
      BY <2>1 DEF TypeOK
  <2> QED
      BY <2>2 DEF Saved
<1>2. ASSUME Saved(s, m) PROVE <<s, m>> \in Kept
  <2>1. PICK p \in Procs : [source |-> s, message |-> m, by |-> p] \in faxes
      BY <1>2 DEF Saved
  <2> DEFINE f == [source |-> s, message |-> m, by |-> p]
  <2>2. f.source = s /\ f.message = m
      OBVIOUS
  <2> QED
      BY <2>1, <2>2 DEF Kept
<1> QED
    BY <1>1, <1>2

LEMMA StaysSettled ==
    ASSUME UNCHANGED <<inbox, flagged, last_scanned_id>>
    PROVE  Settled' = Settled
<1>1. \A t \in Sources : {m \in 1 .. Len(inbox'[t]) : Hidden(t, m)'}
                             = {m \in 1 .. Len(inbox[t]) : Hidden(t, m)}
    BY DEF Hidden
<1>2. Settled = UNION {{t} \X {m \in 1 .. Len(inbox[t]) : Hidden(t, m)} : t \in Sources}
    BY DEF Settled, Hidden
<1>3. Settled' = UNION {{t} \X {m \in 1 .. Len(inbox'[t]) : Hidden(t, m)'} : t \in Sources}
    BY DEF Settled, Hidden
<1> QED
    BY <1>1, <1>2, <1>3

LEMMA StepSettles ==
    ASSUME TypeOK, FaxInv', TypeOK', UNCHANGED <<inbox, faxes>>
    PROVE  Mailbox!Settle
<1>1. Kept' = Kept
    BY DEF Kept
<1>2. ASSUME NEW x \in Settled'
      PROVE  x \in Mailbox!Messages /\ (Mailbox!IsFax(x) => x \in Kept)
  <2>1. PICK s \in Sources : \E m \in 1 .. Len(inbox'[s]) : x = <<s, m>> /\ Hidden(s, m)'
      BY <1>2 DEF Settled, Hidden
  <2>2. PICK m \in 1 .. Len(inbox[s]) : x = <<s, m>> /\ Hidden(s, m)'
      BY <2>1
  <2>3. m \in Nat
      BY DEF TypeOK
  <2>4. x \in Mailbox!Messages
      BY <2>2, <2>3 DEF Mailbox!Messages
  <2>5. ASSUME inbox[s][m] = "fax" PROVE Saved(s, m)
    <3>1. Saved(s, m)'
        BY <2>2, <2>3, <2>5 DEF FaxInv, KeptBelow, FlaggedKept, FaxAt, Hidden
    <3> QED
        BY <3>1 DEF Saved
  <2> QED
      BY <2>2, <2>4, <2>5, KeptMembers DEF Mailbox!IsFax
<1> QED
    BY <1>1, <1>2 DEF Mailbox!Settle

LEMMA ArrivalShows ==
    ASSUME TypeOK, FaxInv, NEW s \in Sources, Deliver(s)
    PROVE  Mailbox!Arrive
<1>1. PICK kind \in Kinds : inbox' = [inbox EXCEPT ![s] = Append(@, kind)]
    BY ZenonT(60) DEF Deliver
<1>2. UNCHANGED <<last_scanned_id, flagged, faxes>>
    BY DEF Deliver, table
<1>3. ASSUME NEW t \in Sources
      PROVE  {m \in 1 .. Len(inbox'[t]) : Hidden(t, m)'}
                 = {m \in 1 .. Len(inbox[t]) : Hidden(t, m)}
  <2>1. /\ Len(inbox[t]) \in Nat /\ last_scanned_id[t] \in Nat
        /\ FirstScanned \in Nat
      BY FirstScannedAssumption DEF TypeOK
  <2>2. Len(inbox'[t]) \in {Len(inbox[t]), Len(inbox[t]) + 1}
      BY <1>1 DEF TypeOK
  <2>3. /\ last_scanned_id[t] <= FirstScanned \/ last_scanned_id[t] <= Len(inbox[t])
        /\ \A m \in flagged[t] : m \in 1 .. Len(inbox[t])
      BY SMTT(90) DEF FaxInv, KeptBelow, FlaggedKept
  <2> QED
      BY SMTT(90), <1>2, <2>1, <2>2, <2>3 DEF Hidden
<1>4. Settled' = Settled
  <2>1. Settled = UNION {{t} \X {m \in 1 .. Len(inbox[t]) : Hidden(t, m)} : t \in Sources}
      BY DEF Settled, Hidden
  <2>2. Settled' = UNION {{t} \X {m \in 1 .. Len(inbox'[t]) : Hidden(t, m)'} : t \in Sources}
      BY DEF Settled, Hidden
  <2> QED
      BY <1>3, <2>1, <2>2
<1> QED
    BY Zenon, <1>1, <1>2, <1>4 DEF Mailbox!Arrive, Kinds, Kept

LEMMA ScanFaxKeeps ==
    ASSUME TypeOK, FaxInv, NEW p \in Procs, ScanFax(p)
    PROVE  Mailbox!Keep
<1>1. PICK m \in todo[p] :
          /\ inbox[src[p]][m] = "fax"
          /\ faxes' = faxes \cup {[source |-> src[p], message |-> m, by |-> p]}
    BY DEF ScanFax
<1>2. src[p] \in Sources /\ m \in 1 .. Len(inbox[src[p]])
    BY Zenon DEF ScanFax, TypeOK, FaxInv, PassInv
<1>3. Kept' = Kept \cup {<<src[p], m>>}
  <2> DEFINE f == [source |-> src[p], message |-> m, by |-> p]
  <2>1. <<f.source, f.message>> = <<src[p], m>>
      OBVIOUS
  <2> HIDE DEF f
  <2>2. {<<g.source, g.message>> : g \in faxes \cup {f}}
            = {<<g.source, g.message>> : g \in faxes} \cup {<<f.source, f.message>>}
      BY Zenon
  <2>3. Kept' = {<<g.source, g.message>> : g \in faxes \cup {f}}
      BY <1>1 DEF Kept, f
  <2> QED
      BY <2>1, <2>2, <2>3 DEF Kept
<1>4. UNCHANGED inbox /\ Settled' = Settled
    BY StaysSettled DEF ScanFax, table, mail
<1> QED
    BY <1>1, <1>2, <1>3, <1>4 DEF Mailbox!Keep, Mailbox!IsFax

LEMMA NextShows ==
    TypeOK /\ TypeOK' /\ FaxInv /\ FaxInv' /\ [Next]_vars
        => [Mailbox!MailboxNext]_Mailbox!mailboxVars
<1> SUFFICES ASSUME TypeOK, TypeOK', FaxInv, FaxInv', [Next]_vars
             PROVE  Mailbox!MailboxNext \/ UNCHANGED Mailbox!mailboxVars
    OBVIOUS
<1>1. ASSUME UNCHANGED <<inbox, faxes>> PROVE Mailbox!MailboxNext
    BY <1>1, StepSettles DEF Mailbox!MailboxNext
<1>2. ASSUME NEW s \in Sources, Deliver(s) PROVE Mailbox!MailboxNext
    BY <1>2, ArrivalShows DEF Mailbox!MailboxNext
<1>3. ASSUME NEW p \in Procs, ScanFax(p) PROVE Mailbox!MailboxNext
    BY Zenon, <1>3, ScanFaxKeeps DEF Mailbox!MailboxNext
<1>4. ASSUME NEW p \in Procs, ~ScanFax(p),
             perform(p) \/ retrieve(p) \/ Step(p) \/ Raise(p) \/ Die(p)
      PROVE  UNCHANGED <<inbox, faxes>>
    BY Zenon, <1>4 DEF perform, retrieve, Step, Pass, Raise, Die, Seize, Skip, PerformDone,
                Connect, ScanSkips, ScanOther, Flag, ScanDone, Finish, Unlock, mail
<1>5. ASSUME UNCHANGED vars PROVE UNCHANGED <<inbox, faxes>>
    BY <1>5 DEF vars, mail
<1> QED
    BY <1>1, <1>2, <1>3, <1>4, <1>5 DEF Next, Quiescent, Procs

\* Whatever jobs and requests run, fail or die, fetching is the mailbox of
\* FaxMailbox: it keeps faxes one by one and settles none it has not kept
\* (ImplementsMailbox; perform, retrieve!, retrieve).
THEOREM FetchImplementsMailbox == Spec => ImplementsMailbox
<1>1. Init => Mailbox!MailboxInit
  <2> SUFFICES ASSUME Init PROVE Mailbox!MailboxInit
      OBVIOUS
  <2>1. inbox = [s \in Sources |-> <<>>] /\ faxes = {}
      BY DEF Init
  <2>2. Kept = {}
      BY <2>1 DEF Kept
  <2>3. \A s \in Sources : 1 .. Len(inbox[s]) = {}
      BY <2>1
  <2>4. Settled = {}
      BY <2>3, SettledMembers
  <2> QED
      BY <2>1, <2>2, <2>4 DEF Mailbox!MailboxInit
<1>2. Init => FaxInv
    BY FirstScannedAssumption DEF Init, FaxInv, KeptBelow, FlaggedKept, FaxAt, Running, Inside
<1> QED
    BY <1>1, <1>2, NextFax, NextShows, TypeCorrect, PTL
       DEF Spec, ImplementsMailbox, Mailbox!MailboxSpec

-----------------------------------------------------------------------------
(* Saved once.  On a source where no two passes overlapped and none stopped *)
(* between saving and flagging, the only fax whose message is not flagged   *)
(* is the one the only pass is about to flag.                               *)

Single(s) == \A p, q \in Procs : InPass(p, s) /\ InPass(q, s) => p = q

AtFlag(p, s, m) == pc[p] = "flag" /\ src[p] = s /\ last[p] = m

Accounted(s) ==
    \A f \in faxes : f.source = s => f.message \in flagged[s] \/ AtFlag(f.by, s, f.message)

Fresh(s) == \A p \in Procs : InPass(p, s) => \A m \in todo[p] : m \notin flagged[s]

OneSaver(s) ==
    \A f, g \in faxes : f.source = s /\ g.source = s /\ f.message = g.message => f.by = g.by

Once(s) == Single(s) /\ Accounted(s) /\ Fresh(s) /\ OneSaver(s)
OnceInv == \A s \in Sources : s \notin overlap \cup Broken => Once(s)

LEMMA BrokenStays == ASSUME failed \subseteq failed' PROVE Broken \subseteq Broken'
BY Zenon DEF Broken

\* A step that saves and flags nothing and starts no pass over s.
LEMMA QuietOnce ==
    ASSUME TypeOK, NEW s \in Sources, Once(s), UNCHANGED <<faxes, flagged>>,
           \A o \in Procs : InPass(o, s)' => InPass(o, s) /\ todo'[o] \subseteq todo[o],
           \A o \in Procs, m \in Nat : AtFlag(o, s, m) => AtFlag(o, s, m)'
    PROVE  Once(s)'
<1>1. Single(s)' BY Zenon DEF Once, Single
<1>2. Accounted(s)'
  <2>1. \A f \in faxes : f.by \in Procs /\ f.message \in Nat BY DEF TypeOK
  <2> QED BY ZenonT(30), <2>1 DEF Once, Accounted
<1>3. Fresh(s)' BY Zenon DEF Once, Fresh
<1>4. OneSaver(s)' BY Zenon DEF Once, OneSaver
<1> QED BY Zenon, <1>1, <1>2, <1>3, <1>4 DEF Once

\* A process that leaves its pass, other than at "flag" on s.
LEMMA LeaveOnce ==
    ASSUME TypeOK, NEW p \in Procs, Leave(p) \/ End(p, "done") \/ End(p, "dead"),
           NEW s \in Sources, Once(s), UNCHANGED <<faxes, flagged>>,
           ~(pc[p] = "flag" /\ src[p] = s)
    PROVE  Once(s)'
<1>1. pc'[p] \in {"next", "done", "dead"} BY DEF Leave, End, TypeOK
<1>2. \A o \in Procs \ {p} : /\ pc'[o] = pc[o] /\ src'[o] = src[o]
                             /\ todo'[o] = todo[o] /\ last'[o] = last[o]
  BY ZenonT(30) DEF Leave, End, TypeOK
<1>3. \A o \in Procs : InPass(o, s)' => InPass(o, s) /\ todo'[o] \subseteq todo[o]
  BY Zenon, <1>1, <1>2 DEF InPass
<1>4. \A o \in Procs, m \in Nat : AtFlag(o, s, m) => AtFlag(o, s, m)'
  BY <1>2 DEF AtFlag
<1> QED BY <1>3, <1>4, QuietOnce

LEMMA ConnectOnce ==
    ASSUME TypeOK, NEW p \in Procs, Connect(p), NEW s \in Sources,
           s \notin overlap', Once(s)
    PROVE  Once(s)'
<1> DEFINE found == (1 .. Len(inbox[src[p]])) \ flagged[src[p]]
<1>1. UNCHANGED <<faxes, flagged, src>> /\ pc[p] = "connect" BY DEF Connect, mail
<1>2. \A o \in Procs \ {p} : pc'[o] = pc[o] /\ todo'[o] = todo[o] /\ last'[o] = last[o]
  BY DEF Connect, TypeOK
<1>3. \A o \in Procs, m \in Nat : AtFlag(o, s, m) => AtFlag(o, s, m)'
  BY Zenon, <1>1, <1>2 DEF AtFlag
<1>4. CASE pc'[p] = "unlock" \/ src[p] # s
  <2>1. \A o \in Procs : InPass(o, s)' => InPass(o, s) /\ todo'[o] \subseteq todo[o]
    BY Zenon, <1>1, <1>2, <1>4 DEF InPass
  <2> QED BY Zenon, <1>1, <1>3, <2>1, QuietOnce
<1>5. CASE pc'[p] # "unlock" /\ src[p] = s
  <2>1. todo'[p] = found /\ \A o \in Procs : ~InPass(o, s)
    BY ZenonT(30), <1>5 DEF Connect, TypeOK
  <2>2. Single(s)' BY <1>1, <1>2, <2>1 DEF Single, InPass
  <2>3. Accounted(s)'
    <3>1. \A f \in faxes : f.by \in Procs /\ f.message \in Nat BY Zenon DEF TypeOK
    <3> QED BY <1>1, <1>3, <3>1 DEF Once, Accounted
  <2>4. Fresh(s)' BY <1>1, <1>2, <1>5, <2>1 DEF Fresh, InPass
  <2>5. OneSaver(s)' BY <1>1 DEF Once, OneSaver
  <2> QED BY <2>2, <2>3, <2>4, <2>5 DEF Once
<1> QED BY <1>4, <1>5

LEMMA ScanFaxOnce ==
    ASSUME TypeOK, NEW p \in Procs, ScanFax(p), NEW s \in Sources, Once(s)
    PROVE  Once(s)'
<1>1. PICK m \in todo[p] :
         /\ faxes' = faxes \cup {[source |-> src[p], message |-> m, by |-> p]}
         /\ last' = [last EXCEPT ![p] = m]
  BY Zenon DEF ScanFax
<1>2. /\ UNCHANGED <<flagged, src, todo>> /\ pc[p] = "scan" /\ pc'[p] = "flag"
      /\ last'[p] = m
      /\ \A o \in Procs \ {p} : pc'[o] = pc[o] /\ last'[o] = last[o]
  BY <1>1 DEF ScanFax, mail, TypeOK
<1>3. \A o \in Procs, n \in Nat : AtFlag(o, s, n) => AtFlag(o, s, n)'
  BY <1>2 DEF AtFlag
<1>4. \A o \in Procs : InPass(o, s)' <=> InPass(o, s) BY <1>2 DEF InPass
<1>5. \A f \in faxes : f.by \in Procs /\ f.message \in Nat BY Zenon DEF TypeOK
<1> DEFINE new == [source |-> src[p], message |-> m, by |-> p]
<1>6. new.source = src[p] /\ new.message = m /\ new.by = p OBVIOUS
<1>7. faxes' = faxes \cup {new} BY <1>1
<1> HIDE DEF new
<1>8. Single(s)' BY Zenon, <1>4 DEF Once, Single
<1>9. Accounted(s)' BY ZenonT(30), <1>2, <1>3, <1>5, <1>6, <1>7 DEF Once, Accounted, AtFlag
<1>10. Fresh(s)' BY Zenon, <1>2, <1>4 DEF Once, Fresh
<1>11. ASSUME NEW f \in faxes, f.source = s, src[p] = s PROVE f.message # m
  <2>1. InPass(p, s) BY Zenon, <1>2, <1>11 DEF InPass
  <2>2. m \notin flagged[s] BY Zenon, <2>1 DEF Once, Fresh
  <2>3. ~AtFlag(f.by, s, f.message)
    BY Zenon, <1>2, <1>5, <2>1 DEF Once, Single, AtFlag, InPass
  <2> QED BY Zenon, <1>11, <2>2, <2>3 DEF Once, Accounted
<1>12. OneSaver(s)' BY <1>6, <1>7, <1>11 DEF Once, OneSaver
<1> QED BY Zenon, <1>8, <1>9, <1>10, <1>12 DEF Once

LEMMA FlagOnce ==
    ASSUME TypeOK, NEW p \in Procs, Flag(p), NEW s \in Sources, Once(s)
    PROVE  Once(s)'
<1>1. /\ UNCHANGED <<faxes, src, last>> /\ pc[p] = "flag" /\ pc'[p] \in {"scan", "finish"}
      /\ todo'[p] = todo[p] \ {last[p]}
      /\ flagged' = [flagged EXCEPT ![src[p]] = @ \cup {last[p]}]
      /\ \A o \in Procs \ {p} : pc'[o] = pc[o] /\ todo'[o] = todo[o]
  BY Zenon DEF Flag, TypeOK
<1>2. flagged'[s] = IF src[p] = s THEN flagged[s] \cup {last[p]} ELSE flagged[s]
  BY Zenon, <1>1 DEF TypeOK
<1>3. \A o \in Procs : InPass(o, s)' => InPass(o, s) BY <1>1 DEF InPass
<1>4. Single(s)' BY <1>3 DEF Once, Single
<1>5. Accounted(s)'
  <2>1. ASSUME NEW f \in faxes, f.source = s
        PROVE  f.message \in flagged'[s] \/ AtFlag(f.by, s, f.message)'
    <3>1. f.by \in Procs BY DEF TypeOK
    <3>2. CASE f.message \in flagged[s] BY ZenonT(30), <1>2, <3>2
    <3>3. CASE AtFlag(f.by, s, f.message) BY <1>1, <1>2, <3>1, <3>3 DEF AtFlag
    <3> QED BY <2>1, <3>2, <3>3 DEF Once, Accounted
  <2> QED BY ZenonT(30), <1>1, <2>1 DEF Accounted
<1>6. Fresh(s)'
  <2>1. ASSUME NEW o \in Procs, InPass(o, s)', NEW m \in todo'[o] PROVE m \notin flagged'[s]
    <3>1. InPass(o, s) BY <1>3, <2>1
    <3>2. m \in todo[o] /\ m \notin flagged[s]
      <4>1. m \in todo[o] BY Zenon, <1>1, <2>1
      <4>2. Fresh(s) BY DEF Once
      <4> QED BY Zenon, <3>1, <4>1, <4>2 DEF Fresh
    <3>3. CASE src[p] = s
      <4>1. InPass(p, s) BY Zenon, <1>1, <3>3 DEF InPass
      <4>2. o = p BY Zenon, <3>1, <4>1 DEF Once, Single
      <4>3. m # last[p] BY <1>1, <2>1, <4>2
      <4>4. flagged'[s] = flagged[s] \cup {last[p]} BY <1>2, <3>3
      <4> QED BY Zenon, <3>2, <4>3, <4>4
    <3>4. CASE src[p] # s BY Zenon, <1>2, <3>2, <3>4
    <3> QED BY <3>3, <3>4
  <2> QED BY <2>1 DEF Fresh
<1>7. OneSaver(s)' BY ZenonT(30), <1>1 DEF Once, OneSaver
<1> QED BY Zenon, <1>4, <1>5, <1>6, <1>7 DEF Once

\* A failure at "flag" breaks the source.
LEMMA FailOnce ==
    ASSUME TypeOK, NEW p \in Procs, Raise(p) \/ Die(p), NEW s \in Sources,
           s \notin Broken', Once(s)
    PROVE  Once(s)'
<1>1. Fails(p) /\ (Leave(p) \/ End(p, "dead")) /\ UNCHANGED <<faxes, flagged>>
  BY DEF Raise, Die, mail
<1>2. ~(pc[p] = "flag" /\ src[p] = s)
  <2> SUFFICES ASSUME pc[p] = "flag", src[p] = s PROVE s \in Broken' BY Zenon
  <2> DEFINE f == [proc |-> p, at |-> pc[p], source |-> src[p]]
  <2>1. f \in failed' /\ f.at = "flag" /\ f.source = s BY <1>1 DEF Fails
  <2> HIDE DEF f
  <2> QED BY <2>1 DEF Broken
<1> QED BY <1>1, <1>2, LeaveOnce

LEMMA StepOnce ==
    ASSUME TypeOK, NEW p \in Procs, Step(p), NEW s \in Sources, s \notin overlap', Once(s)
    PROVE  Once(s)'
<1>1. CASE PerformDone(p)
  BY ZenonT(30), <1>1, LeaveOnce DEF PerformDone, mail
<1>2. CASE Unlock(p)
  BY <1>2, LeaveOnce DEF Unlock, mail
<1>3. CASE Connect(p) BY <1>3, ConnectOnce
<1>4. CASE ScanFax(p) BY <1>4, ScanFaxOnce
<1>5. CASE Flag(p) BY Zenon, <1>5, FlagOnce
<1>6. CASE Seize(p) \/ Skip(p) \/ ScanSkips(p) \/ ScanOther(p) \/ ScanDone(p) \/ Finish(p)
  <2>1. UNCHANGED <<faxes, flagged>> /\ pc[p] # "flag" /\ pc'[p] # "flag"
    BY Zenon, <1>6 DEF Seize, Skip, ScanSkips, ScanOther, ScanDone, Finish, mail, TypeOK
  <2>2. \A o \in Procs \ {p} : /\ pc'[o] = pc[o] /\ src'[o] = src[o]
                               /\ todo'[o] = todo[o] /\ last'[o] = last[o]
    BY ZenonT(30), <1>6 DEF Seize, Skip, ScanSkips, ScanOther, ScanDone, Finish, local, TypeOK
  <2>3. InPass(p, s)' => InPass(p, s) /\ todo'[p] \subseteq todo[p]
    BY <1>6 DEF Seize, Skip, ScanSkips, ScanOther, ScanDone, Finish, local, TypeOK, InPass
  <2>4. \A o \in Procs : InPass(o, s)' => InPass(o, s) /\ todo'[o] \subseteq todo[o]
    BY Zenon, <2>2, <2>3 DEF InPass
  <2>5. \A o \in Procs, m \in Nat : AtFlag(o, s, m) => AtFlag(o, s, m)'
    BY Zenon, <2>1, <2>2 DEF AtFlag
  <2> QED BY Zenon, <2>1, <2>4, <2>5, QuietOnce
<1> QED BY <1>1, <1>2, <1>3, <1>4, <1>5, <1>6 DEF Step, Pass

\* Deliveries, and processes that start.
LEMMA OtherOnce ==
    ASSUME TypeOK, NEW s \in Sources, Once(s),
           \/ \E t \in Sources : Deliver(t)
           \/ \E p \in Procs : perform(p) \/ retrieve(p)
           \/ UNCHANGED vars
    PROVE  Once(s)'
<1>1. UNCHANGED <<faxes, flagged, todo, last>>
  BY DEF Deliver, perform, retrieve, vars, mail, local
<1>2. \A o \in Procs : \/ pc'[o] = pc[o] /\ src'[o] = src[o]
                       \/ pc[o] = "idle" /\ pc'[o] \in {"next", "connect"}
  <2>1. ASSUME NEW p \in Procs, perform(p)
        PROVE  \A o \in Procs : \/ pc'[o] = pc[o] /\ src'[o] = src[o]
                                \/ pc[o] = "idle" /\ pc'[o] \in {"next", "connect"}
    BY <2>1 DEF perform, TypeOK
  <2>2. ASSUME NEW p \in Procs, retrieve(p)
        PROVE  \A o \in Procs : \/ pc'[o] = pc[o] /\ src'[o] = src[o]
                                \/ pc[o] = "idle" /\ pc'[o] \in {"next", "connect"}
    BY <2>2 DEF retrieve, TypeOK
  <2> QED BY <2>1, <2>2 DEF Deliver, vars, local
<1>3. \A o \in Procs : InPass(o, s)' => InPass(o, s) /\ todo'[o] \subseteq todo[o]
  BY <1>1, <1>2 DEF InPass
<1>4. \A o \in Procs, m \in Nat : AtFlag(o, s, m) => AtFlag(o, s, m)'
  BY <1>1, <1>2 DEF AtFlag
<1> QED BY Zenon, <1>1, <1>3, <1>4, QuietOnce

LEMMA NextOnce == TypeOK /\ OnceInv /\ [Next]_vars => OnceInv'
<1> SUFFICES ASSUME TypeOK, OnceInv, [Next]_vars, NEW s \in Sources,
                    s \notin overlap', s \notin Broken'
             PROVE  Once(s)'
  BY DEF OnceInv
<1>1. failed \subseteq failed' /\ overlap \subseteq overlap'
  <2>1. ASSUME NEW p \in Procs, Step(p) \/ Raise(p) \/ Die(p)
        PROVE  failed \subseteq failed' /\ overlap \subseteq overlap'
    BY Zenon, <2>1 DEF Step, Pass, Seize, Skip, PerformDone, Connect, ScanSkips, ScanOther,
           ScanFax, Flag, ScanDone, Finish, Unlock, Raise, Die, Fails
  <2> QED BY Zenon, <2>1 DEF Next, vars, Deliver, perform, retrieve, Quiescent
<1>2. Once(s) BY <1>1, BrokenStays DEF OnceInv
<1>3. CASE \E p \in Procs : Step(p) BY <1>2, <1>3, StepOnce
<1>4. CASE \E p \in Procs : Raise(p) \/ Die(p) BY <1>2, <1>4, FailOnce
<1>5. CASE \/ \E t \in Sources : Deliver(t)
           \/ \E p \in Procs : perform(p) \/ retrieve(p)
           \/ UNCHANGED vars
  BY <1>2, <1>5, OtherOnce
<1> QED BY <1>3, <1>4, <1>5 DEF Next, Quiescent, Procs

\* A message is saved twice only where two passes overlapped or one stopped
\* between saving the fax and flagging the message (FaxSource#retrieve!).
THEOREM FaxesSavedOnce == Spec => []SavedOnce
<1>1. Init => OnceInv
  BY DEF Init, OnceInv, Once, Single, Accounted, Fresh, OneSaver, InPass
<1>2. TypeOK /\ OnceInv => SavedOnce
  <2> SUFFICES ASSUME TypeOK, OnceInv, NEW f \in faxes, NEW g \in faxes,
                      f.source = g.source, f.message = g.message,
                      f.source \notin overlap \cup Broken
               PROVE  f.by = g.by
    BY DEF SavedOnce
  <2>1. f.source \in Sources BY DEF TypeOK
  <2>2. OneSaver(f.source) BY Zenon, <2>1 DEF OnceInv, Once
  <2> QED BY <2>2 DEF OneSaver
<1> QED BY <1>1, <1>2, NextOnce, TypeCorrect, PTL DEF Spec

-----------------------------------------------------------------------------
(* Locks and progress.  What a step of one process does to the others and   *)
(* to itself, then the source a job is at, then the measure.                *)

SeizedInv ==
    /\ \A p \in Jobs : pc[p] \in Inside => src[p] \in left[p]
    /\ \A p \in Agents : pc[p] # "next"

\* The others' place and work stay as they are.
OthersStay(p) ==
    \A o \in Procs \ {p} : /\ pc'[o] = pc[o] /\ src'[o] = src[o]
                            /\ left'[o] = left[o] /\ todo'[o] = todo[o]

LEMMA EndEffect ==
    ASSUME TypeOK, NEW p \in Procs, NEW how \in {"done", "dead"}, End(p, how)
    PROVE  /\ pc'[p] = how /\ src'[p] = src[p] /\ left'[p] = {}
           /\ OthersStay(p)
BY DEF TypeOK, End, OthersStay

LEMMA LeaveEffect ==
    ASSUME TypeOK, NEW p \in Procs, Leave(p)
    PROVE  /\ \/ p \in Jobs /\ pc'[p] = "next" /\ left'[p] = left[p] \ {src[p]}
              \/ p \in Agents /\ pc'[p] = "done" /\ left'[p] = {}
           /\ src'[p] = src[p]
           /\ OthersStay(p)
<1>1. CASE p \in Agents /\ End(p, "done")
    BY <1>1, EndEffect
<1>2. CASE /\ p \in Jobs
           /\ left' = [left EXCEPT ![p] = @ \ {src[p]}]
           /\ pc'   = [pc EXCEPT ![p] = "next"]
           /\ todo' = [todo EXCEPT ![p] = {}]
           /\ UNCHANGED <<src, copy>>
    BY Zenon, <1>2 DEF TypeOK, OthersStay
<1> QED
    BY <1>1, <1>2 DEF Leave

\* Where each step of a process takes it.
Moves(p, from, to) == pc[p] = from /\ pc'[p] \in to /\ OthersStay(p)

SamePass(p) == left'[p] = left[p] /\ src'[p] = src[p]

LEMMA SeizeEffect ==
    ASSUME TypeOK, NEW p \in Procs, Seize(p)
    PROVE  /\ Moves(p, "next", {"connect"})
           /\ left'[p] = left[p] /\ src'[p] \in left[p]
BY DEF Seize, TypeOK, Moves, OthersStay

LEMMA SkipEffect ==
    ASSUME TypeOK, NEW p \in Procs, Skip(p)
    PROVE  /\ Moves(p, "next", {"next"})
           /\ Shrinks(left'[p], left[p]) /\ src'[p] = src[p]
BY DEF Skip, TypeOK, Moves, OthersStay, Shrinks

LEMMA ConnectEffect ==
    ASSUME TypeOK, NEW p \in Procs, Connect(p)
    PROVE  Moves(p, "connect", {"scan", "unlock"}) /\ SamePass(p)
BY DEF Connect, TypeOK, Moves, OthersStay, SamePass

LEMMA ScanEffect ==
    ASSUME TypeOK, NEW p \in Procs, ScanSkips(p) \/ ScanOther(p)
    PROVE  Moves(p, "scan", {"scan"}) /\ SamePass(p) /\ Shrinks(todo'[p], todo[p])
<1>1. PICK m \in todo[p] : todo' = [todo EXCEPT ![p] = @ \ {m}]
    BY Zenon DEF ScanSkips, ScanOther
<1>2. pc[p] = "scan" /\ UNCHANGED <<pc, src, left>>
    BY Zenon DEF ScanSkips, ScanOther
<1> QED
    BY Zenon, <1>1, <1>2 DEF TypeOK, Moves, OthersStay, SamePass, Shrinks

LEMMA ScanFaxEffect ==
    ASSUME TypeOK, NEW p \in Procs, ScanFax(p)
    PROVE  Moves(p, "scan", {"flag"}) /\ SamePass(p) /\ todo'[p] = todo[p]
BY Zenon DEF ScanFax, TypeOK, Moves, OthersStay, SamePass

LEMMA FlagEffect ==
    ASSUME TypeOK, FaxInv, NEW p \in Procs, Flag(p)
    PROVE  Moves(p, "flag", {"scan", "finish"}) /\ SamePass(p) /\ Shrinks(todo'[p], todo[p])
<1>1. pc[p] = "flag"
    BY Zenon DEF Flag
<1>2. last[p] \in todo[p]
    BY Zenon, <1>1 DEF FaxInv, PassInv
<1> QED
    BY <1>2 DEF Flag, TypeOK, Moves, OthersStay, SamePass, Shrinks

LEMMA ScanDoneEffect ==
    ASSUME TypeOK, NEW p \in Procs, ScanDone(p)
    PROVE  Moves(p, "scan", {"finish"}) /\ SamePass(p)
BY Zenon DEF ScanDone, TypeOK, Moves, OthersStay, SamePass, local

LEMMA FinishEffect ==
    ASSUME TypeOK, NEW p \in Procs, Finish(p)
    PROVE  Moves(p, "finish", {"unlock"}) /\ SamePass(p)
BY Zenon DEF Finish, TypeOK, Moves, OthersStay, SamePass, local

\* A process that ends, or leaves a source, has not left one behind that was
\* not its own.
LEMMA LeavingEffect ==
    ASSUME TypeOK, SeizedInv, NEW p \in Procs, pc[p] \in Running,
           PerformDone(p) \/ Unlock(p) \/ Raise(p) \/ Die(p)
    PROVE  /\ OthersStay(p) /\ src'[p] = src[p]
           /\ pc'[p] \in {"next", "done", "dead"}
           /\ pc'[p] = "next" => p \in Jobs /\ Shrinks(left'[p], left[p])
           /\ pc'[p] # "next" => left'[p] = {}
<1>1. CASE PerformDone(p)
    BY Zenon, <1>1, EndEffect DEF PerformDone
<1>2. CASE Die(p)
    BY Zenon, <1>2, EndEffect DEF Die
<1>3. CASE Leave(p) /\ pc[p] \in Inside
  <2>1. p \in Jobs => src[p] \in left[p]
      BY Zenon, <1>3 DEF SeizedInv
  <2> QED
      BY Zenon, <1>3, <2>1, LeaveEffect DEF Shrinks
<1> QED
    BY Zenon, <1>1, <1>2, <1>3 DEF Unlock, Raise, Inside

\* Every step of its own brings a process closer to its end and leaves the
\* others where they are.
LEMMA StepCloser ==
    ASSUME TypeOK, FaxInv, SeizedInv, NEW p \in Procs, Step(p) \/ Raise(p) \/ Die(p)
    PROVE  pc[p] \in Running /\ CloserToEnd(p) /\ OthersStay(p)
<1> USE DEF CloserToEnd, Phase, Running, Inside
<1>1. CASE Seize(p)
    BY <1>1, SeizeEffect DEF Moves
<1>2. CASE Skip(p)
    BY <1>2, SkipEffect DEF Moves
<1>3. CASE Connect(p)
    BY <1>3, ConnectEffect DEF Moves, SamePass
<1>4. CASE ScanSkips(p) \/ ScanOther(p)
    BY <1>4, ScanEffect DEF Moves, SamePass
<1>5. CASE ScanFax(p)
    BY <1>5, ScanFaxEffect DEF Moves, SamePass
<1>6. CASE Flag(p)
    BY <1>6, FlagEffect DEF Moves, SamePass
<1>7. CASE ScanDone(p)
    BY <1>7, ScanDoneEffect DEF Moves, SamePass
<1>8. CASE Finish(p)
    BY <1>8, FinishEffect DEF Moves, SamePass
<1>9. CASE PerformDone(p) \/ Unlock(p) \/ Raise(p) \/ Die(p)
  <2>1. pc[p] \in Running
      BY Zenon, <1>9 DEF PerformDone, Unlock, Raise, Die
  <2>2. /\ OthersStay(p)
        /\ pc'[p] \in {"next", "done", "dead"}
        /\ pc'[p] = "next" => Shrinks(left'[p], left[p])
        /\ pc'[p] # "next" => left'[p] = {}
      BY <1>9, <2>1, LeavingEffect
  <2>3. left'[p] = {} => Shrinks(left'[p], left[p]) \/ left'[p] = left[p]
      BY DEF Shrinks
  <2> QED
      BY <2>1, <2>2, <2>3
<1> QED
    BY ZenonT(30), <1>1, <1>2, <1>3, <1>4, <1>5, <1>6, <1>7, <1>8, <1>9 DEF Step, Pass

\* A job is at a source that is still left to it.
LEMMA NextSeized == TypeOK /\ FaxInv /\ SeizedInv /\ [Next]_vars => SeizedInv'
<1> SUFFICES ASSUME TypeOK, FaxInv, SeizedInv, [Next]_vars PROVE SeizedInv'
    OBVIOUS
<1>1. ASSUME UNCHANGED <<pc, src, left>> PROVE SeizedInv'
    BY <1>1 DEF SeizedInv
<1>2. ASSUME NEW p \in Procs, OthersStay(p),
             p \in Jobs /\ pc'[p] \in Inside => src'[p] \in left'[p],
             p \in Agents => pc'[p] # "next"
      PROVE  SeizedInv'
    BY <1>2 DEF SeizedInv, OthersStay, Procs
<1>3. ASSUME NEW p \in Jobs, perform(p) PROVE SeizedInv'
  <2>1. pc'[p] = "next" /\ p \notin Agents /\ OthersStay(p)
      BY <1>3, JobsAssumption DEF perform, TypeOK, OthersStay, Procs
  <2> QED
      BY Zenon, <1>2, <2>1 DEF Procs, Inside
<1>4. ASSUME NEW p \in Agents, retrieve(p) PROVE SeizedInv'
  <2>1. OthersStay(p) /\ p \notin Jobs /\ pc'[p] # "next"
      BY <1>4, JobsAssumption DEF retrieve, TypeOK, OthersStay, Procs
  <2> QED
      BY Zenon, <1>2, <2>1 DEF Procs
<1>5. ASSUME NEW p \in Procs, Step(p) \/ Raise(p) \/ Die(p) PROVE SeizedInv'
  <2>1. CASE Seize(p)
      BY ZenonT(30), <1>2, <2>1, SeizeEffect DEF Moves
  <2>2. CASE Skip(p)
      BY <1>2, <2>2, SkipEffect DEF Moves, Inside, SeizedInv
  <2>3. CASE Pass(p) /\ ~Unlock(p)
    <3>1. SamePass(p) /\ OthersStay(p) /\ pc[p] \in Inside /\ pc'[p] # "next"
        BY Zenon, <2>3, ConnectEffect, ScanEffect, ScanFaxEffect, FlagEffect, ScanDoneEffect,
           FinishEffect DEF Pass, Moves, Inside
    <3>2. p \in Jobs => src[p] \in left[p]
        BY <3>1 DEF SeizedInv
    <3> QED
        BY Zenon, <1>2, <3>1, <3>2 DEF SamePass
  <2>4. CASE PerformDone(p) \/ Unlock(p) \/ Raise(p) \/ Die(p)
    <3>1. pc'[p] \notin Inside /\ OthersStay(p) /\ (pc'[p] = "next" => p \notin Agents)
        BY Zenon, <1>5, <2>4, JobsAssumption, StepCloser, LeavingEffect DEF Inside
    <3> QED
        BY Zenon, <1>2, <3>1
  <2> QED
      BY Zenon, <1>5, <2>1, <2>2, <2>3, <2>4 DEF Step, Pass
<1>6. ASSUME NEW s \in Sources, Deliver(s) PROVE SeizedInv'
    BY <1>1, <1>6 DEF Deliver, local
<1>7. CASE UNCHANGED vars
    BY <1>1, <1>7 DEF vars, local
<1> QED
    BY <1>3, <1>4, <1>5, <1>6, <1>7 DEF Next, Quiescent

LEMMA AlwaysSeized == Spec => [](TypeOK /\ FaxInv /\ SeizedInv)
<1>1. Init => FaxInv /\ SeizedInv
    BY FirstScannedAssumption
       DEF Init, FaxInv, KeptBelow, FlaggedKept, FaxAt, Running, Inside, SeizedInv, Procs
<1> QED
    BY <1>1, InitType, NextType, NextFax, NextSeized, PTL DEF Spec

\* A step that moves a job or a request brings it closer to its end, for any
\* sources and inboxes, wherever passes raise or die (perform, retrieve!).  The
\* three parts of the measure are well-founded where a table has finitely many
\* rows and an inbox finitely many messages.
THEOREM NoCircles == Spec => NoneRunsInCircles
<1> DEFINE Forward == \A p \in Procs : pc[p] \in Running =>
               \/ pc'[p] = pc[p] /\ left'[p] = left[p] /\ todo'[p] = todo[p]
               \/ CloserToEnd(p)
<1>1. TypeOK /\ FaxInv /\ SeizedInv /\ [Next]_vars => [Forward]_vars
  <2> SUFFICES ASSUME TypeOK, FaxInv, SeizedInv, Next, NEW p \in Procs, pc[p] \in Running
               PROVE  \/ pc'[p] = pc[p] /\ left'[p] = left[p] /\ todo'[p] = todo[p]
                      \/ CloserToEnd(p)
      OBVIOUS
  <2>1. ASSUME NEW o \in Procs, Step(o) \/ Raise(o) \/ Die(o)
        PROVE  CloserToEnd(p) \/ (pc'[p] = pc[p] /\ left'[p] = left[p] /\ todo'[p] = todo[p])
    <3>1. CloserToEnd(o) /\ OthersStay(o)
        BY ZenonT(30), <2>1, StepCloser
    <3> QED
        BY <3>1 DEF OthersStay
  <2>2. ASSUME NEW o \in Procs, perform(o) \/ retrieve(o)
        PROVE  pc'[p] = pc[p] /\ left'[p] = left[p] /\ todo'[p] = todo[p]
    <3>1. o # p
        BY <2>2 DEF perform, retrieve, Running, Inside
    <3> QED
        BY <2>2, <3>1 DEF perform, retrieve, TypeOK
  <2>3. ASSUME NEW s \in Sources, Deliver(s)
        PROVE  UNCHANGED <<pc, left, todo>>
      BY <2>3 DEF Deliver, local
  <2>4. Quiescent => UNCHANGED <<pc, left, todo>>
      BY DEF Quiescent, vars, local
  <2> QED
      BY Zenon, <2>1, <2>2, <2>3, <2>4 DEF Next, Procs
<1> QED
    BY <1>1, AlwaysSeized, PTL DEF Spec, NoneRunsInCircles

\* A process that is not at its end has a step to take: retrieve! never meets a
\* message it has no branch for, and the messages left to it have a first one.
HasStep(p) ==
    \/ pc[p] \in {"next", "connect", "flag", "finish", "unlock"}
    \/ pc[p] = "scan" /\ todo[p] = {}
    \/ /\ pc[p] = "scan"
       /\ \E m \in todo[p] :
             /\ IsNext(p, m)
             /\ \/ m < copy[p][src[p]].last_scanned_id
                \/ /\ m >= copy[p][src[p]].last_scanned_id
                   /\ inbox[src[p]][m] \in Kinds

NoneAtALoss == \A p \in Procs : pc[p] \in Running => HasStep(p)

LEMMA FirstLeft ==
    ASSUME NEW S, S \subseteq Nat, S # {}
    PROVE  \E x \in S : \A y \in S : x <= y
<1>1. PICK x \in S : \A y \in S : ~(<<y, x>> \in OpToRel(<, Nat))
    BY Zenon, NatLessThanWellFounded, WFMin
<1>2. ASSUME NEW y \in S, y < x PROVE <<y, x>> \in OpToRel(<, Nat)
  <2>1. <<y, x>> \in Nat \X Nat /\ <<y, x>>[1] < <<y, x>>[2]
      BY <1>2
  <2> QED
      BY <2>1, Zenon DEF OpToRel
<1>3. \A y \in S : ~(y < x)
    BY Zenon, <1>1, <1>2
<1> QED
    BY <1>3

\* No pass is ever at a loss, and each step it takes leads towards its end: with
\* NoCircles, what the liveness of the lock rests on besides fair scheduling.
THEOREM AlwaysAStep == Spec => []NoneAtALoss
<1>1. ASSUME TypeOK, FaxInv, NEW p \in Procs, pc[p] \in Running PROVE HasStep(p)
  <2>1. CASE pc[p] = "scan" /\ todo[p] # {}
    <3>1. /\ todo[p] \subseteq Nat /\ src[p] \in Sources
          /\ copy[p][src[p]].last_scanned_id \in Nat
          /\ inbox[src[p]] \in Seq(Kinds)
        BY ZenonT(30), <1>1 DEF TypeOK
    <3>2. todo[p] \subseteq 1 .. Len(inbox[src[p]])
        BY <1>1, <2>1 DEF FaxInv, PassInv
    <3>3. PICK m \in todo[p] : \A n \in todo[p] : m <= n
        BY <2>1, <3>1, FirstLeft
    <3>4. IsNext(p, m)
        BY <3>3 DEF IsNext
    <3>5. m \in Nat /\ inbox[src[p]][m] \in Kinds
        BY <3>1, <3>2, <3>3
    <3> QED
        BY <2>1, <3>1, <3>4, <3>5 DEF HasStep
  <2>2. CASE pc[p] # "scan" \/ todo[p] = {}
      BY <1>1, <2>2 DEF HasStep, Running, Inside
  <2> QED
      BY Zenon, <2>1, <2>2
<1>2. TypeOK /\ FaxInv => NoneAtALoss
    BY <1>1 DEF NoneAtALoss
<1> QED
    BY <1>2, AlwaysSeized, PTL

LEMMA StuckStays == ASSUME failed \subseteq failed' PROVE Stuck \subseteq Stuck'
BY DEF Stuck

LEMMA HolderStays ==
    ASSUME LockHasHolder, failed \subseteq failed', NEW p \in Procs, OthersStay(p),
           \A s \in Sources : lock_flag'[s] = 1 /\ lock_flag[s] # 1 =>
               p \in Jobs /\ pc'[p] \in Inside /\ src'[p] = s,
           p \in Jobs /\ pc[p] \in Inside =>
               \/ pc'[p] \in Inside /\ src'[p] = src[p]
               \/ src[p] \in Stuck'
               \/ src[p] \in Sources /\ lock_flag'[src[p]] = 0
    PROVE  LockHasHolder'
<1> SUFFICES ASSUME NEW s \in Sources, lock_flag'[s] = 1, s \notin Stuck'
             PROVE  \E o \in Jobs : pc'[o] \in Inside /\ src'[o] = s
    BY Zenon DEF LockHasHolder
<1>1. CASE lock_flag[s] # 1
    BY Zenon, <1>1
<1>2. CASE lock_flag[s] = 1
  <2>1. PICK o \in Jobs : pc[o] \in Inside /\ src[o] = s
      BY <1>2, StuckStays DEF LockHasHolder
  <2>2. CASE o = p
      BY <2>1, <2>2
  <2>3. CASE o # p
      BY <2>1, <2>3 DEF OthersStay, Procs
  <2> QED
      BY Zenon, <2>2, <2>3
<1> QED
    BY <1>1, <1>2

LEMMA NextHolder ==
    TypeOK /\ FaxInv /\ SeizedInv /\ LockHasHolder /\ [Next]_vars => LockHasHolder'
<1> SUFFICES ASSUME TypeOK, FaxInv, SeizedInv, LockHasHolder, [Next]_vars
             PROVE  LockHasHolder'
    OBVIOUS
<1> USE DEF table, local
<1>1. ASSUME UNCHANGED <<lock_flag, pc, src, failed>> PROVE LockHasHolder'
    BY Zenon, <1>1 DEF LockHasHolder, Stuck
<1>2. ASSUME NEW p \in Procs, perform(p) \/ retrieve(p) PROVE LockHasHolder'
  <2>1. /\ UNCHANGED <<lock_flag, failed>> /\ pc[p] = "idle"
        /\ OthersStay(p)
      BY Zenon, <1>2 DEF perform, retrieve, TypeOK, OthersStay
  <2> QED
      BY Zenon, <2>1, HolderStays DEF Inside
<1>3. ASSUME NEW p \in Procs, Seize(p) PROVE LockHasHolder'
  <2>1. /\ Moves(p, "next", {"connect"}) /\ UNCHANGED failed
        /\ p \in Jobs
      BY Zenon, <1>3, SeizeEffect DEF Seize, Moves, SeizedInv, Procs
  <2>2. \A s \in Sources : lock_flag'[s] = 1 /\ lock_flag[s] # 1 => src'[p] = s
      BY <1>3 DEF Seize, TypeOK
  <2> QED
      BY Zenon, <2>1, <2>2, HolderStays DEF Moves, Inside
<1>4. ASSUME NEW p \in Procs, Skip(p) \/ PerformDone(p) PROVE LockHasHolder'
  <2>1. UNCHANGED <<lock_flag, failed>> /\ pc[p] = "next" /\ OthersStay(p)
      BY Zenon, <1>4, SkipEffect, EndEffect DEF Skip, PerformDone, Moves
  <2> QED
      BY <2>1, HolderStays DEF Inside
<1>5. ASSUME NEW p \in Procs, Pass(p), ~Unlock(p) PROVE LockHasHolder'
  <2>1. SamePass(p) /\ OthersStay(p) /\ pc'[p] \in Inside
      BY Zenon, <1>5, ConnectEffect, ScanEffect, ScanFaxEffect, FlagEffect, ScanDoneEffect,
         FinishEffect DEF Pass, Moves, Inside
  <2>2. UNCHANGED <<lock_flag, failed>>
      BY Zenon, <1>5 DEF Pass, Connect, ScanSkips, ScanOther, ScanFax, Flag, ScanDone, Finish
  <2> QED
      BY Zenon, <2>1, <2>2, HolderStays DEF SamePass
<1>6. ASSUME NEW p \in Procs, Unlock(p) PROVE LockHasHolder'
  <2>1. OthersStay(p) /\ UNCHANGED failed
      BY Zenon, <1>6, LeaveEffect DEF Unlock
  <2>2. /\ src[p] \in Sources
        /\ p \in Jobs => lock_flag'[src[p]] = 0
        /\ \A s \in Sources : lock_flag'[s] = 1 => lock_flag[s] = 1
      BY Zenon, <1>6 DEF Unlock, TypeOK
  <2> QED
      BY Zenon, <2>1, <2>2, HolderStays
<1>7. ASSUME NEW p \in Procs, Raise(p) \/ Die(p) PROVE LockHasHolder'
  <2>1. OthersStay(p) /\ UNCHANGED lock_flag
      BY ZenonT(30), <1>7, LeaveEffect, EndEffect DEF Raise, Die
  <2>2. failed' = failed \cup {[proc |-> p, at |-> pc[p], source |-> src[p]]}
      BY <1>7 DEF Raise, Die, Fails
  <2>3. ASSUME p \in Jobs, pc[p] \in Inside PROVE src[p] \in Stuck'
    <3> DEFINE f == [proc |-> p, at |-> pc[p], source |-> src[p]]
    <3>1. f \in {g \in failed' : g.proc \in Jobs /\ g.at \in Inside}
        BY ZenonT(30), <2>2, <2>3
    <3>2. f.source = src[p]
        OBVIOUS
    <3> HIDE DEF f
    <3> QED
        BY Zenon, <3>1, <3>2 DEF Stuck
  <2> QED
      BY Zenon, <2>1, <2>2, <2>3, HolderStays
<1>8. ASSUME NEW s \in Sources, Deliver(s) PROVE LockHasHolder'
    BY <1>1, <1>8 DEF Deliver
<1>9. CASE UNCHANGED vars
    BY <1>1, <1>9 DEF vars
<1> QED
    BY <1>2, <1>3, <1>4, <1>5, <1>6, <1>7, <1>8, <1>9 DEF Next, Step, Quiescent, Procs

\* A lock is held by a job at work on the source, or was left by one that
\* stopped there, for any number of jobs and sources (FaxFetchWorker#perform).
THEOREM LocksAreHeld == Spec => []LockHasHolder
<1>1. Init => LockHasHolder
    BY DEF Init, LockHasHolder
<1> QED
    BY <1>1, AlwaysSeized, NextHolder, PTL DEF Spec
=============================================================================
