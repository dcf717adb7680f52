------------------------------ MODULE Enrolment ------------------------------
(***************************************************************************)
(* What buying a contract promises, without requests, pages or a cookie:   *)
(* people ask for quotes, subscriptions are opened for them one after the  *)
(* other, and a subscription is recorded at most once, with the person it  *)
(* was opened for.  One that has been lost track of is never recorded, and *)
(* only a person with a recorded subscription is welcomed.                 *)
(***************************************************************************)
EXTENDS Naturals, Sequences

VARIABLES
    record,    \* per person, the subscription recorded last, 0: none
    holder,    \* per subscription, the person it was opened for
    pending,   \* subscriptions that may still be recorded
    welcomed   \* persons

enrolmentVars == <<record, holder, pending, welcomed>>

EnrolmentInit ==
    /\ record = <<>> /\ holder = <<>>
    /\ pending = {} /\ welcomed = {}

Ask ==
    /\ record' = Append(record, 0)
    /\ UNCHANGED <<holder, pending, welcomed>>

Subscribe ==
    /\ \E p \in DOMAIN record : holder' = Append(holder, p)
    /\ pending' \in {pending, pending \cup {Len(holder) + 1}}
    /\ UNCHANGED <<record, welcomed>>

Record ==
    /\ \E s \in pending :
           /\ record' = [record EXCEPT ![holder[s]] = s]
           /\ pending' = pending \ {s}
    /\ UNCHANGED <<holder, welcomed>>

LoseTrack ==
    /\ \E s \in pending : pending' = pending \ {s}
    /\ UNCHANGED <<record, holder, welcomed>>

Welcome ==
    /\ \E p \in DOMAIN record :
           record[p] # 0 /\ welcomed' = welcomed \cup {p}
    /\ UNCHANGED <<record, holder, pending>>

EnrolmentNext == Ask \/ Subscribe \/ Record \/ LoseTrack \/ Welcome

EnrolmentSpec == EnrolmentInit /\ [][EnrolmentNext]_enrolmentVars
=============================================================================
