---------------------------- MODULE GatewayBooks ----------------------------
(***************************************************************************)
(* What billing promises about money, without requests, answers or saves:  *)
(* the gateway and the office each keep books, no step writes in both, and *)
(* the office's follow the gateway's.  The gateway takes money for a sale  *)
(* once.  The office may write the sale down, once, for what was taken.    *)
(* Only then is money given back on it, and only a subscription with both  *)
(* rows is stopped.  What the office writes as given back is at most what  *)
(* was.                                                                    *)
(***************************************************************************)
EXTENDS Naturals

CONSTANTS
    Sales,   \* what cards are charged for
    Amounts  \* of money

VARIABLES
    took,    \* gateway: what was taken for each sale
    given,   \* gateway: what was given back on it
    plan,    \* gateway: the subscription it opened
    booked,  \* office: what is written down as taken
    back,    \* office: what is written down as given back
    listed,  \* office: the status of the subscription's row
    ended    \* office: whether the subscription is marked as cancelled

gatewayBooks == <<took, given, plan>>
officeBooks  == <<booked, back, listed, ended>>
bookVars     == <<gatewayBooks, officeBooks>>

BooksInit ==
    /\ took   = [s \in Sales |-> 0]
    /\ given  = [s \in Sales |-> 0]
    /\ plan   = [s \in Sales |-> "none"]
    /\ booked = [s \in Sales |-> 0]
    /\ back   = [s \in Sales |-> 0]
    /\ listed = [s \in Sales |-> "none"]
    /\ ended  = [s \in Sales |-> FALSE]

-----------------------------------------------------------------------------
(* At the gateway. *)

Take(s) ==
    /\ took[s] = 0 /\ plan[s] = "none"
    /\ booked[s] = 0 /\ listed[s] = "none"
    /\ \E a \in Amounts \ {0} : took' = [took EXCEPT ![s] = a]
    /\ plan' \in {plan, [plan EXCEPT ![s] = "active"]}
    /\ UNCHANGED <<given, officeBooks>>

Give(s) ==
    /\ booked[s] > 0
    /\ \E a \in Amounts : given' = [given EXCEPT ![s] = @ + a]
    /\ UNCHANGED <<took, plan, officeBooks>>

Stop(s) ==
    /\ plan[s] = "active" /\ booked[s] > 0 /\ listed[s] = "Approved"
    /\ plan' = [plan EXCEPT ![s] = "deleted"]
    /\ UNCHANGED <<took, given, officeBooks>>

-----------------------------------------------------------------------------
(* In the office. *)

List(s) ==
    /\ listed[s] = "none"
    /\ \E status \in IF plan[s] = "active" THEN {"Approved"} ELSE {"Declined", "Error"} :
           listed' = [listed EXCEPT ![s] = status]
    /\ UNCHANGED <<booked, back, ended, gatewayBooks>>

Book(s) ==
    /\ took[s] > 0 /\ booked[s] = 0
    /\ booked' = [booked EXCEPT ![s] = took[s]]
    /\ UNCHANGED <<back, listed, ended, gatewayBooks>>

BookBack(s) ==
    /\ booked[s] > 0
    /\ \E a \in 1 .. given[s] : back' = [back EXCEPT ![s] = a]
    /\ UNCHANGED <<booked, listed, ended, gatewayBooks>>

End(s) ==
    /\ listed[s] # "none"
    /\ ended' = [ended EXCEPT ![s] = TRUE]
    /\ UNCHANGED <<booked, back, listed, gatewayBooks>>

BooksNext ==
    \E s \in Sales :
        \/ Take(s) \/ Give(s) \/ Stop(s)
        \/ List(s) \/ Book(s) \/ BookBack(s) \/ End(s)

BooksSpec == BooksInit /\ [][BooksNext]_bookVars
=============================================================================
