---------------------------- MODULE MCClaimRepair ----------------------------
(* Small instances of ClaimRepair. *)
EXTENDS ClaimRepair, TLC

Symmetry == Permutations(Requests)

\* Where no property is about the invoice's date.
NoDates == {}
Unread  == [d \in NoDates |-> None]

\* The model's parser takes the day for the month: 06/05 is read as 05/06,
\* 06/15 as no date at all.
ThreeDates == {"05/06", "06/05", "06/15"}
Swapped ==
    [d \in ThreeDates |-> CASE d = "05/06" -> "06/05" [] d = "06/05" -> "05/06"
                            [] OTHER -> None]
=============================================================================
