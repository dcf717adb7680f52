---------------------------- MODULE MCNmiBilling ----------------------------
EXTENDS NmiBilling, FiniteSets, TLC

\* Requests are interchangeable.
Symmetry == Permutations(Requests)

\* One sale and the requests about it, in every overlap.  Two sales share no
\* row and no gateway record.  The sale is of 0 or of the least amount billed;
\* refunds are also of more.
OneSale ==
    LET sales == {r \in Requests : req[r].kind \in ChargeKinds}
    IN Cardinality(sales) <= 1 /\ \A r \in sales : req[r].amount <= MinBilling
=============================================================================
