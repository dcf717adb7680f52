------------------------------ MODULE MCWebOrder ------------------------------
EXTENDS WebOrder, TLC

\* Billing requests are interchangeable.
Symmetry == Permutations(Requests)
=============================================================================
