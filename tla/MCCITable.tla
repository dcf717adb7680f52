------------------------------ MODULE MCCITable ------------------------------
EXTENDS CITable
=============================================================================
