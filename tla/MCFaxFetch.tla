----------------------------- MODULE MCFaxFetch -----------------------------
EXTENDS FaxFetch
=============================================================================
