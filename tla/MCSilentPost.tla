----------------------------- MODULE MCSilentPost -----------------------------
EXTENDS SilentPost
=============================================================================
