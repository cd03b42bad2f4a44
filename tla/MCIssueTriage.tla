---------------------------- MODULE MCIssueTriage ----------------------------
EXTENDS IssueTriage, TLC
=============================================================================
