---------------------------- MODULE MCModelStream ----------------------------
EXTENDS ModelStream, TLC
=============================================================================
