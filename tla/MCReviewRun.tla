----------------------------- MODULE MCReviewRun -----------------------------
EXTENDS ReviewRun, TLC
Pages == 1 .. 2
=============================================================================
