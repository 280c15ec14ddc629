--------------------------- MODULE MCOverviewPage ---------------------------
EXTENDS OverviewPage, TLC

Sym == Permutations(Thread)
=============================================================================
