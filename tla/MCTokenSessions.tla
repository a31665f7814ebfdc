---------------------------- MODULE MCTokenSessions ----------------------------
EXTENDS TokenSessions, TLC

RequestSymmetry == Permutations(Requests)
=============================================================================
