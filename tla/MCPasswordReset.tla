--------------------------- MODULE MCPasswordReset ---------------------------
EXTENDS PasswordReset, TLC

RequestSymmetry == Permutations(Requests)
=============================================================================
