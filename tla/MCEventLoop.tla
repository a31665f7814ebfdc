----------------------------- MODULE MCEventLoop -----------------------------
EXTENDS Endpoints, TLC

RequestSymmetry == Permutations(Requests)
=============================================================================
