-------------------------- MODULE MCAccountLifecycle --------------------------
EXTENDS AccountLifecycle, TLC

RequestSymmetry == Permutations(Requests)
=============================================================================
