--------------------------- MODULE MCAccountLockout ---------------------------
EXTENDS AccountLockout, TLC

\* However it is spelled, it is the address e1.
CONSTANT e1
OneAddress == [s \in Spellings |-> e1]
=============================================================================
