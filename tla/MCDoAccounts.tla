---------------------------- MODULE MCDoAccounts ----------------------------
EXTENDS DoAccounts, TLC

OneEach == [a \in Accounts |-> 1]

Symm == Permutations(Requests)
=============================================================================
