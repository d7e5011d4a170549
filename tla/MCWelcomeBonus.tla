---------------------------- MODULE MCWelcomeBonus ----------------------------
EXTENDS WelcomeBonus, TLC

CONSTANTS limited, unlimited

Uses == [p \in Promos |-> IF p = limited THEN 1 ELSE 0]

Symm == Permutations(Claims) \cup Permutations(Users)
=============================================================================
