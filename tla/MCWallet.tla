------------------------------- MODULE MCWallet -------------------------------
(* A small instance of Wallet for TLC: three calls on two users, which may  *)
(* all be on one wallet, may overdraw it and may overflow it.               *)
EXTENDS Wallet, TLC

CONSTANTS c1, c2, c3, u1, u2

MCCalls == {c1, c2, c3}
MCUsers == {u1, u2}
Symm == Permutations(MCCalls) \cup Permutations(MCUsers)
=============================================================================
