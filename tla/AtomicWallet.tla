----------------------------- MODULE AtomicWallet -----------------------------
(***************************************************************************)
(* What the wallet promises its callers: every call takes effect in one    *)
(* step or not at all, at most once, on one user, by the amount it asked   *)
(* for, and never takes a balance below zero.                              *)
(***************************************************************************)
EXTENDS Integers

CONSTANTS Users, Calls

VARIABLES
    balance,   \* balance[u]: the rupiah user u has
    applied,   \* the calls that took effect
    request    \* request[c]: the user and the signed amount of call c

vars == <<balance, applied, request>>

Init ==
    /\ balance = [u \in Users |-> 0]
    /\ applied = {}
    /\ request \in [Calls -> [user : Users, delta : Int]]

Apply(c) ==
    LET u == request[c].user
        after == balance[u] + request[c].delta
    IN /\ c \notin applied
       /\ after >= 0
       /\ balance' = [balance EXCEPT ![u] = after]
       /\ applied' = applied \cup {c}
       /\ UNCHANGED request

Next == \E c \in Calls : Apply(c)

Spec == Init /\ [][Next]_vars
=============================================================================
