---------------------------- MODULE AtomicDeposit ----------------------------
(***************************************************************************)
(* What deposits promise the customer and the wallet.  A deposit is paid,  *)
(* then claimed by one callback, then credited, each at most once and in   *)
(* this order; a row goes away only before it is paid, and a claim never.  *)
(***************************************************************************)
EXTENDS Integers

CONSTANT DepositIds

VARIABLES
    rows,      \* the deposits that have a row
    paid,      \* those the customer has paid at Tripay
    claimed,   \* those a callback has taken for itself
    credits    \* credits[d]: how often the wallet was credited for d

vars == <<rows, paid, claimed, credits>>

Init ==
    /\ rows = {}
    /\ paid = {}
    /\ claimed = {}
    /\ credits = [d \in DepositIds |-> 0]

Create(d) ==
    /\ d \notin rows
    /\ rows' = rows \cup {d}
    /\ UNCHANGED <<paid, claimed, credits>>

Remove(d) ==
    /\ d \in rows \ (paid \cup claimed)
    /\ rows' = rows \ {d}
    /\ UNCHANGED <<paid, claimed, credits>>

Pay(d) ==
    /\ d \in rows \ paid
    /\ paid' = paid \cup {d}
    /\ UNCHANGED <<rows, claimed, credits>>

Claim(d) ==
    /\ d \in (rows \cap paid) \ claimed
    /\ claimed' = claimed \cup {d}
    /\ UNCHANGED <<rows, paid, credits>>

Credit(d) ==
    /\ d \in claimed
    /\ credits[d] = 0
    /\ credits' = [credits EXCEPT ![d] = 1]
    /\ UNCHANGED <<rows, paid, claimed>>

Next ==
    \E d \in DepositIds : Create(d) \/ Remove(d) \/ Pay(d) \/ Claim(d) \/ Credit(d)

Spec == Init /\ [][Next]_vars
=============================================================================
