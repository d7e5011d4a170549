-------------------------------- MODULE Wallet --------------------------------
(***************************************************************************)
(* WalletService of billing-service: the balance of each user and the      *)
(* wallet_transactions that explain it.                                    *)
(*                                                                         *)
(* addBalance and deductBalance read the wallet, compute the new balance   *)
(* in TypeScript and write it back, inside one Serializable transaction.   *)
(* Calls run concurrently (webhooks, the internal API, promo claims).  A   *)
(* transaction reads when it begins and writes when it commits; PostgreSQL *)
(* lets it commit only if nobody wrote the row it read in between.         *)
(***************************************************************************)
EXTENDS Integers, Sequences

CONSTANTS
    Users,
    Calls,      \* the calls of addBalance and deductBalance
    Amounts,    \* the amounts they ask for; 0 is what a free order asks
    MaxInt,     \* the largest balance the INTEGER column holds
    NoWallet    \* the user has no row in user_wallets

Wallets == [balance : Int, version : Nat]

ASSUME WalletAssumption ==
    /\ Amounts \subseteq Int
    /\ MaxInt \in Nat
    /\ NoWallet \notin Wallets

Requests == [user : Users, type : {"CREDIT", "DEBIT"}, amount : Amounts]

Entries == [call : Calls, type : {"CREDIT", "DEBIT"}, amount : Int,
            balanceBefore : Int, balanceAfter : Int]

VARIABLES
    wallet,     \* wallet[u]: the row of u in user_wallets, or NoWallet
    ledger,     \* ledger[u]: the wallet_transactions of u, oldest first
    request,    \* request[c]: the arguments of call c
    pc,         \* pc[c]: how far call c has come
    seen        \* seen[c]: the wallet row the transaction of c has read

vars == <<wallet, ledger, request, pc, seen>>

TypeOK ==
    /\ wallet \in [Users -> Wallets \cup {NoWallet}]
    /\ ledger \in [Users -> Seq(Entries)]
    /\ request \in [Calls -> Requests]
    /\ pc \in [Calls -> {"idle", "read", "done", "rejected", "aborted"}]
    /\ seen \in [Calls -> Wallets \cup {NoWallet}]

Init ==
    /\ wallet = [u \in Users |-> NoWallet]
    /\ ledger = [u \in Users |-> <<>>]
    /\ request \in [Calls -> Requests]
    /\ pc = [c \in Calls |-> "idle"]
    /\ seen = [c \in Calls |-> NoWallet]

-----------------------------------------------------------------------------
BalanceOf(w) == IF w = NoWallet THEN 0 ELSE w.balance

VersionOf(w) == IF w = NoWallet THEN 0 ELSE w.version

(* The stored amount: negative for a debit. *)
SignedAmount(c) ==
    IF request[c].type = "CREDIT" THEN request[c].amount ELSE -request[c].amount

BalanceAfter(c) == BalanceOf(seen[c]) + SignedAmount(c)

(* `Amount must be positive`, before any transaction. *)
RejectAmount(c) ==
    /\ pc[c] = "idle"
    /\ request[c].amount <= 0
    /\ pc' = [pc EXCEPT ![c] = "rejected"]
    /\ UNCHANGED <<wallet, ledger, request, seen>>

(* The transaction begins and reads the wallet (findUnique). *)
Read(c) ==
    /\ pc[c] = "idle"
    /\ request[c].amount > 0
    /\ seen' = [seen EXCEPT ![c] = wallet[request[c].user]]
    /\ pc' = [pc EXCEPT ![c] = "read"]
    /\ UNCHANGED <<wallet, ledger, request>>

(* A mutant of CannotPay: the balance is not checked. *)
CannotPayIfMissing(c) == request[c].type = "DEBIT" /\ seen[c] = NoWallet

(* A debit of a missing wallet, or of less than there is, throws. *)
CannotPay(c) ==
    /\ request[c].type = "DEBIT"
    /\ seen[c] = NoWallet \/ BalanceOf(seen[c]) < request[c].amount

RejectDebit(c) ==
    /\ pc[c] = "read"
    /\ CannotPay(c)
    /\ pc' = [pc EXCEPT ![c] = "rejected"]
    /\ UNCHANGED <<wallet, ledger, request, seen>>

(* A mutant of Serializable: the database's default isolation level. *)
ReadCommitted(c) == TRUE

(* Serializable isolation: the row read is still the row stored. *)
Serializable(c) == wallet[request[c].user] = seen[c]

NewEntry(c) ==
    [call |-> c, type |-> request[c].type, amount |-> SignedAmount(c),
     balanceBefore |-> BalanceOf(seen[c]), balanceAfter |-> BalanceAfter(c)]

(* A credit creates a missing wallet first; then balance, version, entry. *)
Commit(c) ==
    LET u == request[c].user IN
    /\ pc[c] = "read"
    /\ ~CannotPay(c)
    /\ Serializable(c)
    /\ BalanceAfter(c) <= MaxInt
    /\ wallet' = [wallet EXCEPT
                    ![u] = [balance |-> BalanceAfter(c),
                            version |-> VersionOf(seen[c]) + 1]]
    /\ ledger' = [ledger EXCEPT ![u] = Append(@, NewEntry(c))]
    /\ pc' = [pc EXCEPT ![c] = "done"]
    /\ UNCHANGED <<request, seen>>

(* A conflict, the 10 s timeout, an overflow or a lost connection. *)
Abort(c) ==
    /\ pc[c] = "read"
    /\ pc' = [pc EXCEPT ![c] = "aborted"]
    /\ UNCHANGED <<wallet, ledger, request, seen>>

(* getOrCreateWallet, behind every balance query. *)
GetOrCreateWallet(u) ==
    /\ wallet[u] = NoWallet
    /\ wallet' = [wallet EXCEPT ![u] = [balance |-> 0, version |-> 0]]
    /\ UNCHANGED <<ledger, request, pc, seen>>

Terminated ==
    /\ \A c \in Calls : pc[c] \in {"done", "rejected", "aborted"}
    /\ UNCHANGED vars

Next ==
    \/ \E c \in Calls :
          \/ RejectAmount(c) \/ Read(c) \/ RejectDebit(c)
          \/ Commit(c) \/ Abort(c)
    \/ \E u \in Users : GetOrCreateWallet(u)
    \/ Terminated

Spec == Init /\ [][Next]_vars

-----------------------------------------------------------------------------
(* The ledger explains the balance: each entry starts from the balance the *)
(* previous one left, changes it by its amount, and the last one leaves    *)
(* what the wallet holds.  A lost update between two concurrent calls      *)
(* (wallet.service.ts, addBalance and deductBalance) breaks the chain.     *)
LedgerExplainsBalance ==
    \A u \in Users :
        LET l == ledger[u] IN
        /\ \A k \in 1..Len(l) :
              /\ l[k].balanceAfter = l[k].balanceBefore + l[k].amount
              /\ l[k].balanceBefore =
                    IF k = 1 THEN 0 ELSE l[k - 1].balanceAfter
        /\ BalanceOf(wallet[u]) =
              IF l = <<>> THEN 0 ELSE l[Len(l)].balanceAfter

(* No balance is ever negative, or larger than its column, however many    *)
(* debits race: the check in deductBalance is made on the balance that is  *)
(* written.                                                                *)
NoOverdraft == \A u \in Users : BalanceOf(wallet[u]) \in 0..MaxInt

(* The wallet implements the atomic one: racing transactions amount to     *)
(* calls that happen one after the other, each at most once.               *)
Atomic == INSTANCE AtomicWallet WITH
    balance <- [u \in Users |-> BalanceOf(wallet[u])],
    applied <- {c \in Calls : pc[c] = "done"},
    request <- [c \in Calls |-> [user |-> request[c].user,
                                 delta |-> SignedAmount(c)]]

ImplementsAtomicWallet == Atomic!Spec
=============================================================================
