---------------------------- MODULE OrderCreation ----------------------------
(***************************************************************************)
(* OrderService.createOrder of order-service and the deduction it asks     *)
(* billing-service for over HTTP.                                          *)
(*                                                                         *)
(* Concurrent createOrder calls check the balance, create their row, ask   *)
(* for the deduction and update the row in separate steps; the request may *)
(* be executed after its caller has given up on it (a 10 s client timeout),*)
(* any statement may fail before or after it took effect, and the process  *)
(* may die.  Billing's side is AtomicWallet, which Wallet implements: a    *)
(* deduction is one of its calls, identified by the order it is for.       *)
(***************************************************************************)
EXTENDS Integers

CONSTANTS
    Orders,    \* the createOrder calls, each with the order it creates
    Customers,
    Prices,    \* what an order may cost; 0 is a free order
    MaxFunds   \* bound: what a user's wallet holds at the start

ASSUME OrderAssumption == Prices \subseteq Nat /\ MaxFunds \in Nat

VARIABLES
    order,     \* order[o]: the status column, or "none" before the row exists
    call,      \* call[o]: how far createOrder has come
    debit,     \* debit[o]: what became of the request to deduct for o
    balance,   \* the wallets, as AtomicWallet has them
    applied,
    deduction

creationVars == <<order, call, debit, balance, applied, deduction>>

wallets == <<balance, applied, deduction>>

Billing == INSTANCE AtomicWallet WITH
    Calls <- Orders, Users <- Customers, request <- deduction

CreationTypeOK ==
    /\ order \in [Orders -> {"none", "PENDING", "PROCESSING", "FAILED"}]
    /\ call \in [Orders -> {"idle", "checked", "pending", "deducting", "deducted",
                            "processing", "failing", "ok", "refused", "error", "dead"}]
    /\ debit \in [Orders -> {"none", "sent", "applied", "refused"}]
    /\ balance \in [Customers -> Int]
    /\ applied \subseteq Orders
    /\ deduction \in [Orders -> [user : Customers, delta : {-p : p \in Prices}]]

CreationInit ==
    /\ order = [o \in Orders |-> "none"]
    /\ call = [o \in Orders |-> "idle"]
    /\ debit = [o \in Orders |-> "none"]
    /\ balance \in [Customers -> 0..MaxFunds]
    /\ applied = {}
    /\ deduction \in [Orders -> [user : Customers, delta : {-p : p \in Prices}]]

Goto(o, label) == call' = [call EXCEPT ![o] = label]

Price(o) == -deduction[o].delta

-----------------------------------------------------------------------------
(* createOrder, one action per statement. *)

(* checkSufficientBalance; without enough, or on an error, it throws. *)
CheckBalance(o) ==
    /\ call[o] = "idle"
    /\ \/ balance[deduction[o].user] >= Price(o) /\ Goto(o, "checked")
       \/ Goto(o, "refused")
    /\ UNCHANGED <<order, debit, wallets>>

(* The order, its item and its first history entry, in one transaction. *)
CreateRow(o) ==
    /\ call[o] = "checked"
    /\ order' = [order EXCEPT ![o] = "PENDING"]
    /\ Goto(o, "pending")
    /\ UNCHANGED <<debit, wallets>>

(* That transaction throws, outside the try; it may have committed. *)
CreateRowError(o) ==
    /\ call[o] = "checked"
    /\ order' = order \/ order' = [order EXCEPT ![o] = "PENDING"]
    /\ Goto(o, "error")
    /\ UNCHANGED <<debit, wallets>>

(* deductBalance posts to /internal/wallet/:userId/deduct. *)
SendDebit(o) ==
    /\ call[o] = "pending"
    /\ debit' = [debit EXCEPT ![o] = "sent"]
    /\ Goto(o, "deducting")
    /\ UNCHANGED <<order, wallets>>

(* A mutant of Answered: a refusal is taken for an answer like any other. *)
AnsweredAnyhow(o) ==
    /\ call[o] = "deducting"
    /\ debit[o] \in {"applied", "refused"}
    /\ Goto(o, "deducted")
    /\ UNCHANGED <<order, debit, wallets>>

(* The answer decides between the next statement and the catch block. *)
Answered(o) ==
    /\ call[o] = "deducting"
    /\ debit[o] \in {"applied", "refused"}
    /\ Goto(o, IF debit[o] = "applied" THEN "deducted" ELSE "failing")
    /\ UNCHANGED <<order, debit, wallets>>

(* A timeout or a lost connection, whatever billing does with the request. *)
DebitError(o) ==
    /\ call[o] = "deducting"
    /\ Goto(o, "failing")
    /\ UNCHANGED <<order, debit, wallets>>

(* updateOrderStatusAtomic: updateMany where status is PENDING. *)
ToProcessing(o) ==
    /\ call[o] = "deducted"
    /\ IF order[o] = "PENDING"
       THEN order' = [order EXCEPT ![o] = "PROCESSING"] /\ Goto(o, "processing")
       ELSE order' = order /\ Goto(o, "failing")
    /\ UNCHANGED <<debit, wallets>>

(* A mutant of ProcessingError: the error is logged and swallowed. *)
ProcessingErrorSwallowed(o) ==
    /\ call[o] = "deducted"
    /\ Goto(o, "processing")
    /\ UNCHANGED <<order, debit, wallets>>

(* It throws, in its update, which may have committed, or behind it. *)
ProcessingError(o) ==
    /\ call[o] = "deducted"
    /\ order' = order \/ order' = [order EXCEPT ![o] = "PROCESSING"]
    /\ Goto(o, "failing")
    /\ UNCHANGED <<debit, wallets>>

(* getOrderById answers the caller; startProvisioningAsync does nothing. *)
Answer(o) ==
    /\ call[o] = "processing"
    /\ Goto(o, "ok")
    /\ UNCHANGED <<order, debit, wallets>>

(* getOrderById is returned, not awaited: the catch block never sees its    *)
(* error, which goes to the caller alone.                                  *)
AnswerError(o) ==
    /\ call[o] = "processing"
    /\ Goto(o, "error")
    /\ UNCHANGED <<order, debit, wallets>>

(* A mutant of MarkFailed: the row is left as it is. *)
LeavePending(o) ==
    /\ call[o] = "failing"
    /\ Goto(o, "refused")
    /\ UNCHANGED <<order, debit, wallets>>

(* The catch block: update to FAILED without a condition, then rethrow. *)
MarkFailed(o) ==
    /\ call[o] = "failing"
    /\ order' = [order EXCEPT ![o] = "FAILED"]
    /\ Goto(o, "error")
    /\ UNCHANGED <<debit, wallets>>

(* The catch block's own update throws. *)
MarkFailedError(o) ==
    /\ call[o] = "failing"
    /\ Goto(o, "error")
    /\ UNCHANGED <<order, debit, wallets>>

Die(o) ==
    /\ call[o] \in {"pending", "deducting", "deducted", "processing", "failing"}
    /\ Goto(o, "dead")
    /\ UNCHANGED <<order, debit, wallets>>

-----------------------------------------------------------------------------
(* billing-service, which executes a request whether or not its caller     *)
(* still waits: WalletService.deductBalance, `Amount must be positive`.    *)
ApplyDebit(o) ==
    /\ debit[o] = "sent"
    /\ deduction[o].delta < 0
    /\ Billing!Apply(o)
    /\ debit' = [debit EXCEPT ![o] = "applied"]
    /\ UNCHANGED <<order, call>>

(* Too little balance, an amount of 0, a transaction that aborts, or a     *)
(* request that never arrives.                                             *)
RefuseDebit(o) ==
    /\ debit[o] = "sent"
    /\ debit' = [debit EXCEPT ![o] = "refused"]
    /\ UNCHANGED <<order, call, wallets>>

-----------------------------------------------------------------------------
Step(o) ==
    \/ CreateRow(o) \/ CreateRowError(o) \/ SendDebit(o)
    \/ Answered(o) \/ DebitError(o)
    \/ ToProcessing(o) \/ ProcessingError(o) \/ Answer(o) \/ AnswerError(o)
    \/ MarkFailed(o) \/ MarkFailedError(o) \/ Die(o)

BillingStep(o) == ApplyDebit(o) \/ RefuseDebit(o)

CreationTerminated ==
    /\ \A o \in Orders : /\ call[o] \in {"ok", "refused", "error", "dead"}
                         /\ debit[o] # "sent"
    /\ UNCHANGED creationVars

CreationNext ==
    \/ \E o \in Orders : CheckBalance(o) \/ Step(o) \/ BillingStep(o)
    \/ CreationTerminated

CreationSpec == CreationInit /\ [][CreationNext]_creationVars

(* A call that runs ends somehow, and so does a request that was sent. *)
FairCreation ==
    /\ CreationSpec
    /\ \A o \in Orders : WF_creationVars(Step(o)) /\ WF_creationVars(BillingStep(o))

-----------------------------------------------------------------------------
(* Nobody gets a server for nothing: an order is PROCESSING only if its    *)
(* wallet was debited for it, and so is an order createOrder has returned. *)
(* checkSufficientBalance alone, which several orders on one wallet may    *)
(* pass together, does not protect this; the deduction does.               *)
ProcessingIsPaid ==
    \A o \in Orders :
        order[o] = "PROCESSING" \/ call[o] = "ok" => debit[o] = "applied"

(* The answer createOrder gave stays true: the row of an order it returned *)
(* is PROCESSING, whatever its concurrent calls do.                        *)
ReturnedIsProcessing ==
    \A o \in Orders : call[o] = "ok" => order[o] = "PROCESSING"

(* An order that was paid for and is not PROCESSING is still on its way,   *)
(* or its call ended in an error or died: a caller who saw no failure      *)
(* never lost money.                                                       *)
ChargedOrKnown ==
    \A o \in Orders :
        debit[o] = "applied" /\ order[o] # "PROCESSING" =>
            call[o] \in {"deducting", "deducted", "failing", "error", "dead"}

(* createOrder always decides: a PENDING order becomes PROCESSING or       *)
(* FAILED, unless its process died, the catch block failed as well, or the *)
(* call never learned that its row had been committed.                     *)
Decided ==
    \A o \in Orders :
        order[o] = "PENDING" ~> \/ order[o] # "PENDING"
                                \/ call[o] \in {"error", "dead"}

(* The catch block's comment: `Balance deduction failed - mark order as    *)
(* FAILED`.  A FAILED order cost nothing.                                  *)
FailedCostsNothing ==
    \A o \in Orders : order[o] = "FAILED" => debit[o] # "applied"
=============================================================================
