------------------------------- MODULE Deposits -------------------------------
(***************************************************************************)
(* Deposits of billing-service: DepositService and the Tripay webhook that *)
(* drives it.                                                              *)
(*                                                                         *)
(* A deposit row is created, then linked to a Tripay transaction the       *)
(* customer can pay.  Tripay reports a payment by HTTP callbacks, which it *)
(* may send twice, late and at the same time; each callback runs           *)
(* processPaidDeposit: find the row, claim it (processedAt) with a         *)
(* conditional update, credit the wallet.  The customer may cancel         *)
(* meanwhile.  Any database statement may fail, before or after it took    *)
(* effect, and a callback's process may die between two of them.           *)
(* WalletService.addBalance is one step here: AtomicWallet, which Wallet   *)
(* is shown to implement.                                                  *)
(***************************************************************************)
EXTENDS Integers

CONSTANTS
    DepositIds,
    Attempts,    \* bound: the callbacks Tripay sends for one deposit
    NoRow        \* the deposit has no row

Statuses == {"PENDING", "PAID", "EXPIRED", "FAILED"}

Rows == [status : Statuses,
         linked : BOOLEAN,       \* tripayReference is set
         processed : BOOLEAN]    \* processedAt is set

ASSUME DepositsAssumption == Attempts \in Nat /\ NoRow \notin Rows

(* The callbacks of Tripay, each one HTTP request. *)
Callbacks == [deposit : DepositIds, attempt : 1..Attempts]

VARIABLES
    row,       \* row[d]: the row of deposit d, or NoRow
    creation,  \* creation[d]: how far createDeposit has come
    paid,      \* the deposits whose Tripay transaction has been paid
    hook,      \* hook[w]: how far callback w has come
    cancel,    \* cancel[d]: how far cancelDeposit has come
    credits    \* credits[d]: how often the wallet was credited for d

vars == <<row, creation, paid, hook, cancel, credits>>

TypeOK ==
    /\ row \in [DepositIds -> Rows \cup {NoRow}]
    /\ creation \in [DepositIds -> {"idle", "created", "linked", "rolledback", "abandoned"}]
    /\ paid \subseteq DepositIds
    /\ hook \in [Callbacks -> {"idle", "found", "claimed", "failing",
                               "ok", "error", "dead"}]
    /\ cancel \in [DepositIds -> {"idle", "checked", "done"}]
    /\ credits \in [DepositIds -> Nat]

Init ==
    /\ row = [d \in DepositIds |-> NoRow]
    /\ creation = [d \in DepositIds |-> "idle"]
    /\ paid = {}
    /\ hook = [w \in Callbacks |-> "idle"]
    /\ cancel = [d \in DepositIds |-> "idle"]
    /\ credits = [d \in DepositIds |-> 0]

-----------------------------------------------------------------------------
(* createDeposit. *)

CreateRow(d) ==
    /\ creation[d] = "idle"
    /\ row' = [row EXCEPT ![d] =
                 [status |-> "PENDING", linked |-> FALSE, processed |-> FALSE]]
    /\ creation' = [creation EXCEPT ![d] = "created"]
    /\ UNCHANGED <<paid, hook, cancel, credits>>

(* createTransaction answered and the row keeps its reference. *)
Link(d) ==
    /\ creation[d] = "created"
    /\ row' = [row EXCEPT ![d].linked = TRUE]
    /\ creation' = [creation EXCEPT ![d] = "linked"]
    /\ UNCHANGED <<paid, hook, cancel, credits>>

(* An unknown channel, or an error of Tripay or of the update. *)
Rollback(d) ==
    /\ creation[d] = "created"
    /\ row' = [row EXCEPT ![d] = NoRow]
    /\ creation' = [creation EXCEPT ![d] = "rolledback"]
    /\ UNCHANGED <<paid, hook, cancel, credits>>

(* getPaymentChannels threw outside the try, or the process died. *)
Abandon(d) ==
    /\ creation[d] = "created"
    /\ creation' = [creation EXCEPT ![d] = "abandoned"]
    /\ UNCHANGED <<row, paid, hook, cancel, credits>>

-----------------------------------------------------------------------------
(* Tripay and the webhook: handleTripayCallback, processPaidDeposit. *)

(* Cancelling or expiring a deposit does not tell Tripay. *)
Pay(d) ==
    /\ creation[d] = "linked"
    /\ d \notin paid
    /\ paid' = paid \cup {d}
    /\ UNCHANGED <<row, creation, hook, cancel, credits>>

Goto(w, label) == hook' = [hook EXCEPT ![w] = label]

(* A mutant of Find: a deposit that is no longer PENDING needs no credit. *)
FindPending(w) ==
    /\ hook[w] = "idle"
    /\ w.deposit \in paid
    /\ Goto(w, IF row[w.deposit].status # "PENDING" THEN "ok" ELSE "found")
    /\ UNCHANGED <<row, creation, paid, cancel, credits>>

(* findUnique; a row that is processed already is answered `true`. *)
Find(w) ==
    /\ hook[w] = "idle"
    /\ w.deposit \in paid
    /\ Goto(w, IF row[w.deposit].processed THEN "ok" ELSE "found")
    /\ UNCHANGED <<row, creation, paid, cancel, credits>>

(* A mutant of Claimed: the status is forgotten. *)
ClaimedOnly(d) == [row EXCEPT ![d].processed = TRUE]

(* updateMany where processedAt is null. *)
Claimed(d) ==
    [row EXCEPT ![d] = [status |-> "PAID", linked |-> @.linked, processed |-> TRUE]]

(* A mutant of Claim: an update without the condition on processedAt. *)
ClaimUnconditionally(w) ==
    /\ hook[w] = "found"
    /\ row' = Claimed(w.deposit)
    /\ Goto(w, "claimed")
    /\ UNCHANGED <<creation, paid, cancel, credits>>

Claim(w) ==
    /\ hook[w] = "found"
    /\ IF row[w.deposit].processed
       THEN row' = row /\ Goto(w, "ok")
       ELSE row' = Claimed(w.deposit) /\ Goto(w, "claimed")
    /\ UNCHANGED <<creation, paid, cancel, credits>>

(* The bonus update and addBalance succeed. *)
Credit(w) ==
    /\ hook[w] = "claimed"
    /\ credits' = [credits EXCEPT ![w.deposit] = @ + 1]
    /\ Goto(w, "ok")
    /\ UNCHANGED <<row, creation, paid, cancel>>

(* One of them throws; addBalance may have committed all the same. *)
CreditError(w) ==
    /\ hook[w] = "claimed"
    /\ \/ UNCHANGED credits
       \/ credits' = [credits EXCEPT ![w.deposit] = @ + 1]
    /\ Goto(w, "failing")
    /\ UNCHANGED <<row, creation, paid, cancel>>

(* Mutants of MarkFailed: the error is not rethrown, or processedAt is      *)
(* taken back.                                                             *)
MarkFailedSilently(w) ==
    /\ hook[w] = "failing"
    /\ row' = [row EXCEPT ![w.deposit].status = "FAILED"]
    /\ Goto(w, "ok")
    /\ UNCHANGED <<creation, paid, cancel, credits>>

MarkUnprocessed(w) ==
    /\ hook[w] = "failing"
    /\ row' = [row EXCEPT ![w.deposit].status = "FAILED",
                          ![w.deposit].processed = FALSE]
    /\ Goto(w, "error")
    /\ UNCHANGED <<creation, paid, cancel, credits>>

(* The catch block marks the deposit and rethrows: HTTP 500. *)
MarkFailed(w) ==
    /\ hook[w] = "failing"
    /\ row' = [row EXCEPT ![w.deposit].status = "FAILED"]
    /\ Goto(w, "error")
    /\ UNCHANGED <<creation, paid, cancel, credits>>

(* A statement outside the try fails; a claim may have committed.  *)
HookError(w) ==
    /\ \/ hook[w] \in {"found", "failing"} /\ UNCHANGED row
       \/ /\ hook[w] = "found" /\ ~row[w.deposit].processed
          /\ row' = Claimed(w.deposit)
    /\ Goto(w, "error")
    /\ UNCHANGED <<creation, paid, cancel, credits>>

HookDies(w) ==
    /\ hook[w] \in {"found", "claimed", "failing"}
    /\ Goto(w, "dead")
    /\ UNCHANGED <<row, creation, paid, cancel, credits>>

-----------------------------------------------------------------------------
(* cancelDeposit checks the status, then writes without a condition. *)
CancelCheck(d) ==
    /\ cancel[d] = "idle"
    /\ row[d] # NoRow
    /\ row[d].status = "PENDING"
    /\ cancel' = [cancel EXCEPT ![d] = "checked"]
    /\ UNCHANGED <<row, creation, paid, hook, credits>>

(* update throws if the row is gone. *)
CancelWrite(d) ==
    /\ cancel[d] = "checked"
    /\ row' = IF row[d] = NoRow THEN row ELSE [row EXCEPT ![d].status = "EXPIRED"]
    /\ cancel' = [cancel EXCEPT ![d] = "done"]
    /\ UNCHANGED <<creation, paid, hook, credits>>

(* markExpiredDeposits, for a deposit past its expiresAt. *)
MarkExpired(d) ==
    /\ row[d] # NoRow
    /\ row[d].status = "PENDING"
    /\ row' = [row EXCEPT ![d].status = "EXPIRED"]
    /\ UNCHANGED <<creation, paid, hook, cancel, credits>>

-----------------------------------------------------------------------------
HookStep(w) ==
    \/ Claim(w) \/ Credit(w) \/ CreditError(w)
    \/ MarkFailed(w) \/ HookError(w) \/ HookDies(w)

Terminated ==
    /\ paid = {d \in DepositIds : creation[d] = "linked"}
    /\ \A w \in Callbacks :
          \/ hook[w] \in {"ok", "error", "dead"}
          \/ hook[w] = "idle" /\ w.deposit \notin paid
    /\ \A d \in DepositIds : creation[d] \notin {"idle", "created"}
    /\ UNCHANGED vars

Next ==
    \/ \E d \in DepositIds :
          \/ CreateRow(d) \/ Link(d) \/ Rollback(d) \/ Abandon(d) \/ Pay(d)
          \/ CancelCheck(d) \/ CancelWrite(d) \/ MarkExpired(d)
    \/ \E w \in Callbacks : Find(w) \/ HookStep(w)
    \/ Terminated

Spec == Init /\ [][Next]_vars

(* Tripay delivers its callbacks, and a callback that runs ends somehow.   *)
FairSpec == Spec /\ \A w \in Callbacks : WF_vars(Find(w)) /\ WF_vars(HookStep(w))

-----------------------------------------------------------------------------
InFlight(d) ==
    \E w \in Callbacks : w.deposit = d /\ hook[w] \in {"found", "claimed", "failing"}

Broken(d) == \E w \in Callbacks : w.deposit = d /\ hook[w] \in {"error", "dead"}

(* However often, late and concurrently Tripay reports a payment, and      *)
(* whatever fails in between, the wallet is credited at most once, and     *)
(* only for a paid deposit (processPaidDeposit's idempotency).             *)
CreditedOnce ==
    \A d \in DepositIds :
        credits[d] <= 1 /\ (credits[d] = 1 => d \in paid /\ row[d].processed)

(* A deposit that was claimed and not credited has a callback at work on   *)
(* it, or one that failed or died: without a failure no payment is lost.   *)
NothingLostInSilence ==
    \A d \in DepositIds :
        (row[d] # NoRow /\ row[d].processed /\ credits[d] = 0)
        => InFlight(d) \/ Broken(d)

(* Once its callbacks are over, a credited deposit is shown as PAID unless *)
(* the customer's cancellation, or a callback that failed after the credit *)
(* had committed, wrote its status last.                                   *)
CreditedLooksPaid ==
    \A d \in DepositIds :
        credits[d] = 1 /\ ~InFlight(d) /\ row[d].status # "PAID"
        => \/ row[d].status = "EXPIRED" /\ cancel[d] = "done"
           \/ row[d].status = "FAILED" /\ Broken(d)

(* A claim is final and the row it stands in is never deleted, so no later *)
(* callback, rollback of createDeposit or cancellation makes the deposit   *)
(* creditable again.                                                       *)
ClaimFinal ==
    [][\A d \in DepositIds :
          row[d] # NoRow /\ (row[d].processed \/ d \in paid) =>
             row'[d] # NoRow /\ (row[d].processed => row'[d].processed)]_vars

Promise == INSTANCE AtomicDeposit WITH
    rows <- {d \in DepositIds : row[d] # NoRow},
    claimed <- {d \in DepositIds : row[d] # NoRow /\ row[d].processed}

(* Whatever Tripay repeats, the customer cancels or the database refuses,  *)
(* a deposit goes through payment, claim and credit one after the other    *)
(* and once: no statement goes back behind a claim, credits without one,   *)
(* or deletes a row that was paid.                                         *)
ImplementsAtomicDeposit == Promise!Spec

(* A payment is settled: the wallet is credited, or a callback failed or   *)
(* died; cancelling and duplicate callbacks do not get in the way.         *)
PaymentSettled ==
    \A d \in DepositIds : d \in paid ~> (credits[d] = 1 \/ Broken(d))

(* What the catch block's comment asks for: `If wallet operation fails, we *)
(* need to rollback the processedAt`.  A deposit it marked FAILED that was *)
(* not credited may be claimed again, by the callback Tripay sends next.   *)
FailedIsUnclaimed ==
    \A d \in DepositIds :
        row[d] # NoRow /\ row[d].status = "FAILED" /\ credits[d] = 0
        => ~row[d].processed
=============================================================================
