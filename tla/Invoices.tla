------------------------------- MODULE Invoices -------------------------------
(***************************************************************************)
(* Invoices of billing-service: InvoiceService, the Tripay webhook that    *)
(* drives it, and OrderClientService, which reports a payment to the       *)
(* order's payment-status endpoint in order-service.                       *)
(*                                                                         *)
(* A customer may initiate the payment of an invoice more than once; each  *)
(* time Tripay opens another transaction for the same invoice number, and  *)
(* each may be paid, fail or expire.  Tripay reports this by callbacks,    *)
(* repeated, late and concurrent.  processCallback reads the status, then  *)
(* inserts a Payment and updates the invoice by id, in statements of their *)
(* own, each of which may fail, before or after it took effect.            *)
(* The payment columns that initiatePayment overwrites are not modelled:   *)
(* no callback reads them.                                                 *)
(***************************************************************************)
EXTENDS Integers

CONSTANTS
    Orders,        \* each has at most one invoice: its orderId is unique
    Initiations,   \* bound: calls of initiatePayment for one invoice
    Attempts,      \* bound: callbacks Tripay sends for one transaction
    MaxRetries     \* maxRetries of OrderClientService

ASSUME InvoicesAssumption ==
    Initiations \in Nat /\ Attempts \in Nat /\ MaxRetries \in Nat \ {0}

(* The calls of initiatePayment, each with the transaction it creates. *)
Transactions == [order : Orders, number : 1..Initiations]

Callbacks == [transaction : Transactions, attempt : 1..Attempts]

Reported == {"PAID", "EXPIRED", "FAILED"}

Final == {"PAID", "EXPIRED"}

VARIABLES
    invoice,       \* invoice[o]: its status column, or "none"
    overdue,       \* the orders whose invoice is past its expiredAt
    call,          \* call[t]: how far initiatePayment has come
    transaction,   \* transaction[t]: its status at Tripay, or "none"
    hook,          \* hook[w]: how far callback w has come
    payments,      \* the callbacks that inserted a Payment
    tries,         \* tries[w]: requests w has sent to order-service
    order          \* order[o]: the status column of order-service

vars == <<invoice, overdue, call, transaction, hook, payments, tries, order>>

TypeOK ==
    /\ invoice \in [Orders -> {"none", "PENDING"} \cup Final]
    /\ overdue \subseteq Orders
    /\ call \in [Transactions -> {"idle", "checked", "charged", "shown",
                                  "expiring", "stale", "refused"}]
    /\ transaction \in [Transactions -> {"none", "open"} \cup Reported]
    /\ hook \in [Callbacks -> {"idle", "found", "recorded", "marked",
                               "ok", "error", "dead"}]
    /\ payments \subseteq Callbacks
    /\ tries \in [Callbacks -> 0..MaxRetries]
    /\ order \in [Orders -> {"PENDING_PAYMENT", "PAID"}]

Init ==
    /\ invoice = [o \in Orders |-> "none"]
    /\ overdue = {}
    /\ call = [t \in Transactions |-> "idle"]
    /\ transaction = [t \in Transactions |-> "none"]
    /\ hook = [w \in Callbacks |-> "idle"]
    /\ payments = {}
    /\ tries = [w \in Callbacks |-> 0]
    /\ order = [o \in Orders |-> "PENDING_PAYMENT"]

billing == <<invoice, overdue, payments, tries, order>>

CallGoto(t, label) == call' = [call EXCEPT ![t] = label]

Goto(w, label) == hook' = [hook EXCEPT ![w] = label]

SetInvoice(o, status) == invoice' = [invoice EXCEPT ![o] = status]

-----------------------------------------------------------------------------
(* createInvoice; a second one for the order fails on the unique column. *)
CreateInvoice(o) ==
    /\ invoice[o] = "none"
    /\ SetInvoice(o, "PENDING")
    /\ UNCHANGED <<overdue, call, transaction, hook, payments, tries, order>>

PassDeadline(o) ==
    /\ invoice[o] # "none"
    /\ o \notin overdue
    /\ overdue' = overdue \cup {o}
    /\ UNCHANGED <<invoice, call, transaction, hook, payments, tries, order>>

(* initiatePayment reads the invoice and decides. *)
StartPayment(t) ==
    /\ call[t] = "idle"
    /\ invoice[t.order] # "none"
    /\ CallGoto(t, IF invoice[t.order] # "PENDING" THEN "refused"
                   ELSE IF t.order \in overdue THEN "expiring" ELSE "checked")
    /\ UNCHANGED <<billing, transaction, hook>>

(* expireInvoice reads the status again, then writes by id. *)
ExpireCheck(t) ==
    /\ call[t] = "expiring"
    /\ CallGoto(t, IF invoice[t.order] = "PENDING" THEN "stale" ELSE "refused")
    /\ UNCHANGED <<billing, transaction, hook>>

ExpireWrite(t) ==
    /\ call[t] = "stale"
    /\ SetInvoice(t.order, "EXPIRED")
    /\ CallGoto(t, "refused")
    /\ UNCHANGED <<overdue, transaction, hook, payments, tries, order>>

(* tripayService.createTransaction. *)
Charge(t) ==
    /\ call[t] = "checked"
    /\ transaction' = [transaction EXCEPT ![t] = "open"]
    /\ CallGoto(t, "charged")
    /\ UNCHANGED <<billing, hook>>

(* The update by id, and the answer with the payment code. *)
Show(t) ==
    /\ call[t] = "charged"
    /\ CallGoto(t, "shown")
    /\ UNCHANGED <<billing, transaction, hook>>

(* A statement or a request fails; it may have taken effect. *)
InitiateError(t) ==
    /\ \/ /\ call[t] \in {"checked", "charged", "expiring", "stale"}
          /\ UNCHANGED <<invoice, transaction>>
       \/ /\ call[t] = "checked"
          /\ transaction' = [transaction EXCEPT ![t] = "open"]
          /\ UNCHANGED invoice
       \/ /\ call[t] = "stale"
          /\ SetInvoice(t.order, "EXPIRED")
          /\ UNCHANGED transaction
    /\ CallGoto(t, "refused")
    /\ UNCHANGED <<overdue, hook, payments, tries, order>>

-----------------------------------------------------------------------------
(* Tripay.  Only a customer who was shown a payment code uses it; every    *)
(* transaction expires at the expiredAt of its invoice (expiredTime).      *)
Resolve(t) ==
    /\ transaction[t] = "open"
    /\ \E status \in Reported :
          /\ IF status = "EXPIRED" THEN t.order \in overdue ELSE call[t] = "shown"
          /\ transaction' = [transaction EXCEPT ![t] = status]
    /\ UNCHANGED <<billing, call, hook>>

-----------------------------------------------------------------------------
(* handleTripayCallback and processCallback. *)

(* What callback w reports.  A transaction is resolved once. *)
Status(w) == transaction[w.transaction]

InvoiceOf(w) == invoice[w.transaction.order]

(* findUnique by invoice number; an invoice that is final is left alone. *)
Find(w) ==
    /\ hook[w] = "idle"
    /\ Status(w) \in Reported
    /\ Goto(w, IF InvoiceOf(w) \in Final THEN "ok" ELSE "found")
    /\ UNCHANGED <<billing, call, transaction>>

(* A mutant of Record: FAILED goes on to the update. *)
RecordAnyStatus(w) ==
    /\ hook[w] = "found"
    /\ payments' = payments \cup {w}
    /\ Goto(w, "recorded")
    /\ UNCHANGED <<invoice, overdue, call, transaction, tries, order>>

(* payment.create; FAILED and REFUND are then only logged. *)
Record(w) ==
    /\ hook[w] = "found"
    /\ payments' = payments \cup {w}
    /\ Goto(w, IF Status(w) = "FAILED" THEN "ok" ELSE "recorded")
    /\ UNCHANGED <<invoice, overdue, call, transaction, tries, order>>

(* A mutant of Mark: a callback that is not EXPIRED is taken for a payment. *)
MarkAsPaid(w) ==
    /\ hook[w] = "recorded"
    /\ SetInvoice(w.transaction.order, "PAID")
    /\ Goto(w, "marked")
    /\ UNCHANGED <<overdue, call, transaction, payments, tries, order>>

(* invoice.update by id: PAID goes on to notify, EXPIRED is done. *)
Mark(w) ==
    /\ hook[w] = "recorded"
    /\ SetInvoice(w.transaction.order, Status(w))
    /\ Goto(w, IF Status(w) = "PAID" THEN "marked" ELSE "ok")
    /\ UNCHANGED <<overdue, call, transaction, payments, tries, order>>

(* A mutant of HookError: the webhook answers `success` for a failure. *)
HookErrorSwallowed(w) ==
    /\ hook[w] \in {"idle", "found", "recorded"}
    /\ Status(w) \in Reported
    /\ Goto(w, "ok")
    /\ UNCHANGED <<billing, call, transaction>>

(* A statement throws, having taken effect or not: HTTP 500. *)
HookError(w) ==
    /\ \/ hook[w] \in {"found", "recorded"} /\ UNCHANGED <<invoice, payments>>
       \/ /\ hook[w] = "found"
          /\ payments' = payments \cup {w}
          /\ UNCHANGED invoice
       \/ /\ hook[w] = "recorded"
          /\ SetInvoice(w.transaction.order, Status(w))
          /\ UNCHANGED payments
    /\ Goto(w, "error")
    /\ UNCHANGED <<overdue, call, transaction, tries, order>>

HookDies(w) ==
    /\ hook[w] \in {"found", "recorded", "marked"}
    /\ Goto(w, "dead")
    /\ UNCHANGED <<billing, call, transaction>>

-----------------------------------------------------------------------------
(* OrderClientService.updatePaymentStatus and the endpoint it calls, whose  *)
(* ValidationPipe answers 400 to a field its DTO does not know.             *)

KnownFields == {"status", "notes"}                 \* UpdatePaymentStatusDto

SentFields == {"status", "reference", "paidAt"}    \* what billing-service sends

(* PaymentService.updatePaymentStatus, for a body with these fields. *)
OrderAfter(o, fields) ==
    IF fields \subseteq KnownFields /\ order[o] = "PENDING_PAYMENT"
    THEN [order EXCEPT ![o] = "PAID"] ELSE order

(* An answer below 500 ends the notification, and its error is swallowed. *)
Notify(w) ==
    /\ hook[w] = "marked"
    /\ order' = OrderAfter(w.transaction.order, SentFields)
    /\ tries' = [tries EXCEPT ![w] = @ + 1]
    /\ Goto(w, "ok")
    /\ UNCHANGED <<invoice, overdue, call, transaction, payments>>

(* No answer, or an error of the server: retried MaxRetries - 1 times. *)
NotifyLost(w) ==
    /\ hook[w] = "marked"
    /\ order' = OrderAfter(w.transaction.order, SentFields) \/ order' = order
    /\ tries' = [tries EXCEPT ![w] = @ + 1]
    /\ Goto(w, IF tries'[w] < MaxRetries THEN "marked" ELSE "ok")
    /\ UNCHANGED <<invoice, overdue, call, transaction, payments>>

(* An administrator reports the payment by hand, with a valid body. *)
Override(o) ==
    /\ order[o] = "PENDING_PAYMENT"
    /\ order' = OrderAfter(o, {"status", "notes"})
    /\ UNCHANGED <<invoice, overdue, call, transaction, hook, payments, tries>>

-----------------------------------------------------------------------------
InitiateStep(t) ==
    \/ ExpireCheck(t) \/ ExpireWrite(t) \/ Charge(t) \/ Show(t) \/ InitiateError(t)

HookStep(w) ==
    \/ Record(w) \/ Mark(w) \/ HookError(w) \/ HookDies(w)
    \/ Notify(w) \/ NotifyLost(w)

(* Everything that can happen has: an open transaction has expired. *)
Terminated ==
    /\ \A o \in Orders : o \in overdue /\ order[o] = "PAID"
    /\ \A t \in Transactions : /\ call[t] \in {"shown", "refused"}
                               /\ transaction[t] # "open"
    /\ \A w \in Callbacks :
          \/ hook[w] \in {"ok", "error", "dead"}
          \/ Status(w) = "none"
    /\ UNCHANGED vars

Next ==
    \/ \E o \in Orders : CreateInvoice(o) \/ PassDeadline(o) \/ Override(o)
    \/ \E t \in Transactions : StartPayment(t) \/ InitiateStep(t) \/ Resolve(t)
    \/ \E w \in Callbacks : Find(w) \/ HookStep(w)
    \/ Terminated

Spec == Init /\ [][Next]_vars

-----------------------------------------------------------------------------
(* An invoice that is PAID has a transaction the customer paid, and a      *)
(* Payment row that says so, whichever callbacks raced for it and wherever *)
(* they failed.                                                            *)
PaidIsPaid ==
    \A o \in Orders :
        invoice[o] = "PAID" =>
            \E w \in payments : w.transaction.order = o /\ Status(w) = "PAID"

(* Tripay stops repeating a callback that was answered with success.  By   *)
(* then the invoice it was about is final, though not always with the      *)
(* outcome it reported: a payment that comes after the expiry is dropped.  *)
AnsweredIsFinal ==
    \A w \in Callbacks :
        hook[w] = "ok" /\ Status(w) \in Final => InvoiceOf(w) \in Final

(* A payment that was answered with success and left no Payment row came   *)
(* second: another callback had recorded its own, or the deadline had      *)
(* passed.  Before the deadline the first payment of an invoice is kept.   *)
PaymentTraced ==
    \A w \in Callbacks :
        hook[w] = "ok" /\ Status(w) = "PAID" /\ w \notin payments =>
            \/ w.transaction.order \in overdue
            \/ \E v \in payments : /\ v.transaction.order = w.transaction.order
                                   /\ Status(v) = "PAID"

(* A PAID invoice is overwritten only by an expiry that raced with the     *)
(* payment, so only past its deadline, and only by EXPIRED.  (The status   *)
(* is checked before it is written, by processCallback and expireInvoice.) *)
PaidStays ==
    [][\A o \in Orders :
          invoice[o] = "PAID" /\ invoice'[o] # "PAID" =>
             invoice'[o] = "EXPIRED" /\ o \in overdue]_vars

(* `If SUCCESS: Call order-service internal API to mark PAID`: once the    *)
(* endpoint has answered the notification of a payment, the order is PAID. *)
NotifiedIsPaid ==
    \A w \in Callbacks :
        hook[w] = "ok" /\ tries[w] = 1 => order[w.transaction.order] = "PAID"
=============================================================================
