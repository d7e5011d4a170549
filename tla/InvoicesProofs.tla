---------------------------- MODULE InvoicesProofs ----------------------------
(***************************************************************************)
(* Proofs about Invoices, for any number of orders, payment attempts,      *)
(* callbacks and retries.                                                  *)
(***************************************************************************)
EXTENDS Invoices, TLAPS

USE InvoicesAssumption

LEMMA Domains ==
  /\ \A t \in Transactions : t.order \in Orders
  /\ \A w \in Callbacks : w.transaction \in Transactions /\ w.transaction.order \in Orders
  BY DEF Transactions, Callbacks

(* A transaction exists once initiatePayment has asked for it, and the     *)
(* only transactions and invoices that expire are overdue.                 *)
CallInv(t) ==
    /\ call[t] \in {"idle", "checked", "expiring", "stale"} => transaction[t] = "none"
    /\ call[t] \in {"expiring", "stale"} => t.order \in overdue
    /\ transaction[t] = "EXPIRED" => t.order \in overdue

(* A paid or overdue invoice, as another callback may find it. *)
Traced(o) ==
    \/ o \in overdue
    \/ \E v \in payments : v.transaction.order = o /\ Status(v) = "PAID"

HookInv(w) ==
    /\ hook[w] # "idle" => Status(w) \in Reported
    /\ w \in payments => hook[w] # "idle"
    /\ hook[w] \in {"recorded", "marked"} => w \in payments
    /\ hook[w] = "recorded" => Status(w) \in Final
    /\ hook[w] = "marked" => Status(w) = "PAID" /\ InvoiceOf(w) \in Final
    /\ hook[w] \in {"idle", "found", "recorded", "marked"} => tries[w] < MaxRetries
    /\ hook[w] = "ok" /\ Status(w) \in Final => InvoiceOf(w) \in Final
    /\ hook[w] = "ok" /\ Status(w) = "PAID" /\ w \notin payments =>
          Traced(w.transaction.order)

InvoiceInv(o) ==
    /\ invoice[o] = "EXPIRED" => o \in overdue
    /\ invoice[o] = "PAID" =>
          \E w \in payments : w.transaction.order = o /\ Status(w) = "PAID"

Inv ==
    /\ TypeOK
    /\ \A t \in Transactions : CallInv(t)
    /\ \A w \in Callbacks : HookInv(w)
    /\ \A o \in Orders : InvoiceInv(o)

-----------------------------------------------------------------------------
LEMMA TypeInit == Init => TypeOK
  BY DEF Init, TypeOK

LEMMA TypeNext ==
  ASSUME Inv, [Next]_vars
  PROVE  TypeOK'
<1>0. TypeOK /\ \A w \in Callbacks : HookInv(w)
  BY DEF Inv
<1>. USE Domains DEF Final, Reported, billing
<1>1. ASSUME NEW o \in Orders, CreateInvoice(o) \/ PassDeadline(o) \/ Override(o)
      PROVE  TypeOK'
  BY <1>0, <1>1 DEF CreateInvoice, PassDeadline, Override, OrderAfter, SetInvoice, TypeOK
<1>2. ASSUME NEW t \in Transactions,
             StartPayment(t) \/ ExpireCheck(t) \/ Charge(t) \/ Show(t) \/ Resolve(t)
      PROVE  TypeOK'
  BY <1>0, <1>2 DEF StartPayment, ExpireCheck, Charge, Show, Resolve, CallGoto, TypeOK
<1>3. ASSUME NEW t \in Transactions, ExpireWrite(t) \/ InitiateError(t) PROVE TypeOK'
  BY <1>0, <1>3 DEF ExpireWrite, InitiateError, CallGoto, SetInvoice, TypeOK
<1>4. ASSUME NEW w \in Callbacks, Find(w) \/ Record(w) \/ HookDies(w) PROVE TypeOK'
  BY <1>0, <1>4 DEF Find, Record, HookDies, Goto, TypeOK
<1>5. ASSUME NEW w \in Callbacks, Mark(w) \/ HookError(w) PROVE TypeOK'
  BY <1>0, <1>5 DEF Mark, HookError, Goto, SetInvoice, HookInv, TypeOK
<1>6. ASSUME NEW w \in Callbacks, Notify(w) \/ NotifyLost(w) PROVE TypeOK'
  BY <1>0, <1>6 DEF Notify, NotifyLost, OrderAfter, Goto, HookInv, TypeOK
<1>7. CASE UNCHANGED vars
  BY <1>0, <1>7 DEF vars, TypeOK
<1>. QED
  BY <1>1, <1>2, <1>3, <1>4, <1>5, <1>6, <1>7
  DEF Next, InitiateStep, HookStep, Terminated

-----------------------------------------------------------------------------
(* What no step takes back. *)
Kept ==
    /\ \A t \in Transactions :
          transaction[t] \in Reported => transaction'[t] = transaction[t]
    /\ overdue \subseteq overdue'
    /\ payments \subseteq payments'
    /\ \A o \in Orders : invoice[o] \in Final => invoice'[o] \in Final

LEMMA KeptNext ==
  ASSUME Inv, [Next]_vars
  PROVE  Kept
<1>0. TypeOK /\ \A w \in Callbacks : HookInv(w) /\ \A t \in Transactions : CallInv(t)
  BY DEF Inv
<1>. USE Domains DEF Final, Reported, billing, Kept
<1>1. ASSUME NEW o \in Orders, CreateInvoice(o) \/ PassDeadline(o) \/ Override(o)
      PROVE  Kept
  BY <1>0, <1>1 DEF CreateInvoice, PassDeadline, Override, SetInvoice, TypeOK
<1>2. ASSUME NEW t \in Transactions,
             StartPayment(t) \/ ExpireCheck(t) \/ Charge(t) \/ Show(t) \/ Resolve(t)
      PROVE  Kept
  <2>1. CallInv(t)
    BY DEF Inv
  <2>2. \/ transaction' = transaction
        \/ /\ transaction[t] \in {"none", "open"}
           /\ \E status : transaction' = [transaction EXCEPT ![t] = status]
    BY <1>2, <2>1 DEF StartPayment, ExpireCheck, Charge, Show, Resolve, CallInv
  <2>3. UNCHANGED <<invoice, overdue, payments>>
    BY <1>2 DEF StartPayment, ExpireCheck, Charge, Show, Resolve
  <2>. QED
    BY <1>0, <2>2, <2>3 DEF TypeOK
<1>3. ASSUME NEW t \in Transactions, ExpireWrite(t) \/ InitiateError(t) PROVE Kept
  <2>1. CallInv(t)
    BY DEF Inv
  <2>2. \/ transaction' = transaction
        \/ /\ transaction[t] \in {"none", "open"}
           /\ \E status : transaction' = [transaction EXCEPT ![t] = status]
    BY <1>3, <2>1 DEF ExpireWrite, InitiateError, CallInv
  <2>3. invoice' = invoice \/ invoice' = [invoice EXCEPT ![t.order] = "EXPIRED"]
    BY <1>3 DEF ExpireWrite, InitiateError, SetInvoice
  <2>4. UNCHANGED <<overdue, payments>>
    BY <1>3 DEF ExpireWrite, InitiateError
  <2>. QED
    BY <1>0, <2>2, <2>3, <2>4 DEF TypeOK
<1>4. ASSUME NEW w \in Callbacks, Find(w) \/ Record(w) \/ HookDies(w) PROVE Kept
  BY <1>0, <1>4 DEF Find, Record, HookDies, TypeOK
<1>5. ASSUME NEW w \in Callbacks, Mark(w) \/ HookError(w) PROVE Kept
  BY <1>0, <1>5 DEF Mark, HookError, SetInvoice, HookInv, TypeOK
<1>6. ASSUME NEW w \in Callbacks, Notify(w) \/ NotifyLost(w) PROVE Kept
  BY <1>0, <1>6 DEF Notify, NotifyLost, TypeOK
<1>7. CASE Terminated \/ UNCHANGED vars
  BY <1>0, <1>7 DEF vars, Terminated
<1>. QED
  BY <1>1, <1>2, <1>3, <1>4, <1>5, <1>6, <1>7 DEF Next, InitiateStep, HookStep

LEMMA CallNext ==
  ASSUME Inv, [Next]_vars, NEW s \in Transactions
  PROVE  CallInv(s)'
<1>0. TypeOK /\ CallInv(s)
  BY DEF Inv
<1>. USE Domains DEF billing
<1>1. ASSUME NEW o \in Orders, CreateInvoice(o) \/ PassDeadline(o) \/ Override(o)
      PROVE  CallInv(s)'
  BY <1>0, <1>1 DEF CreateInvoice, PassDeadline, Override, CallInv
<1>2. ASSUME NEW t \in Transactions, StartPayment(t) \/ ExpireCheck(t) \/ ExpireWrite(t)
      PROVE  CallInv(s)'
  BY <1>0, <1>2 DEF StartPayment, ExpireCheck, ExpireWrite, CallGoto, CallInv, TypeOK
<1>3. ASSUME NEW t \in Transactions,
             Charge(t) \/ Show(t) \/ InitiateError(t) \/ Resolve(t)
      PROVE  CallInv(s)'
  BY <1>0, <1>3 DEF Charge, Show, InitiateError, Resolve, CallGoto, CallInv, TypeOK
<1>4. ASSUME NEW w \in Callbacks, Find(w) \/ HookStep(w) PROVE CallInv(s)'
  BY <1>0, <1>4 DEF Find, HookStep, Record, Mark, HookError, HookDies, Notify,
                    NotifyLost, CallInv
<1>5. CASE Terminated \/ UNCHANGED vars
  BY <1>0, <1>5 DEF vars, Terminated, CallInv
<1>. QED
  BY <1>1, <1>2, <1>3, <1>4, <1>5 DEF Next, InitiateStep

(* An invoice becomes PAID by the update of a callback that has recorded   *)
(* its payment, and EXPIRED only past its deadline.                        *)
LEMMA InvoiceNext ==
  ASSUME Inv, [Next]_vars, NEW p \in Orders
  PROVE  InvoiceInv(p)'
<1>0. TypeOK /\ InvoiceInv(p) /\ Kept
  BY KeptNext DEF Inv
<1>1. \A w \in payments : Status(w) = "PAID" => w \in payments' /\ Status(w)' = "PAID"
  BY <1>0, Domains DEF Kept, Status, Reported, TypeOK
<1>2. ASSUME invoice'[p] = invoice[p] PROVE InvoiceInv(p)'
  BY <1>0, <1>1, <1>2 DEF InvoiceInv, Kept
<1>3. ASSUME NEW t \in Transactions, ExpireWrite(t) \/ InitiateError(t) PROVE InvoiceInv(p)'
  <2>1. CallInv(t)
    BY DEF Inv
  <2>2. invoice'[p] = invoice[p] \/ (invoice'[p] = "EXPIRED" /\ p \in overdue)
    BY <1>0, <1>3, <2>1 DEF ExpireWrite, InitiateError, SetInvoice, CallInv, TypeOK
  <2>. QED
    BY <1>0, <1>2, <2>2 DEF InvoiceInv, Kept
<1>4. ASSUME NEW w \in Callbacks, Mark(w) \/ HookError(w) PROVE InvoiceInv(p)'
  <2>. SUFFICES ASSUME invoice'[p] # invoice[p] PROVE InvoiceInv(p)'
    BY <1>2
  <2>1. hook[w] = "recorded" /\ invoice'[p] = Status(w) /\ w.transaction.order = p
    BY <1>0, <1>4 DEF Mark, HookError, SetInvoice, TypeOK
  <2>2. w \in payments /\ Status(w) \in Final
    BY <2>1 DEF Inv, HookInv
  <2>3. CASE Status(w) = "PAID"
    BY <1>1, <2>1, <2>2, <2>3 DEF InvoiceInv
  <2>4. CASE Status(w) = "EXPIRED"
    <3>1. p \in overdue
      BY <2>1, <2>4, Domains DEF Inv, CallInv, Status
    <3>. QED
      BY <1>0, <2>1, <2>4, <3>1 DEF InvoiceInv, Kept
  <2>. QED
    BY <2>2, <2>3, <2>4 DEF Final
<1>5. ASSUME NEW o \in Orders, CreateInvoice(o) PROVE InvoiceInv(p)'
  <2>1. invoice'[p] = invoice[p] \/ invoice'[p] = "PENDING"
    BY <1>0, <1>5 DEF CreateInvoice, SetInvoice, TypeOK
  <2>. QED
    BY <1>2, <2>1 DEF InvoiceInv
<1>6. CASE UNCHANGED invoice
  BY <1>2, <1>6
<1>. QED
  BY <1>3, <1>4, <1>5, <1>6
  DEF Next, InitiateStep, HookStep, PassDeadline, Override, StartPayment, ExpireCheck,
      Charge, Show, Resolve, Find, Record, HookDies, Notify, NotifyLost, Terminated,
      billing, vars

-----------------------------------------------------------------------------
(* A callback keeps what it has seen: a status that is resolved, a Payment *)
(* it has inserted, an invoice that is final.                              *)
LEMMA HookKept ==
  ASSUME Inv, Kept, NEW v \in Callbacks
  PROVE  /\ Status(v) \in Reported => Status(v)' = Status(v)
         /\ InvoiceOf(v) \in Final => InvoiceOf(v)' \in Final
         /\ Traced(v.transaction.order) => Traced(v.transaction.order)'
<1>1. TypeOK
  BY DEF Inv
<1>2. \A w \in Callbacks : Status(w) \in Reported => Status(w)' = Status(w)
  BY Domains DEF Kept, Status
<1>3. InvoiceOf(v) \in Final => InvoiceOf(v)' \in Final
  BY Domains DEF Kept, InvoiceOf
<1>4. Traced(v.transaction.order) => Traced(v.transaction.order)'
  BY <1>1, <1>2 DEF Kept, Traced, Reported, TypeOK
<1>. QED
  BY <1>2, <1>3, <1>4

LEMMA HookNext ==
  ASSUME Inv, [Next]_vars, NEW v \in Callbacks
  PROVE  HookInv(v)'
<1>0. /\ TypeOK /\ HookInv(v) /\ Kept
      /\ InvoiceInv(v.transaction.order)
  BY KeptNext, Domains DEF Inv
<1>1. /\ Status(v) \in Reported => Status(v)' = Status(v)
      /\ InvoiceOf(v) \in Final => InvoiceOf(v)' \in Final
      /\ Traced(v.transaction.order) => Traced(v.transaction.order)'
  BY <1>0, HookKept
<1>. USE DEF Final, Reported
(* Steps of others. *)
<1>2. ASSUME hook'[v] = hook[v], tries'[v] = tries[v], v \in payments' => v \in payments
      PROVE  HookInv(v)'
  BY <1>0, <1>1, <1>2 DEF HookInv, Kept
<1>3. ASSUME UNCHANGED <<hook, payments, tries>> PROVE HookInv(v)'
  BY <1>2, <1>3
<1>4. ASSUME NEW w \in Callbacks, w # v, Find(w) \/ HookStep(w) PROVE HookInv(v)'
  <2>1. hook'[v] = hook[v]
    BY <1>0, <1>4 DEF Find, HookStep, Record, Mark, HookError, HookDies, Notify, NotifyLost,
                      Goto, TypeOK
  <2>2. tries'[v] = tries[v]
    BY <1>0, <1>4 DEF Find, HookStep, Record, Mark, HookError, HookDies, Notify, NotifyLost,
                      billing, TypeOK
  <2>3. v \in payments' => v \in payments
    BY <1>0, <1>4 DEF Find, HookStep, Record, Mark, HookError, HookDies, Notify, NotifyLost,
                      billing, TypeOK
  <2>. QED
    BY <1>2, <2>1, <2>2, <2>3
(* Its own. *)
<1>5. CASE Find(v)
  <2>1. /\ hook[v] = "idle" /\ Status(v) \in Reported
        /\ hook'[v] = IF InvoiceOf(v) \in Final THEN "ok" ELSE "found"
        /\ UNCHANGED <<payments, tries>>
    BY <1>0, <1>5 DEF Find, Goto, billing, TypeOK
  <2>2. InvoiceOf(v) \in Final => Traced(v.transaction.order)
    BY <1>0 DEF InvoiceInv, InvoiceOf, Traced
  <2>. QED
    BY <1>0, <1>1, <2>1, <2>2 DEF HookInv
<1>6. CASE Record(v)
  BY <1>0, <1>1, <1>6 DEF Record, Goto, HookInv, TypeOK
<1>7. CASE Mark(v)
  <2>1. InvoiceOf(v)' = Status(v)
    BY <1>0, <1>7, Domains DEF Mark, SetInvoice, InvoiceOf, TypeOK
  <2>. QED
    BY <1>0, <1>1, <1>7, <2>1 DEF Mark, Goto, HookInv, TypeOK
<1>8. CASE HookError(v)
  <2>1. /\ hook[v] \in {"found", "recorded"} /\ hook'[v] = "error"
        /\ tries' = tries
    BY <1>0, <1>8 DEF HookError, Goto, TypeOK
  <2>. QED
    BY <1>0, <1>1, <2>1 DEF HookInv
<1>9. CASE HookDies(v)
  <2>1. /\ hook[v] \in {"found", "recorded", "marked"} /\ hook'[v] = "dead"
        /\ UNCHANGED <<payments, tries>>
    BY <1>0, <1>9 DEF HookDies, Goto, billing, TypeOK
  <2>. QED
    BY <1>0, <1>1, <2>1 DEF HookInv
<1>10. CASE Notify(v) \/ NotifyLost(v)
  <2>1. /\ hook[v] = "marked" /\ UNCHANGED <<payments, transaction>>
        /\ tries'[v] = tries[v] + 1 /\ hook'[v] \in {"ok", "marked"}
        /\ hook'[v] = "marked" => tries'[v] < MaxRetries
    BY <1>0, <1>10 DEF Notify, NotifyLost, Goto, TypeOK
  <2>. QED
    BY <1>0, <1>1, <2>1 DEF HookInv
<1>11. ASSUME NEW w \in Callbacks, Find(w) \/ HookStep(w) PROVE HookInv(v)'
  BY <1>4, <1>5, <1>6, <1>7, <1>8, <1>9, <1>10, <1>11 DEF HookStep
<1>12. CASE UNCHANGED <<hook, payments, tries>>
  BY <1>3, <1>12
<1>. QED
  BY <1>11, <1>12
  DEF Next, InitiateStep, CreateInvoice, PassDeadline, Override, StartPayment, ExpireCheck,
      ExpireWrite, InitiateError, Charge, Show, Resolve, Terminated, billing, vars

LEMMA InvInit == Init => Inv
<1>. SUFFICES ASSUME Init PROVE Inv
  OBVIOUS
<1>1. \A t \in Transactions : CallInv(t)
  BY DEF Init, CallInv
<1>2. \A w \in Callbacks : HookInv(w)
  BY Domains DEF Init, HookInv, Status, InvoiceOf, Reported, Final
<1>3. \A o \in Orders : InvoiceInv(o)
  BY DEF Init, InvoiceInv
<1>. QED
  BY <1>1, <1>2, <1>3, TypeInit DEF Inv

LEMMA InvNext == Inv /\ [Next]_vars => Inv'
  BY TypeNext, CallNext, HookNext, InvoiceNext DEF Inv

LEMMA Invariance == Spec => []Inv
  BY InvInit, InvNext, PTL DEF Spec

-----------------------------------------------------------------------------
(* The statuses keep to their columns, and the notification of a payment   *)
(* is tried MaxRetries times at most.                                      *)
THEOREM TypeCorrect == Spec => []TypeOK
<1>1. Inv => TypeOK
  BY DEF Inv
<1>. QED
  BY <1>1, Invariance, PTL

(* A PAID invoice has a paid transaction and the Payment that says so,     *)
(* through any number of racing, failing and repeated callbacks.           *)
THEOREM Paid == Spec => []PaidIsPaid
<1>1. Inv => PaidIsPaid
  BY DEF Inv, InvoiceInv, PaidIsPaid
<1>. QED
  BY <1>1, Invariance, PTL

(* Tripay is answered with success only for an invoice that is final. *)
THEOREM Answered == Spec => []AnsweredIsFinal
<1>1. Inv => AnsweredIsFinal
  BY DEF Inv, HookInv, AnsweredIsFinal
<1>. QED
  BY <1>1, Invariance, PTL

(* A payment that leaves no trace was second, or late. *)
THEOREM PaymentsTraced == Spec => []PaymentTraced
<1>1. Inv => PaymentTraced
  BY DEF Inv, HookInv, Traced, PaymentTraced
<1>. QED
  BY <1>1, Invariance, PTL

(* Only an expiry past the deadline overwrites PAID. *)
THEOREM PaidOverwritten == Spec => PaidStays
<1>1. ASSUME Inv, [Next]_vars, NEW o \in Orders, invoice[o] = "PAID", invoice'[o] # "PAID"
      PROVE  invoice'[o] = "EXPIRED" /\ o \in overdue
  <2>1. invoice'[o] = "EXPIRED"
    BY <1>1, KeptNext DEF Kept, Final
  <2>2. o \in overdue'
    BY <1>1, <2>1, InvoiceNext DEF InvoiceInv
  <2>3. invoice' # invoice
    BY <1>1
  <2>4. overdue' = overdue
    BY <1>1, <2>3
    DEF Next, InitiateStep, HookStep, CreateInvoice, PassDeadline, Override, StartPayment,
        ExpireCheck, ExpireWrite, InitiateError, Charge, Show, Resolve, Find, Record, Mark,
        HookError, HookDies, Notify, NotifyLost, Terminated, billing, vars
  <2>. QED
    BY <2>1, <2>2, <2>4
<1>2. Inv /\ [Next]_vars =>
        [\A o \in Orders :
            invoice[o] = "PAID" /\ invoice'[o] # "PAID" =>
               invoice'[o] = "EXPIRED" /\ o \in overdue]_vars
  BY <1>1
<1>. QED
  BY <1>2, Invariance, PTL DEF Spec, PaidStays
=============================================================================
