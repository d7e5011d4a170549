---------------------------- MODULE DepositsProofs ----------------------------
(***************************************************************************)
(* Proofs about Deposits, for any number of deposits and callbacks: the    *)
(* wallet is credited at most once for a deposit, only once it is paid; a  *)
(* claim is never undone; and no payment is lost without a failure.        *)
(***************************************************************************)
EXTENDS Deposits, TLAPS

USE DEF Rows, Statuses, Callbacks

(* Where a row is, and what a payment and a callback presuppose.           *)
RowThere ==
    /\ \A d \in DepositIds :
          row[d] # NoRow <=> creation[d] \in {"created", "linked", "abandoned"}
    /\ \A d \in paid : creation[d] = "linked"
    /\ \A w \in Callbacks : hook[w] # "idle" => w.deposit \in paid

Processed(d) == row[d] # NoRow /\ row[d].processed

(* Writing another column of a row leaves the row there, and its claim.    *)
LEMMA ColumnWritten ==
    ASSUME TypeOK, NEW e \in DepositIds, row[e] # NoRow,
           \/ \E s \in Statuses : row' = [row EXCEPT ![e].status = s]
           \/ row' = [row EXCEPT ![e].linked = TRUE]
    PROVE  /\ row' \in [DepositIds -> Rows \cup {NoRow}]
           /\ \A d \in DepositIds :
                 (row'[d] # NoRow <=> row[d] # NoRow) /\ (Processed(d)' <=> Processed(d))
<1>1. row[e] \in Rows
  BY DEF TypeOK
<1>2. PICK r \in Rows : r.processed = row[e].processed /\ row' = [row EXCEPT ![e] = r]
  <2>1. CASE row' = [row EXCEPT ![e].linked = TRUE]
    <3> DEFINE r == [row[e] EXCEPT !.linked = TRUE]
    <3>1. r \in Rows /\ r.processed = row[e].processed
      BY <1>1
    <3>2. row' = [row EXCEPT ![e] = r]
      BY <2>1
    <3> QED
      BY <3>1, <3>2
  <2>2. ASSUME NEW s \in Statuses, row' = [row EXCEPT ![e].status = s]
        PROVE  \E r \in Rows : /\ r.processed = row[e].processed
                              /\ row' = [row EXCEPT ![e] = r]
    <3> DEFINE r == [row[e] EXCEPT !.status = s]
    <3>1. r \in Rows /\ r.processed = row[e].processed
      BY <1>1
    <3>2. row' = [row EXCEPT ![e] = r]
      BY <2>2
    <3> QED
      BY <3>1, <3>2
  <2> QED
    BY <2>1, <2>2
<1>3. r # NoRow
  BY DepositsAssumption
<1> HIDE DEF Rows
<1>4. row \in [DepositIds -> Rows \cup {NoRow}]
  BY DEF TypeOK
<1> QED
  BY <1>2, <1>3, <1>4 DEF Processed

(* A callback moves to a place of its own, and stays a callback.            *)
Places == {"idle", "found", "claimed", "failing", "ok", "error", "dead"}

LEMMA HookMoved ==
    ASSUME hook \in [Callbacks -> Places], NEW w \in Callbacks,
           NEW label \in Places, Goto(w, label)
    PROVE  /\ hook' \in [Callbacks -> Places]
           /\ hook'[w] = label
           /\ \A v \in Callbacks : v # w => hook'[v] = hook[v]
<1> HIDE DEF Callbacks
<1> QED
  BY DEF Goto

LEMMA RowThereStep ==
    ASSUME TypeOK, RowThere, [Next]_vars
    PROVE  TypeOK' /\ RowThere'
<1>0. hook \in [Callbacks -> Places]
  BY DEF TypeOK, Places
<1> USE DepositsAssumption DEF TypeOK, RowThere, Places
<1>1. ASSUME NEW d \in DepositIds, CreateRow(d) PROVE TypeOK' /\ RowThere'
  <2>1. [status |-> "PENDING", linked |-> FALSE, processed |-> FALSE] \in Rows
    OBVIOUS
  <2>2. TypeOK'
    BY <1>1, <2>1 DEF CreateRow
  <2>3. RowThere'
    <3>1. creation[d] = "idle" /\ d \notin paid
      BY <1>1 DEF CreateRow
    <3> HIDE DEF Rows, Callbacks
    <3> QED
      BY <1>1, <2>1, <3>1 DEF CreateRow
  <2> QED
    BY <2>2, <2>3
<1>2. ASSUME NEW d \in DepositIds, Link(d) PROVE TypeOK' /\ RowThere'
  <2>1. row[d] # NoRow
    BY <1>2 DEF Link
  <2>2. /\ row' \in [DepositIds -> Rows \cup {NoRow}]
        /\ \A e \in DepositIds : row'[e] # NoRow <=> row[e] # NoRow
    BY <1>2, <2>1, ColumnWritten DEF Link
  <2> HIDE DEF Rows
  <2>3. TypeOK'
    BY <1>2, <2>2 DEF Link
  <2>4. RowThere'
    BY <1>2, <2>2 DEF Link
  <2> QED
    BY <2>3, <2>4
<1>3. ASSUME NEW d \in DepositIds, Rollback(d) PROVE TypeOK' /\ RowThere'
  BY <1>3 DEF Rollback
<1>4. ASSUME NEW d \in DepositIds, Abandon(d) \/ Pay(d) PROVE TypeOK' /\ RowThere'
  <2> HIDE DEF Rows
  <2>1. CASE Abandon(d)
    BY <1>4, <2>1 DEF Abandon
  <2>2. CASE Pay(d)
    BY <1>4, <2>2 DEF Pay
  <2> QED
    BY <1>4, <2>1, <2>2
<1>5. ASSUME NEW d \in DepositIds, CancelCheck(d) PROVE TypeOK' /\ RowThere'
  BY <1>5 DEF CancelCheck
<1>6. ASSUME NEW d \in DepositIds, CancelWrite(d) \/ MarkExpired(d)
      PROVE  TypeOK' /\ RowThere'
  <2>1. /\ row' \in [DepositIds -> Rows \cup {NoRow}]
        /\ \A e \in DepositIds : row'[e] # NoRow <=> row[e] # NoRow
    <3>1. CASE row' = row
      BY <3>1
    <3>2. CASE row' # row
      BY <1>6, <3>2, ColumnWritten DEF CancelWrite, MarkExpired
    <3> QED
      BY <3>1, <3>2
  <2> HIDE DEF Rows
  <2>2. TypeOK'
    BY <1>6, <2>1 DEF CancelWrite, MarkExpired
  <2>3. RowThere'
    BY <1>6, <2>1 DEF CancelWrite, MarkExpired
  <2> QED
    BY <2>2, <2>3
<1>7. ASSUME NEW w \in Callbacks, Find(w) PROVE TypeOK' /\ RowThere'
  <2>1. /\ \E label \in Places : Goto(w, label)
        /\ w.deposit \in paid
        /\ UNCHANGED <<row, creation, paid, cancel, credits>>
    BY <1>7 DEF Find
  <2>2. hook' \in [Callbacks -> Places] /\ \A v \in Callbacks : v # w => hook'[v] = hook[v]
    BY <1>0, <2>1, HookMoved
  <2> HIDE DEF Rows, Callbacks
  <2> QED
    BY <2>1, <2>2
<1>8. ASSUME NEW w \in Callbacks, hook[w] # "idle"
      PROVE  w.deposit \in paid /\ w.deposit \in DepositIds /\ row[w.deposit] \in Rows
  BY <1>8
<1>9. ASSUME NEW w \in Callbacks, hook[w] # "idle"
      PROVE  /\ Claimed(w.deposit) \in [DepositIds -> Rows \cup {NoRow}]
             /\ \A d \in DepositIds : Claimed(w.deposit)[d] # NoRow <=> row[d] # NoRow
  <2> DEFINE r == [status |-> "PAID", linked |-> row[w.deposit].linked,
                   processed |-> TRUE]
  <2>1. r \in Rows
    BY <1>8, <1>9
  <2>2. /\ Claimed(w.deposit) = [row EXCEPT ![w.deposit] = r]
        /\ row[w.deposit] # NoRow /\ w.deposit \in DepositIds
    BY <1>8, <1>9 DEF Claimed
  <2>3. r # NoRow /\ row \in [DepositIds -> Rows \cup {NoRow}]
    BY <2>1
  <2> HIDE DEF Rows, r
  <2> QED
    BY <2>1, <2>2, <2>3
<1>10. ASSUME NEW w \in Callbacks, hook[w] # "idle", NEW label \in Places, Goto(w, label)
       PROVE  /\ hook' \in [Callbacks -> Places]
              /\ \A v \in Callbacks : hook'[v] # "idle" => v.deposit \in paid
  <2> HIDE DEF Callbacks, Places, Rows
  <2> QED
    BY <1>0, <1>8, <1>10, HookMoved
<1>11. ASSUME NEW w \in Callbacks, hook[w] # "idle", NEW label \in Places, Goto(w, label),
              row' \in [DepositIds -> Rows \cup {NoRow}],
              \A d \in DepositIds : row'[d] # NoRow <=> row[d] # NoRow,
              credits' \in [DepositIds -> Nat],
              UNCHANGED <<creation, paid, cancel>>
       PROVE  TypeOK' /\ RowThere'
  <2>1. /\ hook' \in [Callbacks -> Places]
        /\ \A v \in Callbacks : hook'[v] # "idle" => v.deposit \in paid
    BY <1>10, <1>11
  <2> HIDE DEF Rows, Callbacks
  <2> QED
    BY <1>11, <2>1
<1>12. ASSUME NEW w \in Callbacks, HookStep(w) PROVE TypeOK' /\ RowThere'
  <2>1. PICK label \in Places : Goto(w, label)
    BY <1>12 DEF HookStep, Claim, Credit, CreditError, MarkFailed, HookError, HookDies
  <2>2. /\ hook[w] # "idle" /\ w.deposit \in DepositIds
        /\ UNCHANGED <<creation, paid, cancel>>
    BY <1>12 DEF HookStep, Claim, Credit, CreditError, MarkFailed, HookError, HookDies
  <2>3. \/ row' = row
        \/ row' = Claimed(w.deposit)
        \/ row' = [row EXCEPT ![w.deposit].status = "FAILED"]
    BY <1>12 DEF HookStep, Claim, Credit, CreditError, MarkFailed, HookError, HookDies
  <2>4. row[w.deposit] # NoRow
    BY <1>8, <2>2
  <2>5. /\ row' \in [DepositIds -> Rows \cup {NoRow}]
        /\ \A d \in DepositIds : row'[d] # NoRow <=> row[d] # NoRow
    <3>1. CASE row' = row
      BY <3>1
    <3>2. CASE row' = Claimed(w.deposit)
      BY <1>9, <2>2, <3>2
    <3>3. CASE row' = [row EXCEPT ![w.deposit].status = "FAILED"]
      BY <2>2, <2>4, <3>3, ColumnWritten
    <3> QED
      BY <2>3, <3>1, <3>2, <3>3
  <2>6. credits' \in [DepositIds -> Nat]
    BY <1>12, <2>2 DEF HookStep, Claim, Credit, CreditError, MarkFailed, HookError, HookDies
  <2> HIDE DEF Rows, Callbacks, Places, TypeOK, RowThere
  <2> QED
    BY <1>11, <2>1, <2>2, <2>5, <2>6
<1>14. CASE Terminated \/ UNCHANGED vars
  <2>1. UNCHANGED <<row, creation, paid, hook, cancel, credits>>
    BY <1>14 DEF Terminated, vars
  <2> HIDE DEF Rows, Callbacks
  <2> QED
    BY <2>1
<1> HIDE DEF TypeOK, RowThere
<1> QED
  BY <1>1, <1>2, <1>3, <1>4, <1>5, <1>6, <1>7, <1>12, <1>14 DEF Next

(* The type invariant of the deposit service.                              *)
THEOREM TypeCorrect == Spec => [](TypeOK /\ RowThere)
<1>1. Init => TypeOK /\ RowThere
  BY DEF Init, TypeOK, RowThere
<1>2. TypeOK /\ RowThere /\ [Next]_vars => TypeOK' /\ RowThere'
  BY RowThereStep
<1> QED
  BY <1>1, <1>2, PTL DEF Spec
-----------------------------------------------------------------------------
Holds(w) == hook[w] = "claimed"

(* The inductive invariant behind the idempotency of processPaidDeposit:   *)
(* only a paid deposit is claimed, one callback at most holds the claim    *)
(* without having credited, and until it has, nothing is credited.  The    *)
(* last conjunct finds the callback to blame for a claim not credited.     *)
ClaimInv ==
    /\ \A d \in DepositIds : Processed(d) => d \in paid
    /\ \A w \in Callbacks : hook[w] \in {"claimed", "failing"} => Processed(w.deposit)
    /\ \A w \in Callbacks : Holds(w) => credits[w.deposit] = 0
    /\ \A v, w \in Callbacks :
          Holds(v) /\ Holds(w) /\ v.deposit = w.deposit => v = w
    /\ \A d \in DepositIds : credits[d] \in {0, 1}
    /\ \A d \in DepositIds : credits[d] = 1 => Processed(d)
    /\ \A d \in DepositIds : Processed(d) /\ credits[d] = 0 =>
          \E w \in Callbacks :
             w.deposit = d /\ hook[w] \in {"claimed", "failing", "error", "dead"}

(* Steps that neither claim nor credit leave the claims as they were.      *)
LEMMA ClaimsKept ==
    ASSUME ClaimInv, TypeOK,
           credits' = credits, hook' = hook, paid \subseteq paid',
           \A d \in DepositIds : Processed(d)' <=> Processed(d)
    PROVE  ClaimInv'
BY DEF ClaimInv, Holds, Callbacks

(* What a claim does to the rows.                                          *)
LEMMA ClaimRow ==
    ASSUME TypeOK, RowThere, NEW w \in Callbacks, hook[w] # "idle",
           row' = Claimed(w.deposit)
    PROVE  /\ w.deposit \in DepositIds /\ w.deposit \in paid
           /\ Processed(w.deposit)'
           /\ \A d \in DepositIds : d # w.deposit => (Processed(d)' <=> Processed(d))
<1>1. w.deposit \in DepositIds /\ w.deposit \in paid /\ row[w.deposit] \in Rows
  BY DEF TypeOK, RowThere
<1> DEFINE r == [status |-> "PAID", linked |-> row[w.deposit].linked,
                 processed |-> TRUE]
<1>2. r \in Rows
  BY <1>1
<1>4. r # NoRow
  BY <1>2, DepositsAssumption
<1>3. row' = [row EXCEPT ![w.deposit] = r]
  BY DEF Claimed
<1> QED
  BY <1>1, <1>2, <1>3, <1>4 DEF Processed, TypeOK

LEMMA ClaimStep ==
    ASSUME TypeOK, RowThere, ClaimInv, NEW w \in Callbacks, Claim(w)
    PROVE  ClaimInv'
<1>1. hook[w] = "found" /\ w.deposit \in paid /\ w.deposit \in DepositIds
      /\ row[w.deposit] # NoRow
  BY DEF Claim, RowThere, TypeOK
<1>2. CASE row[w.deposit].processed
  <2>1. row' = row /\ hook' = [hook EXCEPT ![w] = "ok"]
        /\ UNCHANGED <<paid, credits>>
    BY <1>2 DEF Claim, Goto
  <2>2. hook'[w] = "ok" /\ \A v \in Callbacks : v # w => hook'[v] = hook[v]
    BY <2>1 DEF TypeOK
  <2> QED
    BY <1>1, <2>1, <2>2 DEF ClaimInv, Holds, Processed
<1>3. CASE ~row[w.deposit].processed
  <2>1. row' = Claimed(w.deposit) /\ hook' = [hook EXCEPT ![w] = "claimed"]
        /\ UNCHANGED <<paid, credits>>
    BY <1>3 DEF Claim, Goto
  <2>2. ~Processed(w.deposit) /\ credits[w.deposit] = 0
    BY <1>1, <1>3 DEF ClaimInv, Processed
  <2>3. /\ Processed(w.deposit)'
        /\ \A d \in DepositIds : d # w.deposit => (Processed(d)' <=> Processed(d))
    BY <1>1, <2>1, ClaimRow
  <2>4. hook'[w] = "claimed" /\ \A v \in Callbacks : v # w => hook'[v] = hook[v]
    BY <2>1 DEF TypeOK
  <2>5. \A v \in Callbacks : v.deposit = w.deposit => ~Holds(v)
    BY <2>2 DEF ClaimInv, Holds
  <2>6. \A d \in DepositIds : Processed(d)' => d \in paid'
    BY <1>1, <2>1, <2>3 DEF ClaimInv
  <2>7. \A v \in Callbacks : v.deposit \in DepositIds
    OBVIOUS
  <2>8. \A v \in Callbacks :
           hook'[v] \in {"claimed", "failing"} => Processed(v.deposit)'
    BY <2>3, <2>4, <2>7 DEF ClaimInv
  <2>9. \A v \in Callbacks : Holds(v)' => credits'[v.deposit] = 0
    BY <2>1, <2>2, <2>4 DEF ClaimInv, Holds
  <2>10. \A u, v \in Callbacks :
            Holds(u)' /\ Holds(v)' /\ u.deposit = v.deposit => u = v
    BY <2>4, <2>5 DEF ClaimInv, Holds
  <2>11. \A d \in DepositIds : Processed(d)' /\ credits'[d] = 0 =>
            \E v \in Callbacks :
               v.deposit = d /\ hook'[v] \in {"claimed", "failing", "error", "dead"}
    BY <2>1, <2>3, <2>4 DEF ClaimInv
  <2>12. /\ \A d \in DepositIds : credits'[d] \in {0, 1}
         /\ \A d \in DepositIds : credits'[d] = 1 => Processed(d)'
    BY <2>1, <2>3 DEF ClaimInv
  <2> QED
    BY <2>6, <2>8, <2>9, <2>10, <2>11, <2>12 DEF ClaimInv
<1> QED
  BY <1>2, <1>3

(* Crediting, or failing to, ends the claim holder's turn.                 *)
LEMMA CreditStep ==
    ASSUME TypeOK, RowThere, ClaimInv, NEW w \in Callbacks,
           Credit(w) \/ CreditError(w)
    PROVE  ClaimInv'
<1>1. /\ Holds(w) /\ w.deposit \in DepositIds /\ Processed(w.deposit)
      /\ credits[w.deposit] = 0
  BY DEF Credit, CreditError, Holds, ClaimInv
<1>2. UNCHANGED <<row, paid>>
  BY DEF Credit, CreditError
<1>3. /\ hook'[w] \in {"ok", "failing"}
      /\ \A v \in Callbacks : v # w => hook'[v] = hook[v]
  BY DEF Credit, CreditError, Goto, TypeOK
<1>4. /\ credits'[w.deposit] \in {0, 1}
      /\ credits'[w.deposit] = 0 => hook'[w] = "failing"
      /\ \A d \in DepositIds : d # w.deposit => credits'[d] = credits[d]
  <2>1. CASE Credit(w)
    BY <1>1, <2>1 DEF Credit, TypeOK
  <2>2. CASE CreditError(w)
    <3>1. hook'[w] = "failing"
      BY <2>2 DEF CreditError, Goto, TypeOK
    <3>2. credits' = credits \/ credits' = [credits EXCEPT ![w.deposit] = @ + 1]
      BY <2>2 DEF CreditError
    <3> QED
      BY <1>1, <3>1, <3>2 DEF TypeOK
  <2> QED
    BY <2>1, <2>2
<1>5. \A v \in Callbacks : v # w /\ v.deposit = w.deposit => ~Holds(v)'
  BY <1>1, <1>3 DEF ClaimInv, Holds
<1>6. \A d \in DepositIds : Processed(d)' <=> Processed(d)
  BY <1>2 DEF Processed
<1>7. \A v \in Callbacks : v.deposit \in DepositIds
  OBVIOUS
<1>8. \A v \in Callbacks :
         hook'[v] \in {"claimed", "failing"} => Processed(v.deposit)'
  BY <1>1, <1>3, <1>6, <1>7 DEF ClaimInv
<1>9. \A v \in Callbacks : Holds(v)' => credits'[v.deposit] = 0
  BY <1>3, <1>4, <1>5, <1>7 DEF ClaimInv, Holds
<1>10. \A u, v \in Callbacks :
          Holds(u)' /\ Holds(v)' /\ u.deposit = v.deposit => u = v
  BY <1>3 DEF ClaimInv, Holds
<1>11. ASSUME NEW d \in DepositIds, Processed(d)', credits'[d] = 0
       PROVE  \E v \in Callbacks :
                v.deposit = d /\ hook'[v] \in {"claimed", "failing", "error", "dead"}
  <2>1. CASE d = w.deposit
    BY <1>4, <1>11, <2>1
  <2>2. CASE d # w.deposit
    BY <1>3, <1>4, <1>6, <1>11, <2>2 DEF ClaimInv
  <2> QED
    BY <2>1, <2>2
<1>12. /\ \A d \in DepositIds : Processed(d)' => d \in paid'
       /\ \A d \in DepositIds : credits'[d] \in {0, 1}
       /\ \A d \in DepositIds : credits'[d] = 1 => Processed(d)'
  BY <1>1, <1>2, <1>4, <1>6 DEF ClaimInv
<1> QED
  BY <1>8, <1>9, <1>10, <1>11, <1>12 DEF ClaimInv
(* A callback that errs or dies stays on record as the one to blame.       *)
LEMMA HookErrorStep ==
    ASSUME TypeOK, RowThere, ClaimInv, NEW w \in Callbacks, HookError(w)
    PROVE  ClaimInv'
<1>1. /\ hook[w] \in {"found", "failing"} /\ UNCHANGED <<paid, credits>>
      /\ hook'[w] = "error" /\ \A v \in Callbacks : v # w => hook'[v] = hook[v]
  BY DEF HookError, Goto, TypeOK
<1>2. CASE row' = row
  BY <1>1, <1>2 DEF ClaimInv, Holds, Processed
<1>3. CASE row' = Claimed(w.deposit) /\ ~row[w.deposit].processed
  <2>1. /\ Processed(w.deposit)' /\ w.deposit \in DepositIds /\ w.deposit \in paid
        /\ \A d \in DepositIds : d # w.deposit => (Processed(d)' <=> Processed(d))
    BY <1>1, <1>3, ClaimRow
  <2>2. \A d \in DepositIds : Processed(d) => Processed(d)'
    BY <2>1
  <2>3. \A v \in Callbacks : v.deposit \in DepositIds
    OBVIOUS
  <2>4. \A v \in Callbacks : hook'[v] \in {"claimed", "failing"} => v # w
    BY <1>1
  <2>5. \A v \in Callbacks :
           hook'[v] \in {"claimed", "failing"} => Processed(v.deposit)'
    BY <1>1, <2>2, <2>3, <2>4 DEF ClaimInv
  <2>6. \A d \in DepositIds : Processed(d)' /\ credits'[d] = 0 =>
           \E v \in Callbacks :
              v.deposit = d /\ hook'[v] \in {"claimed", "failing", "error", "dead"}
    BY <1>1, <2>1 DEF ClaimInv
  <2>7. /\ \A d \in DepositIds : Processed(d)' => d \in paid'
        /\ \A d \in DepositIds : credits'[d] \in {0, 1}
        /\ \A d \in DepositIds : credits'[d] = 1 => Processed(d)'
    BY <1>1, <2>1, <2>2 DEF ClaimInv
  <2>8. /\ \A v \in Callbacks : Holds(v)' => credits'[v.deposit] = 0
        /\ \A u, v \in Callbacks :
              Holds(u)' /\ Holds(v)' /\ u.deposit = v.deposit => u = v
    BY <1>1, <2>4 DEF ClaimInv, Holds
  <2> QED
    BY <2>5, <2>6, <2>7, <2>8 DEF ClaimInv
<1> QED
  BY <1>2, <1>3 DEF HookError

LEMMA OtherHookStep ==
    ASSUME TypeOK, RowThere, ClaimInv, NEW w \in Callbacks,
           Find(w) \/ MarkFailed(w) \/ HookDies(w)
    PROVE  ClaimInv'
<1>1. \A d \in DepositIds : Processed(d)' <=> Processed(d)
  <2>1. CASE MarkFailed(w)
    <3>1. w.deposit \in DepositIds /\ row[w.deposit] # NoRow
      BY <2>1 DEF MarkFailed, TypeOK, RowThere
    <3> QED
      BY <2>1, <3>1, ColumnWritten DEF MarkFailed
  <2>2. CASE Find(w) \/ HookDies(w)
    BY <2>2 DEF Find, HookDies, Processed
  <2> QED
    BY <2>1, <2>2
<1>2. UNCHANGED <<paid, credits>>
  BY DEF Find, MarkFailed, HookDies
<1>3. /\ hook'[w] \in {"found", "ok", "error", "dead"}
      /\ hook'[w] \in {"found", "ok"} => hook[w] = "idle"
      /\ \A v \in Callbacks : v # w => hook'[v] = hook[v]
  BY DEF Find, MarkFailed, HookDies, Goto, TypeOK
<1>4. \A v \in Callbacks : v.deposit \in DepositIds
  OBVIOUS
<1>5. \A v \in Callbacks :
         hook'[v] \in {"claimed", "failing"} => Processed(v.deposit)'
  BY <1>1, <1>3, <1>4 DEF ClaimInv
<1>6. /\ \A v \in Callbacks : Holds(v)' => credits'[v.deposit] = 0
      /\ \A u, v \in Callbacks :
            Holds(u)' /\ Holds(v)' /\ u.deposit = v.deposit => u = v
  BY <1>2, <1>3 DEF ClaimInv, Holds
<1>7. \A d \in DepositIds : Processed(d)' /\ credits'[d] = 0 =>
         \E v \in Callbacks :
            v.deposit = d /\ hook'[v] \in {"claimed", "failing", "error", "dead"}
  BY <1>1, <1>2, <1>3 DEF ClaimInv
<1>8. /\ \A d \in DepositIds : Processed(d)' => d \in paid'
      /\ \A d \in DepositIds : credits'[d] \in {0, 1}
      /\ \A d \in DepositIds : credits'[d] = 1 => Processed(d)'
  BY <1>1, <1>2 DEF ClaimInv
<1> QED
  BY <1>5, <1>6, <1>7, <1>8 DEF ClaimInv

(* The steps of createDeposit, cancelDeposit and markExpiredDeposits.      *)
LEMMA DepositStep ==
    ASSUME TypeOK, RowThere, ClaimInv, NEW d \in DepositIds,
           \/ CreateRow(d) \/ Link(d) \/ Rollback(d) \/ Abandon(d) \/ Pay(d)
           \/ CancelCheck(d) \/ CancelWrite(d) \/ MarkExpired(d)
    PROVE  ClaimInv'
<1>1. credits' = credits /\ hook' = hook /\ paid \subseteq paid'
  BY DEF CreateRow, Link, Rollback, Abandon, Pay, CancelCheck, CancelWrite, MarkExpired
<1>2. \A e \in DepositIds : e # d => row'[e] = row[e]
  BY DEF CreateRow, Link, Rollback, Abandon, Pay, CancelCheck, CancelWrite,
         MarkExpired, TypeOK
<1>3. Processed(d)' <=> Processed(d)
  <2>1. CASE CreateRow(d) \/ Rollback(d)
    <3>1. ~Processed(d)
      BY <2>1 DEF CreateRow, Rollback, ClaimInv, RowThere, Processed, TypeOK
    <3>2. ~Processed(d)'
      BY <2>1 DEF CreateRow, Rollback, Processed, TypeOK
    <3> QED
      BY <3>1, <3>2
  <2>2. CASE Link(d)
    BY <2>2, ColumnWritten DEF Link, RowThere
  <2>3. CASE (CancelWrite(d) \/ MarkExpired(d)) /\ row[d] # NoRow
    BY <2>3, ColumnWritten DEF CancelWrite, MarkExpired
  <2>4. CASE row' = row
    BY <2>4 DEF Processed
  <2> QED
    BY <2>1, <2>2, <2>3, <2>4 DEF Abandon, Pay, CancelCheck, CancelWrite, MarkExpired
<1>4. \A e \in DepositIds : Processed(e)' <=> Processed(e)
  BY <1>2, <1>3 DEF Processed
<1> QED
  BY <1>1, <1>4, ClaimsKept

(* The invariant holds of every behaviour.                                 *)
THEOREM ClaimInvariant == Spec => []ClaimInv
<1>1. Init => ClaimInv
  BY DEF Init, ClaimInv, Holds, Processed
<1>2. TypeOK /\ RowThere /\ ClaimInv /\ [Next]_vars => ClaimInv'
  <2> SUFFICES ASSUME TypeOK, RowThere, ClaimInv, [Next]_vars PROVE ClaimInv'
    OBVIOUS
  <2>1. CASE Terminated \/ UNCHANGED vars
    BY <2>1, ClaimsKept DEF Terminated, vars, Processed
  <2>2. ASSUME NEW w \in Callbacks, Find(w) \/ HookStep(w) PROVE ClaimInv'
    BY <2>2, ClaimStep, CreditStep, HookErrorStep, OtherHookStep DEF HookStep
  <2>3. ASSUME NEW d \in DepositIds,
               \/ CreateRow(d) \/ Link(d) \/ Rollback(d) \/ Abandon(d) \/ Pay(d)
               \/ CancelCheck(d) \/ CancelWrite(d) \/ MarkExpired(d)
        PROVE  ClaimInv'
    BY <2>3, DepositStep
  <2> QED
    BY <2>1, <2>2, <2>3 DEF Next
<1> QED
  BY <1>1, <1>2, TypeCorrect, PTL DEF Spec

(* The wallet is credited at most once for a deposit, and only if Tripay   *)
(* was paid, however many callbacks race, fail or die.                     *)
THEOREM CreditIdempotent == Spec => []CreditedOnce
<1>1. ClaimInv => CreditedOnce
  <2> SUFFICES ASSUME ClaimInv, NEW d \in DepositIds
               PROVE  /\ credits[d] <= 1
                      /\ credits[d] = 1 => d \in paid /\ row[d].processed
    BY DEF CreditedOnce
  <2>1. credits[d] \in {0, 1}
    BY DEF ClaimInv
  <2>2. credits[d] <= 1
    BY <2>1
  <2>3. credits[d] = 1 => d \in paid /\ row[d].processed
    BY DEF ClaimInv, Processed
  <2> QED
    BY <2>2, <2>3
<1> QED
  BY <1>1, ClaimInvariant, PTL

(* A claimed deposit that was not credited has a callback at work on it,   *)
(* or one that failed or died.                                             *)
THEOREM LossHasCulprit == Spec => []NothingLostInSilence
<1>1. ClaimInv => NothingLostInSilence
  BY DEF ClaimInv, NothingLostInSilence, Processed, InFlight, Broken
<1> QED
  BY <1>1, ClaimInvariant, PTL

LEMMA ProcessedStays ==
    ASSUME TypeOK, RowThere, ClaimInv, [Next]_vars, NEW d \in DepositIds, Processed(d)
    PROVE  Processed(d)'
<1>1. creation[d] = "linked" /\ row[d] # NoRow
  BY DEF ClaimInv, RowThere, Processed
<1>2. CASE row' = row
  BY <1>2 DEF Processed
<1>3. ASSUME NEW w \in Callbacks, HookStep(w), row' # row PROVE Processed(d)'
  <2>1. /\ hook[w] # "idle" /\ w.deposit \in DepositIds /\ row[w.deposit] # NoRow
    BY <1>3 DEF HookStep, Claim, Credit, CreditError, MarkFailed, HookError,
                HookDies, RowThere, TypeOK
  <2>2. CASE row' = Claimed(w.deposit)
    BY <2>1, <2>2, ClaimRow
  <2>3. CASE row' = [row EXCEPT ![w.deposit].status = "FAILED"]
    BY <2>1, <2>3, ColumnWritten
  <2> QED
    BY <1>3, <2>2, <2>3
    DEF HookStep, Claim, Credit, CreditError, MarkFailed, HookError, HookDies
<1>4. ASSUME NEW e \in DepositIds, CreateRow(e) \/ Rollback(e) PROVE Processed(d)'
  <2>1. e # d
    BY <1>1, <1>4 DEF CreateRow, Rollback
  <2> QED
    BY <1>4, <2>1 DEF CreateRow, Rollback, Processed, TypeOK
<1>5. ASSUME NEW e \in DepositIds, Link(e) PROVE Processed(d)'
  BY <1>5, ColumnWritten DEF Link, RowThere
<1>6. ASSUME NEW e \in DepositIds, CancelWrite(e) \/ MarkExpired(e), row' # row
      PROVE  Processed(d)'
  BY <1>6, ColumnWritten DEF CancelWrite, MarkExpired
<1> QED
  BY <1>2, <1>3, <1>4, <1>5, <1>6
  DEF Next, Abandon, Pay, CancelCheck, Find, Terminated, vars

(* A claim is final, and the row it stands in is never deleted.            *)
THEOREM ClaimKept == Spec => ClaimFinal
<1>1. TypeOK /\ RowThere /\ ClaimInv /\ [Next]_vars =>
        [\A d \in DepositIds :
            row[d] # NoRow /\ (row[d].processed \/ d \in paid) =>
               row'[d] # NoRow /\ (row[d].processed => row'[d].processed)]_vars
  <2> SUFFICES ASSUME TypeOK, RowThere, ClaimInv, [Next]_vars,
                      NEW d \in DepositIds, row[d] # NoRow,
                      row[d].processed \/ d \in paid
               PROVE  row'[d] # NoRow /\ (row[d].processed => row'[d].processed)
    OBVIOUS
  <2>1. row[d].processed => row'[d] # NoRow /\ row'[d].processed
    BY ProcessedStays DEF Processed
  <2>2. d \in paid => row'[d] # NoRow
    <3>1. TypeOK' /\ RowThere' /\ paid \subseteq paid'
      BY RowThereStep DEF Next, HookStep, CreateRow, Link, Rollback, Abandon, Pay,
           CancelCheck, CancelWrite, MarkExpired, Find, Claim, Credit, CreditError,
           MarkFailed, HookError, HookDies, Terminated, vars
    <3> QED
      BY <3>1 DEF RowThere
  <2> QED
    BY <2>1, <2>2
<1> QED
  BY <1>1, ClaimInvariant, TypeCorrect, PTL DEF Spec, ClaimFinal
-----------------------------------------------------------------------------
(* A claimed deposit is PAID, but for the two writers that come after it    *)
(* without looking: cancelDeposit, and a callback's catch block.            *)
Explained(d) ==
    \/ row[d].status = "PAID"
    \/ row[d].status = "EXPIRED" /\ cancel[d] = "done"
    \/ row[d].status = "FAILED" /\ Broken(d)

StatusInv == \A d \in DepositIds : Processed(d) => Explained(d)

(* A callback that failed or died does nothing more.                        *)
LEMMA BrokenStays ==
    ASSUME TypeOK, [Next]_vars, NEW d \in DepositIds, Broken(d)
    PROVE  Broken(d)'
<1>1. PICK v \in Callbacks : v.deposit = d /\ hook[v] \in {"error", "dead"}
  BY DEF Broken
<1>2. hook'[v] = hook[v]
  <2>1. ASSUME NEW w \in Callbacks, Find(w) \/ HookStep(w) PROVE hook'[v] = hook[v]
    <3>1. w # v /\ \E label : hook' = [hook EXCEPT ![w] = label]
      BY <1>1, <2>1 DEF Find, HookStep, Claim, Credit, CreditError, MarkFailed,
                        HookError, HookDies, Goto
    <3> QED
      BY <3>1 DEF TypeOK
  <2> QED
    BY <2>1 DEF Next, CreateRow, Link, Rollback, Abandon, Pay, CancelCheck,
                CancelWrite, MarkExpired, Terminated, vars
<1> QED
  BY <1>1, <1>2 DEF Broken

(* Where the row is left alone, its status stays explained.                 *)
LEMMA ExplainedStays ==
    ASSUME TypeOK, [Next]_vars, NEW d \in DepositIds, Explained(d),
           row'[d].status = row[d].status
    PROVE  Explained(d)'
<1>1. cancel[d] = "done" => cancel'[d] = "done"
  <2>1. ASSUME NEW e \in DepositIds, CancelCheck(e) \/ CancelWrite(e)
        PROVE  cancel[d] = "done" => cancel'[d] = "done"
    BY <2>1 DEF CancelCheck, CancelWrite, TypeOK
  <2> QED
    BY <2>1 DEF Next, HookStep, CreateRow, Link, Rollback, Abandon, Pay, MarkExpired,
                Find, Claim, Credit, CreditError, MarkFailed, HookError, HookDies,
                Terminated, vars
<1> QED
  BY <1>1, BrokenStays DEF Explained

LEMMA StatusStep ==
    ASSUME TypeOK, RowThere, ClaimInv, StatusInv, [Next]_vars,
           NEW d \in DepositIds, Processed(d)'
    PROVE  Explained(d)'
<1>1. CASE row'[d] = row[d]
  BY <1>1, ExplainedStays DEF StatusInv, Processed
<1>2. ASSUME NEW w \in Callbacks, HookStep(w), row'[d] # row[d] PROVE Explained(d)'
  <2>1. hook[w] # "idle" /\ w.deposit \in DepositIds /\ row[w.deposit] \in Rows
    BY <1>2 DEF HookStep, Claim, Credit, CreditError, MarkFailed, HookError,
                HookDies, RowThere, TypeOK
  <2>2. CASE row' = Claimed(w.deposit)
    BY <1>2, <2>1, <2>2 DEF Claimed, Explained, TypeOK
  <2>3. CASE MarkFailed(w)
    <3>1. /\ d = w.deposit /\ row'[d].status = "FAILED" /\ hook'[w] = "error"
      BY <1>2, <2>1, <2>3 DEF MarkFailed, Goto, TypeOK
    <3> QED
      BY <3>1 DEF Explained, Broken
  <2> QED
    BY <1>2, <2>2, <2>3
    DEF HookStep, Claim, Credit, CreditError, HookError, HookDies
<1>3. ASSUME NEW e \in DepositIds, row'[d] # row[d],
             \/ CreateRow(e) \/ Link(e) \/ Rollback(e) \/ CancelWrite(e) \/ MarkExpired(e)
      PROVE  Explained(d)'
  <2>1. e = d
    BY <1>3 DEF CreateRow, Link, Rollback, CancelWrite, MarkExpired, TypeOK
  <2>2. CASE CreateRow(d) \/ Rollback(d)
    BY <2>2 DEF CreateRow, Rollback, Processed, TypeOK
  <2>3. CASE Link(d)
    <3>1. row[d] # NoRow
      BY <2>3 DEF Link, RowThere
    <3>2. row[d] \in Rows
      BY <3>1 DEF TypeOK
    <3>3. Processed(d)
      BY <2>3, <3>1, ColumnWritten DEF Link
    <3>4. row'[d].status = row[d].status
      BY <2>3, <3>2 DEF Link, TypeOK
    <3> QED
      BY <3>3, <3>4, ExplainedStays DEF StatusInv
  <2>4. CASE CancelWrite(d)
    <3>1. row[d] \in Rows /\ row' = [row EXCEPT ![d].status = "EXPIRED"]
      BY <1>3, <2>4 DEF CancelWrite, TypeOK
    <3> QED
      BY <2>4, <3>1 DEF CancelWrite, Explained, TypeOK
  <2>5. CASE MarkExpired(d)
    <3>1. Processed(d)
      BY <2>5, ColumnWritten DEF MarkExpired
    <3> QED
      BY <2>5, <3>1 DEF MarkExpired, StatusInv, Explained
  <2> QED
    BY <1>3, <2>1, <2>2, <2>3, <2>4, <2>5
<1> QED
  BY <1>1, <1>2, <1>3
  DEF Next, Abandon, Pay, CancelCheck, Find, Terminated, vars

(* A credited deposit is shown as PAID once its callbacks are over, unless  *)
(* a cancellation or a failed callback wrote its status last.               *)
THEOREM CreditShown == Spec => []CreditedLooksPaid
<1>1. Init => StatusInv
  BY DEF Init, StatusInv, Processed
<1>2. TypeOK /\ RowThere /\ ClaimInv /\ StatusInv /\ [Next]_vars => StatusInv'
  BY StatusStep DEF StatusInv
<1>3. ClaimInv /\ StatusInv => CreditedLooksPaid
  BY DEF ClaimInv, StatusInv, Explained, CreditedLooksPaid
<1> QED
  BY <1>1, <1>2, <1>3, TypeCorrect, ClaimInvariant, PTL DEF Spec

-----------------------------------------------------------------------------
(* Deposits implements AtomicDeposit.  What the abstraction sees of a step: *)
(* which rows there are, and which are claimed.                             *)
RowSet == {d \in DepositIds : row[d] # NoRow}

ClaimedSet == {d \in DepositIds : row[d] # NoRow /\ row[d].processed}

LEMMA Unseen ==
    ASSUME UNCHANGED <<paid, credits>>,
           \A d \in DepositIds :
              (row'[d] # NoRow <=> row[d] # NoRow) /\ (Processed(d)' <=> Processed(d))
    PROVE  UNCHANGED Promise!vars
<1>1. RowSet' = RowSet /\ ClaimedSet' = ClaimedSet
  BY DEF RowSet, ClaimedSet, Processed
<1> QED
  BY <1>1 DEF Promise!vars, RowSet, ClaimedSet

(* A claim takes the deposit into ClaimedSet, from among the paid ones.     *)
LEMMA ClaimSeen ==
    ASSUME TypeOK, RowThere, NEW w \in Callbacks, hook[w] # "idle",
           row' = Claimed(w.deposit), ~row[w.deposit].processed,
           UNCHANGED <<paid, credits>>
    PROVE  Promise!Next
<1>1. /\ w.deposit \in DepositIds /\ w.deposit \in paid /\ row[w.deposit] # NoRow
      /\ Processed(w.deposit)'
      /\ \A d \in DepositIds : d # w.deposit => (Processed(d)' <=> Processed(d))
  BY ClaimRow DEF RowThere, TypeOK
<1>2. RowSet' = RowSet
  <2>1. \A d \in DepositIds : d # w.deposit => row'[d] = row[d]
    BY <1>1 DEF Claimed, TypeOK
  <2> QED
    BY <1>1, <2>1 DEF RowSet, Processed
<1>3. ClaimedSet' = ClaimedSet \cup {w.deposit}
  BY <1>1 DEF ClaimedSet, Processed
<1>4. w.deposit \in (RowSet \cap paid) \ ClaimedSet
  BY <1>1 DEF RowSet, ClaimedSet
<1>5. Promise!Claim(w.deposit)
  BY <1>2, <1>3, <1>4 DEF Promise!Claim, RowSet, ClaimedSet
<1> QED
  BY <1>1, <1>5 DEF Promise!Next

LEMMA CreditSeen ==
    ASSUME TypeOK, ClaimInv, NEW w \in Callbacks, Credit(w) \/ CreditError(w)
    PROVE  [Promise!Next]_(Promise!vars)
<1>1. /\ w.deposit \in DepositIds /\ Processed(w.deposit) /\ credits[w.deposit] = 0
      /\ UNCHANGED <<row, paid>>
  BY DEF Credit, CreditError, ClaimInv, Holds
<1>2. CASE credits' = credits
  BY <1>1, <1>2, Unseen DEF Processed
<1>3. CASE credits' = [credits EXCEPT ![w.deposit] = credits[w.deposit] + 1]
  <2>1. Promise!Credit(w.deposit)
    BY <1>1, <1>3 DEF Promise!Credit, Processed
  <2> QED
    BY <1>1, <2>1 DEF Promise!Next
<1> QED
  BY <1>2, <1>3 DEF Credit, CreditError

LEMMA RefinementStep ==
    ASSUME TypeOK, RowThere, ClaimInv, [Next]_vars
    PROVE  [Promise!Next]_(Promise!vars)
<1>1. ASSUME NEW d \in DepositIds, CreateRow(d) PROVE Promise!Next
  <2>1. /\ row[d] = NoRow /\ UNCHANGED <<paid, credits>>
        /\ row' = [row EXCEPT ![d] =
                     [status |-> "PENDING", linked |-> FALSE, processed |-> FALSE]]
    BY <1>1 DEF CreateRow, RowThere
  <2>2. [status |-> "PENDING", linked |-> FALSE, processed |-> FALSE] # NoRow
    <3>1. [status |-> "PENDING", linked |-> FALSE, processed |-> FALSE] \in Rows
      OBVIOUS
    <3> HIDE DEF Rows
    <3> QED
      BY <3>1, DepositsAssumption
  <2>3. RowSet' = RowSet \cup {d} /\ ClaimedSet' = ClaimedSet
    BY <2>1, <2>2 DEF RowSet, ClaimedSet, TypeOK
  <2>4. Promise!Create(d)
    BY <2>1, <2>3 DEF Promise!Create, RowSet, ClaimedSet
  <2> QED
    BY <2>4 DEF Promise!Next
<1>2. ASSUME NEW d \in DepositIds, Rollback(d) PROVE Promise!Next
  <2>1. /\ row[d] # NoRow /\ d \notin paid /\ ~Processed(d)
        /\ UNCHANGED <<paid, credits>> /\ row' = [row EXCEPT ![d] = NoRow]
    BY <1>2 DEF Rollback, RowThere, ClaimInv
  <2>2. RowSet' = RowSet \ {d} /\ ClaimedSet' = ClaimedSet
    BY <2>1 DEF RowSet, ClaimedSet, TypeOK, Processed
  <2>3. Promise!Remove(d)
    BY <2>1, <2>2 DEF Promise!Remove, RowSet, ClaimedSet, Processed
  <2> QED
    BY <2>3 DEF Promise!Next
<1>3. ASSUME NEW d \in DepositIds, Pay(d) PROVE Promise!Next
  <2>1. Promise!Pay(d)
    BY <1>3 DEF Pay, RowThere, Promise!Pay
  <2> QED
    BY <2>1 DEF Promise!Next
<1>4. ASSUME NEW d \in DepositIds,
             \/ Link(d) \/ Abandon(d) \/ CancelCheck(d) \/ CancelWrite(d) \/ MarkExpired(d)
      PROVE  UNCHANGED Promise!vars
  <2>1. UNCHANGED <<paid, credits>>
    BY <1>4 DEF Link, Abandon, CancelCheck, CancelWrite, MarkExpired
  <2>2. \/ row' = row
        \/ /\ row[d] # NoRow
           /\ \/ \E s \in Statuses : row' = [row EXCEPT ![d].status = s]
              \/ row' = [row EXCEPT ![d].linked = TRUE]
    BY <1>4 DEF Link, Abandon, CancelCheck, CancelWrite, MarkExpired, RowThere
  <2> QED
    BY <2>1, <2>2, ColumnWritten, Unseen DEF Processed
<1>5. ASSUME NEW w \in Callbacks, Claim(w) \/ HookError(w)
      PROVE  [Promise!Next]_(Promise!vars)
  <2>1. UNCHANGED <<paid, credits>> /\ hook[w] # "idle"
    BY <1>5 DEF Claim, HookError
  <2>2. CASE row' = row
    BY <2>1, <2>2, Unseen DEF Processed
  <2>3. CASE row' = Claimed(w.deposit) /\ ~row[w.deposit].processed
    BY <2>1, <2>3, ClaimSeen
  <2> QED
    BY <1>5, <2>2, <2>3 DEF Claim, HookError
<1>6. ASSUME NEW w \in Callbacks, Find(w) \/ MarkFailed(w) \/ HookDies(w)
      PROVE  UNCHANGED Promise!vars
  <2>1. UNCHANGED <<paid, credits>>
    BY <1>6 DEF Find, MarkFailed, HookDies
  <2>2. CASE row' = row
    BY <2>1, <2>2, Unseen DEF Processed
  <2>3. CASE MarkFailed(w)
    <3>1. w.deposit \in DepositIds /\ row[w.deposit] # NoRow
      BY <2>3 DEF MarkFailed, RowThere
    <3>2. row' = [row EXCEPT ![w.deposit].status = "FAILED"] /\ "FAILED" \in Statuses
      BY <2>3 DEF MarkFailed
    <3> QED
      BY <2>1, <3>1, <3>2, ColumnWritten, Unseen
  <2> QED
    BY <1>6, <2>2, <2>3 DEF Find, HookDies
<1>7. CASE Terminated \/ UNCHANGED vars
  BY <1>7, Unseen DEF Terminated, vars, Processed
<1> QED
  BY <1>1, <1>2, <1>3, <1>4, <1>5, <1>6, <1>7, CreditSeen DEF Next, HookStep

(* Deposits, with all its callbacks, cancellations and failures, goes       *)
(* through payment, claim and credit one after the other and once.          *)
THEOREM Refinement == Spec => ImplementsAtomicDeposit
<1>1. Init => Promise!Init
  BY DEF Init, Promise!Init
<1>2. TypeOK /\ RowThere /\ ClaimInv /\ [Next]_vars => [Promise!Next]_(Promise!vars)
  BY RefinementStep
<1> QED
  BY <1>1, <1>2, TypeCorrect, ClaimInvariant, PTL
  DEF Spec, Promise!Spec, ImplementsAtomicDeposit
=============================================================================
