----------------------------- MODULE WalletProofs -----------------------------
(***************************************************************************)
(* Proofs about Wallet, for any users, calls and amounts: types, that no   *)
(* balance is overdrawn, that the ledger explains every balance, and that  *)
(* the wallet implements AtomicWallet; and about OrderCreation, which      *)
(* spends from an AtomicWallet, for any orders, users and prices.          *)
(***************************************************************************)
EXTENDS Wallet, OrderCreation, TLAPS

(* What every committed balance is computed from.                          *)
LEMMA AmountType ==
    ASSUME TypeOK, NEW c \in Calls
    PROVE  /\ request[c].user \in Users
           /\ request[c].amount \in Int
           /\ SignedAmount(c) \in Int
           /\ BalanceOf(seen[c]) \in Int
           /\ VersionOf(seen[c]) \in Nat
           /\ BalanceAfter(c) \in Int
<1>1. request[c] \in Requests /\ request[c].amount \in Int
  BY WalletAssumption DEF TypeOK, Requests
<1>2. SignedAmount(c) \in Int
  BY <1>1 DEF SignedAmount
<1>3. BalanceOf(seen[c]) \in Int /\ VersionOf(seen[c]) \in Nat
  BY DEF TypeOK, BalanceOf, VersionOf, Wallets
<1> QED
  BY <1>1, <1>2, <1>3 DEF BalanceAfter, Requests

(* A committed row and its ledger entry have the types of their tables.    *)
LEMMA CommitType ==
    ASSUME TypeOK, NEW c \in Calls, Commit(c)
    PROVE  TypeOK'
<1> DEFINE u == request[c].user
           w == [balance |-> BalanceAfter(c), version |-> VersionOf(seen[c]) + 1]
<1>1. u \in Users /\ w \in Wallets
  BY AmountType DEF Wallets
<1>2. NewEntry(c) \in Entries
  BY AmountType DEF NewEntry, Entries, TypeOK, Requests
<1>3. wallet' \in [Users -> Wallets \cup {NoWallet}]
  BY <1>1 DEF Commit, TypeOK
<1>4. ledger' \in [Users -> Seq(Entries)]
  BY <1>1, <1>2 DEF Commit, TypeOK
<1> QED
  BY <1>3, <1>4 DEF Commit, TypeOK

LEMMA TypeStep == TypeOK /\ [Next]_vars => TypeOK'
<1> SUFFICES ASSUME TypeOK, [Next]_vars PROVE TypeOK'
  OBVIOUS
<1>1. ASSUME NEW c \in Calls, RejectAmount(c) PROVE TypeOK'
  BY <1>1 DEF TypeOK, RejectAmount
<1>2. ASSUME NEW c \in Calls, Read(c) PROVE TypeOK'
  BY <1>2 DEF TypeOK, Read, Requests
<1>3. ASSUME NEW c \in Calls, RejectDebit(c) \/ Abort(c) PROVE TypeOK'
  BY <1>3 DEF TypeOK, RejectDebit, Abort
<1>4. ASSUME NEW c \in Calls, Commit(c) PROVE TypeOK'
  BY <1>4, CommitType
<1>5. ASSUME NEW u \in Users, GetOrCreateWallet(u) PROVE TypeOK'
  BY <1>5 DEF TypeOK, GetOrCreateWallet, Wallets
<1>6. CASE Terminated \/ UNCHANGED vars
  BY <1>6 DEF TypeOK, Terminated, vars
<1> QED
  BY <1>1, <1>2, <1>3, <1>4, <1>5, <1>6 DEF Next

(* The type invariant of the wallet service.                               *)
THEOREM TypeCorrect == Spec => []TypeOK
<1>1. Init => TypeOK
  BY DEF Init, TypeOK
<1> QED
  BY <1>1, TypeStep, PTL DEF Spec

-----------------------------------------------------------------------------
(* The inductive invariant behind NoOverdraft: a transaction has read a    *)
(* legal balance, and asks for a positive amount.                          *)
WalletInv ==
    /\ NoOverdraft
    /\ \A c \in Calls : BalanceOf(seen[c]) \in 0..MaxInt
    /\ \A c \in Calls : pc[c] = "read" => request[c].amount > 0

(* The balance a commit writes is legal: the debit check is made on the    *)
(* balance the new one is computed from.                                   *)
LEMMA CommitLegal ==
    ASSUME TypeOK, WalletInv, NEW c \in Calls, Commit(c)
    PROVE  BalanceAfter(c) \in 0..MaxInt
<1>1. BalanceOf(seen[c]) \in Nat /\ request[c].amount \in Int /\ MaxInt \in Nat
  BY AmountType, WalletAssumption DEF WalletInv
<1>2. BalanceAfter(c) \in Int /\ BalanceAfter(c) <= MaxInt
  BY AmountType DEF Commit
<1>3. CASE request[c].type = "CREDIT"
  <2>1. request[c].amount > 0
    BY DEF Commit, WalletInv
  <2> QED
    BY <1>1, <1>2, <1>3, <2>1 DEF BalanceAfter, SignedAmount
<1>4. CASE request[c].type = "DEBIT"
  <2>1. ~(BalanceOf(seen[c]) < request[c].amount)
    BY <1>4 DEF Commit, CannotPay
  <2> QED
    BY <1>1, <1>2, <1>4, <2>1 DEF BalanceAfter, SignedAmount
<1> QED
  BY <1>3, <1>4 DEF TypeOK, Requests

(* The row a commit writes, read back.                                     *)
LEMMA CommitRow ==
    ASSUME TypeOK, NEW c \in Calls, Commit(c)
    PROVE  /\ request[c].user \in Users
           /\ wallet'[request[c].user] # NoWallet
           /\ BalanceOf(wallet'[request[c].user]) = BalanceAfter(c)
           /\ \A v \in Users : v # request[c].user => wallet'[v] = wallet[v]
<1> DEFINE w == [balance |-> BalanceAfter(c), version |-> VersionOf(seen[c]) + 1]
<1>1. w \in Wallets /\ request[c].user \in Users
  BY AmountType DEF Wallets
<1>2. w # NoWallet
  BY <1>1, WalletAssumption
<1> QED
  BY <1>1, <1>2 DEF Commit, TypeOK, BalanceOf

LEMMA CreatedRow ==
    ASSUME TypeOK, NEW u \in Users, GetOrCreateWallet(u)
    PROVE  \A v \in Users : BalanceOf(wallet'[v]) = BalanceOf(wallet[v])
<1> DEFINE w == [balance |-> 0, version |-> 0]
<1>1. w # NoWallet
  BY WalletAssumption DEF Wallets
<1> QED
  BY <1>1 DEF GetOrCreateWallet, TypeOK, BalanceOf

(* The inductive invariant holds.                                          *)
THEOREM WalletInvariant == Spec => []WalletInv
<1>1. Init => WalletInv
  BY WalletAssumption DEF Init, WalletInv, NoOverdraft, BalanceOf
<1>2. TypeOK /\ WalletInv /\ [Next]_vars => WalletInv'
  <2> SUFFICES ASSUME TypeOK, WalletInv, [Next]_vars PROVE WalletInv'
    OBVIOUS
  <2>1. ASSUME NEW c \in Calls, Read(c) PROVE WalletInv'
    BY <2>1 DEF TypeOK, WalletInv, NoOverdraft, BalanceOf, Read, Requests
  <2>2. ASSUME NEW c \in Calls, Commit(c) PROVE WalletInv'
    <3>1. NoOverdraft'
      BY <2>2, CommitLegal, CommitRow DEF WalletInv, NoOverdraft, BalanceOf
    <3> QED
      BY <2>2, <3>1 DEF Commit, WalletInv, TypeOK
  <2>3. ASSUME NEW u \in Users, GetOrCreateWallet(u) PROVE WalletInv'
    <3>1. NoOverdraft'
      BY <2>3, CreatedRow DEF WalletInv, NoOverdraft
    <3> QED
      BY <2>3, <3>1 DEF GetOrCreateWallet, WalletInv
  <2>4. ASSUME NEW c \in Calls, RejectAmount(c) \/ RejectDebit(c) \/ Abort(c)
        PROVE  WalletInv'
    BY <2>4 DEF WalletInv, NoOverdraft, RejectAmount, RejectDebit, Abort, TypeOK
  <2>5. CASE Terminated \/ UNCHANGED vars
    BY <2>5 DEF WalletInv, NoOverdraft, Terminated, vars
  <2> QED
    BY <2>1, <2>2, <2>3, <2>4, <2>5 DEF Next
<1> QED
  BY <1>1, <1>2, TypeCorrect, PTL DEF Spec

(* No call takes a balance below zero or past the column's width.          *)
THEOREM NeverOverdrawn == Spec => []NoOverdraft
<1>1. WalletInv => NoOverdraft
  BY DEF WalletInv
<1> QED
  BY <1>1, WalletInvariant, PTL

-----------------------------------------------------------------------------
(* The ledger of each user is a chain that ends in the wallet's balance:   *)
(* concurrent calls lose no update.                                        *)
THEOREM LedgerChained == Spec => []LedgerExplainsBalance
<1>1. Init => LedgerExplainsBalance
  <2> SUFFICES ASSUME Init PROVE LedgerExplainsBalance
    OBVIOUS
  <2>1. \A u \in Users : ledger[u] = <<>> /\ BalanceOf(wallet[u]) = 0
    BY DEF Init, BalanceOf
  <2>2. Len(<<>>) = 0 /\ 1..0 = {}
    OBVIOUS
  <2> QED
    BY <2>1, <2>2 DEF LedgerExplainsBalance
<1>2. TypeOK /\ LedgerExplainsBalance /\ [Next]_vars => LedgerExplainsBalance'
  <2> SUFFICES ASSUME TypeOK, LedgerExplainsBalance, [Next]_vars
               PROVE  LedgerExplainsBalance'
    OBVIOUS
  <2>1. ASSUME NEW c \in Calls, Commit(c) PROVE LedgerExplainsBalance'
    <3> DEFINE u == request[c].user
               l == ledger[u]
               e == NewEntry(c)
    <3>1. u \in Users /\ l \in Seq(Entries) /\ ledger' = [ledger EXCEPT ![u] = Append(l, e)]
      BY <2>1, AmountType DEF Commit, TypeOK
    <3>2. /\ e.balanceBefore = BalanceOf(seen[c])
          /\ e.balanceAfter = e.balanceBefore + e.amount
          /\ e.balanceAfter = BalanceAfter(c)
      BY DEF NewEntry, BalanceAfter
    <3>3. e.balanceBefore = IF l = <<>> THEN 0 ELSE l[Len(l)].balanceAfter
      BY <2>1, <3>1, <3>2 DEF Commit, Serializable, LedgerExplainsBalance
    <3>4. ASSUME NEW v \in Users, v # u
          PROVE  ledger'[v] = ledger[v] /\ BalanceOf(wallet'[v]) = BalanceOf(wallet[v])
      BY <2>1, <3>1, <3>4, CommitRow DEF TypeOK
    <3>5. /\ ledger'[u] = Append(l, e)
          /\ Len(ledger'[u]) = Len(l) + 1
          /\ ledger'[u][Len(l) + 1] = e
          /\ \A k \in 1..Len(l) : ledger'[u][k] = l[k]
      BY <3>1 DEF TypeOK
    <3>6. BalanceOf(wallet'[u]) = e.balanceAfter
      BY <2>1, <3>2, CommitRow
    <3>7. Len(l) \in Nat /\ (l = <<>> <=> Len(l) = 0)
      BY <3>1
    <3>8. ASSUME NEW k \in 1..(Len(l) + 1)
          PROVE  /\ ledger'[u][k].balanceAfter
                      = ledger'[u][k].balanceBefore + ledger'[u][k].amount
                 /\ ledger'[u][k].balanceBefore
                      = IF k = 1 THEN 0 ELSE ledger'[u][k - 1].balanceAfter
      <4>1. CASE k \in 1..Len(l)
        <5>1. k = 1 \/ k - 1 \in 1..Len(l)
          BY <3>7, <4>1
        <5> QED
          BY <3>1, <3>5, <4>1, <5>1 DEF LedgerExplainsBalance
      <4>2. CASE k = Len(l) + 1
        <5>1. ledger'[u][k] = e
          BY <3>5, <3>7, <4>2
        <5>2. k # 1 => ledger'[u][k - 1] = l[Len(l)]
          BY <3>5, <3>7, <4>2
        <5> QED
          BY <3>2, <3>3, <3>7, <4>2, <5>1, <5>2
      <4> QED
        BY <3>7, <4>1, <4>2
    <3>9. ledger'[u] # <<>>
      BY <3>5, <3>7
    <3>10. ledger'[u][Len(ledger'[u])].balanceAfter = BalanceOf(wallet'[u])
      BY <3>5, <3>6
    <3>11. Len(ledger'[u]) = Len(l) + 1
      BY <3>5
    <3> SUFFICES ASSUME NEW v \in Users
                 PROVE  /\ \A k \in 1..Len(ledger'[v]) :
                             /\ ledger'[v][k].balanceAfter
                                  = ledger'[v][k].balanceBefore + ledger'[v][k].amount
                             /\ ledger'[v][k].balanceBefore
                                  = IF k = 1 THEN 0 ELSE ledger'[v][k - 1].balanceAfter
                        /\ BalanceOf(wallet'[v])
                              = IF ledger'[v] = <<>> THEN 0
                                ELSE ledger'[v][Len(ledger'[v])].balanceAfter
      BY DEF LedgerExplainsBalance
    <3>12. CASE v = u
      BY <3>8, <3>9, <3>10, <3>11, <3>12
    <3>13. CASE v # u
      BY <3>4, <3>13 DEF LedgerExplainsBalance
    <3> QED
      BY <3>12, <3>13
  <2>2. ASSUME NEW u \in Users, GetOrCreateWallet(u) PROVE LedgerExplainsBalance'
    BY <2>2, CreatedRow DEF LedgerExplainsBalance, GetOrCreateWallet
  <2>3. CASE UNCHANGED <<wallet, ledger>>
    BY <2>3 DEF LedgerExplainsBalance
  <2> QED
    BY <2>1, <2>2, <2>3 DEF Next, RejectAmount, Read, RejectDebit, Abort,
                            Terminated, vars
<1> QED
  BY <1>1, <1>2, TypeCorrect, PTL DEF Spec

-----------------------------------------------------------------------------
(* Every step of the wallet is a step of AtomicWallet or leaves it alone:  *)
(* concurrent transactions amount to calls made one after the other.       *)
THEOREM Refinement == Spec => ImplementsAtomicWallet
<1> DEFINE funds == [u \in Users |-> BalanceOf(wallet[u])]
           committed == {c \in Calls : pc[c] = "done"}
           asked == [c \in Calls |-> [user |-> request[c].user,
                                      delta |-> SignedAmount(c)]]
<1>1. Init => Atomic!Init
  <2> SUFFICES ASSUME Init PROVE Atomic!Init
    OBVIOUS
  <2>1. TypeOK
    BY DEF Init, TypeOK
  <2> QED
    BY <2>1, AmountType DEF Init, Atomic!Init, BalanceOf
<1>2. TypeOK /\ WalletInv /\ [Next]_vars => [Atomic!Next]_Atomic!vars
  <2> SUFFICES ASSUME TypeOK, WalletInv, [Next]_vars
               PROVE  [Atomic!Next]_Atomic!vars
    OBVIOUS
  <2>1. UNCHANGED request => asked' = asked
    BY DEF SignedAmount
  <2>2. ASSUME NEW c \in Calls, Commit(c) PROVE Atomic!Apply(c)
    <3>1. request[c].user \in Users /\ UNCHANGED request
      BY <2>2, AmountType DEF Commit
    <3>2. funds[request[c].user] = BalanceOf(seen[c])
      BY <2>2, <3>1 DEF Commit, Serializable
    <3>3. BalanceOf(seen[c]) + SignedAmount(c) >= 0
      BY <2>2, CommitLegal, AmountType, WalletAssumption DEF BalanceAfter
    <3>4. funds' = [funds EXCEPT ![request[c].user] = BalanceAfter(c)]
      BY <2>2, <3>1, CommitRow
    <3>5. c \notin committed /\ committed' = committed \cup {c}
      BY <2>2 DEF Commit, TypeOK
    <3> QED
      BY <2>1, <3>1, <3>2, <3>3, <3>4, <3>5 DEF Atomic!Apply, BalanceAfter
  <2>3. ASSUME NEW u \in Users, GetOrCreateWallet(u) PROVE UNCHANGED Atomic!vars
    <3>1. funds' = funds
      BY <2>3, CreatedRow
    <3> QED
      BY <2>1, <2>3, <3>1 DEF GetOrCreateWallet, Atomic!vars
  <2>4. ASSUME NEW c \in Calls,
               RejectAmount(c) \/ Read(c) \/ RejectDebit(c) \/ Abort(c)
        PROVE  UNCHANGED Atomic!vars
    <3>1. UNCHANGED <<wallet, request>> /\ committed' = committed
      BY <2>4 DEF RejectAmount, Read, RejectDebit, Abort, TypeOK
    <3> QED
      BY <2>1, <3>1 DEF Atomic!vars
  <2>5. CASE Terminated \/ UNCHANGED vars
    BY <2>1, <2>5 DEF Terminated, vars, Atomic!vars
  <2> QED
    BY <2>2, <2>3, <2>4, <2>5 DEF Next, Atomic!Next
<1> QED
  BY <1>1, <1>2, TypeCorrect, WalletInvariant, PTL
  DEF Spec, Atomic!Spec, ImplementsAtomicWallet

-----------------------------------------------------------------------------
(* createOrder, the caller that spends from the wallets. *)

(* Each order's row, call and deduction agree: the statements of           *)
(* createOrder come in their order, and only a deduction that billing      *)
(* executed lets an order become PROCESSING.                               *)
StepsAgree(o) ==
    /\ call[o] \in {"idle", "checked", "refused"} =>
          order[o] = "none" /\ debit[o] = "none"
    /\ call[o] = "pending" => order[o] = "PENDING" /\ debit[o] = "none"
    /\ call[o] = "deducting" => order[o] = "PENDING"
    /\ call[o] = "deducted" => order[o] = "PENDING" /\ debit[o] = "applied"
    /\ call[o] \in {"processing", "ok"} => order[o] = "PROCESSING"
    /\ order[o] = "PROCESSING" => debit[o] = "applied"

CreationInv == CreationTypeOK /\ \A o \in Orders : StepsAgree(o)

LEMMA CreationTypeInit == CreationInit => CreationTypeOK
  BY DEF CreationInit, CreationTypeOK

(* A deduction keeps the wallets well-typed, whatever its amount. *)
LEMMA DebitTypes ==
  ASSUME CreationTypeOK, NEW o \in Orders, ApplyDebit(o)
  PROVE  CreationTypeOK'
<1>1. deduction[o].user \in Customers /\ deduction[o].delta \in Int
  BY OrderAssumption DEF CreationTypeOK
<1>2. /\ balance' = [balance EXCEPT ![deduction[o].user] =
                       balance[deduction[o].user] + deduction[o].delta]
      /\ applied' = applied \cup {o}
      /\ debit' = [debit EXCEPT ![o] = "applied"]
      /\ UNCHANGED <<order, call, deduction>>
  BY DEF ApplyDebit, Billing!Apply
<1>3. balance' \in [Customers -> Int]
  BY <1>1, <1>2 DEF CreationTypeOK
<1>. QED
  BY <1>2, <1>3 DEF CreationTypeOK

LEMMA CreationTypeStep ==
  ASSUME CreationTypeOK, [CreationNext]_creationVars
  PROVE  CreationTypeOK'
<1>1. ASSUME NEW o \in Orders, CheckBalance(o) PROVE CreationTypeOK'
  BY <1>1 DEF CheckBalance, Goto, CreationTypeOK, wallets
<1>2. ASSUME NEW o \in Orders, CreateRow(o) PROVE CreationTypeOK'
  BY <1>2 DEF CreateRow, Goto, CreationTypeOK, wallets
<1>3. ASSUME NEW o \in Orders, SendDebit(o) PROVE CreationTypeOK'
  BY <1>3 DEF SendDebit, Goto, CreationTypeOK, wallets
<1>4. ASSUME NEW o \in Orders, Answered(o) PROVE CreationTypeOK'
  BY <1>4 DEF Answered, Goto, CreationTypeOK, wallets
<1>5. ASSUME NEW o \in Orders, DebitError(o) PROVE CreationTypeOK'
  BY <1>5 DEF DebitError, Goto, CreationTypeOK, wallets
<1>6. ASSUME NEW o \in Orders, ToProcessing(o) PROVE CreationTypeOK'
  BY <1>6 DEF ToProcessing, Goto, CreationTypeOK, wallets
<1>7. ASSUME NEW o \in Orders, ProcessingError(o) PROVE CreationTypeOK'
  BY <1>7 DEF ProcessingError, Goto, CreationTypeOK, wallets
<1>8. ASSUME NEW o \in Orders, Answer(o) PROVE CreationTypeOK'
  BY <1>8 DEF Answer, Goto, CreationTypeOK, wallets
<1>9. ASSUME NEW o \in Orders, MarkFailed(o) PROVE CreationTypeOK'
  BY <1>9 DEF MarkFailed, Goto, CreationTypeOK, wallets
<1>10. ASSUME NEW o \in Orders, MarkFailedError(o) PROVE CreationTypeOK'
  BY <1>10 DEF MarkFailedError, Goto, CreationTypeOK, wallets
<1>11. ASSUME NEW o \in Orders, Die(o) PROVE CreationTypeOK'
  BY <1>11 DEF Die, Goto, CreationTypeOK, wallets
<1>12. ASSUME NEW o \in Orders, ApplyDebit(o) PROVE CreationTypeOK'
  BY <1>12, DebitTypes
<1>13. ASSUME NEW o \in Orders, RefuseDebit(o) PROVE CreationTypeOK'
  BY <1>13 DEF RefuseDebit, CreationTypeOK, wallets
<1>14. ASSUME NEW o \in Orders, CreateRowError(o) PROVE CreationTypeOK'
  BY <1>14 DEF CreateRowError, Goto, CreationTypeOK, wallets
<1>15. ASSUME NEW o \in Orders, AnswerError(o) PROVE CreationTypeOK'
  BY <1>15 DEF AnswerError, Goto, CreationTypeOK, wallets
<1>16. CASE UNCHANGED creationVars
  BY <1>16 DEF creationVars, CreationTypeOK
<1>. QED
  BY <1>1, <1>2, <1>3, <1>4, <1>5, <1>6, <1>7, <1>8, <1>9, <1>10, <1>11,
     <1>12, <1>13, <1>14, <1>15, <1>16
  DEF CreationNext, Step, BillingStep, CreationTerminated

(* The row, the call and the deduction of every order keep their types, in *)
(* every state createOrder reaches.                                        *)
THEOREM OrdersTyped == CreationSpec => []CreationTypeOK
<1>. QED
  BY CreationTypeInit, CreationTypeStep, PTL DEF CreationSpec

-----------------------------------------------------------------------------
LEMMA CreationInvInit == CreationInit => CreationInv
  BY CreationTypeInit DEF CreationInit, CreationInv, StepsAgree

LEMMA CreationInvStep ==
  ASSUME CreationInv, [CreationNext]_creationVars
  PROVE  CreationInv'
<1>. SUFFICES ASSUME NEW p \in Orders PROVE StepsAgree(p)'
  BY CreationTypeStep DEF CreationInv
<1>. USE DEF CreationTypeOK, CreationInv, wallets
<1>1. ASSUME NEW o \in Orders, CheckBalance(o) PROVE StepsAgree(p)'
  BY <1>1 DEF CheckBalance, Goto, StepsAgree
<1>2. ASSUME NEW o \in Orders, CreateRow(o) PROVE StepsAgree(p)'
  BY <1>2 DEF CreateRow, Goto, StepsAgree
<1>3. ASSUME NEW o \in Orders, SendDebit(o) PROVE StepsAgree(p)'
  BY <1>3 DEF SendDebit, Goto, StepsAgree
<1>4. ASSUME NEW o \in Orders, Answered(o) PROVE StepsAgree(p)'
  BY <1>4 DEF Answered, Goto, StepsAgree
<1>5. ASSUME NEW o \in Orders, DebitError(o) PROVE StepsAgree(p)'
  BY <1>5 DEF DebitError, Goto, StepsAgree
<1>6. ASSUME NEW o \in Orders, ToProcessing(o) PROVE StepsAgree(p)'
  BY <1>6 DEF ToProcessing, Goto, StepsAgree
<1>7. ASSUME NEW o \in Orders, ProcessingError(o) PROVE StepsAgree(p)'
  BY <1>7 DEF ProcessingError, Goto, StepsAgree
<1>8. ASSUME NEW o \in Orders, Answer(o) PROVE StepsAgree(p)'
  BY <1>8 DEF Answer, Goto, StepsAgree
<1>9. ASSUME NEW o \in Orders, MarkFailed(o) PROVE StepsAgree(p)'
  BY <1>9 DEF MarkFailed, Goto, StepsAgree
<1>10. ASSUME NEW o \in Orders, MarkFailedError(o) PROVE StepsAgree(p)'
  BY <1>10 DEF MarkFailedError, Goto, StepsAgree
<1>11. ASSUME NEW o \in Orders, Die(o) PROVE StepsAgree(p)'
  BY <1>11 DEF Die, Goto, StepsAgree
<1>12. ASSUME NEW o \in Orders, ApplyDebit(o) PROVE StepsAgree(p)'
  <2>1. /\ debit[o] = "sent"
        /\ debit' = [debit EXCEPT ![o] = "applied"]
        /\ UNCHANGED <<order, call>>
    BY <1>12 DEF ApplyDebit
  <2>. QED
    BY <2>1 DEF StepsAgree
<1>13. ASSUME NEW o \in Orders, RefuseDebit(o) PROVE StepsAgree(p)'
  BY <1>13 DEF RefuseDebit, StepsAgree
<1>14. ASSUME NEW o \in Orders, CreateRowError(o) PROVE StepsAgree(p)'
  BY <1>14 DEF CreateRowError, Goto, StepsAgree
<1>15. ASSUME NEW o \in Orders, AnswerError(o) PROVE StepsAgree(p)'
  BY <1>15 DEF AnswerError, Goto, StepsAgree
<1>16. CASE UNCHANGED creationVars
  BY <1>16 DEF creationVars, StepsAgree
<1>. QED
  BY <1>1, <1>2, <1>3, <1>4, <1>5, <1>6, <1>7, <1>8, <1>9, <1>10, <1>11,
     <1>12, <1>13, <1>14, <1>15, <1>16
  DEF CreationNext, Step, BillingStep, CreationTerminated

LEMMA Agreement == CreationSpec => []CreationInv
<1>. QED
  BY CreationInvInit, CreationInvStep, PTL DEF CreationSpec

(* No order becomes PROCESSING, and none is returned to its customer,      *)
(* without a deduction that billing-service executed.                      *)
THEOREM Paid == CreationSpec => []ProcessingIsPaid
<1>1. CreationInv => ProcessingIsPaid
  BY DEF CreationInv, StepsAgree, ProcessingIsPaid
<1>. QED
  BY <1>1, Agreement, PTL

(* The order createOrder returned is PROCESSING and stays it. *)
THEOREM Returned == CreationSpec => []ReturnedIsProcessing
<1>1. CreationInv => ReturnedIsProcessing
  BY DEF CreationInv, StepsAgree, ReturnedIsProcessing
<1>. QED
  BY <1>1, Agreement, PTL

(* Money taken for an order that is not PROCESSING is money whose caller   *)
(* is still at work, was told of an error, or died.                        *)
THEOREM ChargesKnown == CreationSpec => []ChargedOrKnown
<1>1. CreationInv => ChargedOrKnown
  BY DEF CreationInv, CreationTypeOK, StepsAgree, ChargedOrKnown
<1>. QED
  BY <1>1, Agreement, PTL
=============================================================================
