-------------------------- MODULE WelcomeBonusProofs --------------------------
(***************************************************************************)
(* Proofs about WelcomeBonus, for any number of claims, users and promos,  *)
(* and any limits.                                                         *)
(***************************************************************************)
EXTENDS WelcomeBonus, FiniteSetTheorems, TLAPS

USE WelcomeBonusAssumption, NoneAssumption

(* The steps of one claim come in their order: what it has found, what has *)
(* been credited and what is recorded agree with how far it has come.      *)
Agree(c) ==
    /\ claim[c] \in UnderWay \cup {"done", "broken"} => found[c] \in Promos
    /\ claim[c] \in {"idle", "refused", "eligible"} => c \notin applied
    /\ claim[c] \in {"credited", "done"} => c \in applied
    /\ claim[c] \in {"idle", "refused", "eligible", "credited"} => c \notin redeemed
    /\ claim[c] = "done" => c \in redeemed
    /\ c \in redeemed => c \in applied /\ found[c] \in Promos /\ Exists(found[c])

Passed == UnderWay \cup {"done"}

(* Two claims of one user that have passed the check of one promo were     *)
(* under way together, unless one of them broke.                           *)
Apart(c, d) ==
    /\ c # d
    /\ Claimant(c) = Claimant(d)
    /\ found[c] = found[d]
    /\ claim[c] \in Passed
    /\ claim[d] \in Passed
    => {c, d} \in overlaps

Counted(p) == Exists(p) => promo[p].currentUses = Cardinality(Redeemers(p))

Inv ==
    /\ TypeOK
    /\ \A c \in Claims : Agree(c)
    /\ \A c, d \in Claims : Apart(c, d)
    /\ IsFiniteSet(redeemed)
    /\ \A p \in Promos : Counted(p)

-----------------------------------------------------------------------------
(* What Credit, Record and Break do to one claim. *)

LEMMA ApplyEffect ==
  ASSUME TypeOK, NEW c \in Claims, Billing!Apply(c)
  PROVE  /\ applied' = applied \cup {c}
         /\ balance' \in [Users -> Int]
         /\ request' = request
<1>1. request[c].user \in Users /\ request[c].delta \in Int
  BY DEF TypeOK
<1>2. balance' = [balance EXCEPT ![request[c].user] =
                    balance[request[c].user] + request[c].delta]
  BY DEF Billing!Apply
<1>. QED
  BY <1>1, <1>2 DEF TypeOK, Billing!Apply

LEMMA RedeemEffect ==
  ASSUME TypeOK, NEW c \in Claims, found[c] \in Promos, Exists(found[c]), Redeem(c)
  PROVE  /\ promo' \in [Promos -> Rows \cup {None}]
         /\ \A p \in Promos : p # found[c] => promo'[p] = promo[p]
         /\ promo'[found[c]].currentUses = promo[found[c]].currentUses + 1
         /\ \A p \in Promos : (promo'[p] # None) <=> (promo[p] # None)
         /\ redeemed' = redeemed \cup {c}
<1>. DEFINE q == found[c]
<1>1. promo[q] \in Rows
  BY DEF TypeOK, Exists
<1>2. promo' = [promo EXCEPT ![q] = [promo[q] EXCEPT !.currentUses = @ + 1]]
  BY DEF Redeem
<1>3. [promo[q] EXCEPT !.currentUses = @ + 1] \in Rows
  BY <1>1 DEF Rows
<1>4. [promo[q] EXCEPT !.currentUses = @ + 1] # None
  BY <1>3
<1>5. promo'[q] = [promo[q] EXCEPT !.currentUses = @ + 1]
  BY <1>2 DEF TypeOK
<1>6. [promo[q] EXCEPT !.currentUses = @ + 1].currentUses = promo[q].currentUses + 1
  BY <1>1 DEF Rows
<1>. HIDE DEF q
<1>7. promo' \in [Promos -> Rows \cup {None}]
  BY <1>2, <1>3 DEF TypeOK
<1>8. \A p \in Promos : p # q => promo'[p] = promo[p]
  BY <1>2 DEF TypeOK
<1>9. \A p \in Promos : (promo'[p] # None) <=> (promo[p] # None)
  BY <1>1, <1>4, <1>5, <1>8
<1>10. redeemed' = redeemed \cup {c}
  BY DEF Redeem
<1>. QED
  BY <1>5, <1>6, <1>7, <1>8, <1>9, <1>10 DEF q

-----------------------------------------------------------------------------
LEMMA TypeInit == Init => TypeOK
  BY DEF Init, TypeOK, Rows, UnderWay

LEMMA TypeNext ==
  ASSUME Inv, [Next]_vars
  PROVE  TypeOK'
<1>. USE DEF UnderWay
<1>0. TypeOK /\ \A c \in Claims : Agree(c)
  BY DEF Inv
<1>1. ASSUME NEW c \in Claims, Check(c) PROVE TypeOK'
  <2>1. overlaps' \subseteq SUBSET Claims
    BY <1>0, <1>1 DEF Check, TypeOK
  <2>. QED
    BY <1>0, <1>1, <2>1 DEF Check, Goto, TypeOK, admin, wallets
<1>2. ASSUME NEW c \in Claims, NoneActive(c) PROVE TypeOK'
  BY <1>0, <1>2 DEF NoneActive, Goto, TypeOK, admin, wallets
<1>3. ASSUME NEW c \in Claims, Credit(c) PROVE TypeOK'
  <2>1. /\ applied' = applied \cup {c}
        /\ balance' \in [Users -> Int]
        /\ request' = request
    BY <1>0, <1>3, ApplyEffect DEF Credit
  <2>. QED
    BY <1>0, <1>3, <2>1 DEF Credit, Goto, TypeOK, admin
<1>4. ASSUME NEW c \in Claims, Record(c) PROVE TypeOK'
  <2>1. found[c] \in Promos
    BY <1>0, <1>4 DEF Record, Agree
  <2>2. promo' \in [Promos -> Rows \cup {None}] /\ redeemed' = redeemed \cup {c}
    BY <1>0, <1>4, <2>1, RedeemEffect DEF Record
  <2>. QED
    BY <1>0, <1>4, <2>2 DEF Record, Goto, TypeOK, admin, wallets
<1>5. ASSUME NEW c \in Claims, Break(c) PROVE TypeOK'
  <2>1. CASE claim[c] = "eligible" /\ Billing!Apply(c) /\ UNCHANGED <<promo, redeemed>>
    <3>1. /\ applied' = applied \cup {c}
          /\ balance' \in [Users -> Int]
          /\ request' = request
      BY <1>0, <2>1, ApplyEffect
    <3>. QED
      BY <1>0, <1>5, <2>1, <3>1 DEF Break, Goto, TypeOK, admin
  <2>2. CASE claim[c] = "credited" /\ Exists(found[c]) /\ Redeem(c) /\ UNCHANGED wallets
    <3>1. found[c] \in Promos
      BY <1>0, <2>2 DEF Agree
    <3>2. promo' \in [Promos -> Rows \cup {None}] /\ redeemed' = redeemed \cup {c}
      BY <1>0, <2>2, <3>1, RedeemEffect
    <3>. QED
      BY <1>0, <1>5, <2>2, <3>2 DEF Break, Goto, TypeOK, admin, wallets
  <2>3. CASE claim[c] \in UnderWay /\ UNCHANGED <<promo, redeemed, wallets>>
    BY <1>0, <1>5, <2>3 DEF Break, Goto, TypeOK, admin, wallets
  <2>. QED
    BY <1>5, <2>1, <2>2, <2>3 DEF Break
<1>6. ASSUME NEW p \in Promos, SetActive(p) PROVE TypeOK'
  <2>1. promo[p] \in Rows
    BY <1>0, <1>6 DEF SetActive, Exists, TypeOK
  <2>2. [promo[p] EXCEPT !.active = ~@] \in Rows
    BY <2>1 DEF Rows
  <2>3. promo' = [promo EXCEPT ![p] = [promo[p] EXCEPT !.active = ~@]]
    BY <1>6 DEF SetActive
  <2>4. promo' \in [Promos -> Rows \cup {None}]
    BY <1>0, <2>2, <2>3 DEF TypeOK
  <2>. QED
    BY <1>0, <1>6, <2>4 DEF SetActive, Change, TypeOK, wallets
<1>7. ASSUME NEW p \in Promos, DeleteCount(p) PROVE TypeOK'
  <2>1. promo[p] \in Rows
    BY <1>0, <1>7 DEF DeleteCount, Exists, TypeOK
  <2>2. [promo[p] EXCEPT !.active = FALSE] \in Rows
    BY <2>1 DEF Rows
  <2>3. promo' = promo \/ promo' = [promo EXCEPT ![p] = [promo[p] EXCEPT !.active = FALSE]]
    BY <1>7 DEF DeleteCount
  <2>4. promo' \in [Promos -> Rows \cup {None}]
    BY <1>0, <2>2, <2>3 DEF TypeOK
  <2>. QED
    BY <1>0, <1>7, <2>4 DEF DeleteCount, Change, TypeOK, wallets
<1>8. ASSUME NEW p \in Promos, Delete(p) PROVE TypeOK'
  <2>1. promo' \in [Promos -> Rows \cup {None}]
    BY <1>0, <1>8 DEF Delete, TypeOK
  <2>. QED
    BY <1>0, <1>8, <2>1 DEF Delete, TypeOK, wallets
<1>9. CASE UNCHANGED vars
  BY <1>0, <1>9 DEF vars, TypeOK
<1>. QED
  BY <1>1, <1>2, <1>3, <1>4, <1>5, <1>6, <1>7, <1>8, <1>9 DEF Next, Terminated

-----------------------------------------------------------------------------
(* The steps that change the promos or the redemptions, seen from one      *)
(* claim and one promo; all the others leave Agree and Counted to the      *)
(* progress of the claim that makes them.                                  *)

LEMMA AgreeNext ==
  ASSUME Inv, [Next]_vars, NEW d \in Claims
  PROVE  Agree(d)'
<1>. USE DEF UnderWay
<1>0. TypeOK /\ Agree(d) /\ \A c \in Claims : Agree(c)
  BY DEF Inv
<1>1. ASSUME NEW c \in Claims, Check(c) PROVE Agree(d)'
  BY <1>0, <1>1 DEF Check, Goto, Agree, Exists, TypeOK, wallets
<1>2. ASSUME NEW c \in Claims, NoneActive(c) PROVE Agree(d)'
  BY <1>0, <1>2 DEF NoneActive, Goto, Agree, Exists, TypeOK, wallets
<1>3. ASSUME NEW c \in Claims, Credit(c) PROVE Agree(d)'
  <2>1. applied' = applied \cup {c}
    BY <1>0, <1>3, ApplyEffect DEF Credit
  <2>. QED
    BY <1>0, <1>3, <2>1 DEF Credit, Goto, Agree, Exists, TypeOK
<1>4. ASSUME NEW c \in Claims, claim[c] = "credited", Exists(found[c]), Redeem(c),
             NEW l \in {"done", "broken"}, Goto(c, l),
             UNCHANGED <<found, wallets>>
      PROVE  Agree(d)'
  <2>1. found[c] \in Promos
    BY <1>0, <1>4 DEF Agree
  <2>2. /\ \A p \in Promos : (promo'[p] # None) <=> (promo[p] # None)
        /\ redeemed' = redeemed \cup {c}
    BY <1>0, <1>4, <2>1, RedeemEffect
  <2>. QED
    BY <1>0, <1>4, <2>1, <2>2 DEF Goto, Agree, Exists, TypeOK, wallets
<1>5. ASSUME NEW c \in Claims, Record(c) PROVE Agree(d)'
  BY <1>4, <1>5 DEF Record
<1>6. ASSUME NEW c \in Claims, Break(c) PROVE Agree(d)'
  <2>1. CASE claim[c] = "eligible" /\ Billing!Apply(c) /\ UNCHANGED <<promo, redeemed>>
    <3>1. applied' = applied \cup {c}
      BY <1>0, <2>1, ApplyEffect
    <3>. QED
      BY <1>0, <1>6, <2>1, <3>1 DEF Break, Goto, Agree, Exists, TypeOK
  <2>2. CASE claim[c] = "credited" /\ Exists(found[c]) /\ Redeem(c) /\ UNCHANGED wallets
    BY <1>4, <1>6, <2>2 DEF Break
  <2>3. CASE claim[c] \in UnderWay /\ UNCHANGED <<promo, redeemed, wallets>>
    BY <1>0, <1>6, <2>3 DEF Break, Goto, Agree, Exists, TypeOK, wallets
  <2>. QED
    BY <1>6, <2>1, <2>2, <2>3 DEF Break
<1>7. ASSUME NEW p \in Promos, SetActive(p) \/ DeleteCount(p) PROVE Agree(d)'
  <2>1. promo[p] \in Rows
    BY <1>0, <1>7 DEF SetActive, DeleteCount, Exists, TypeOK
  <2>2. /\ [promo[p] EXCEPT !.active = ~@] # None
        /\ [promo[p] EXCEPT !.active = FALSE] # None
    <3>1. /\ [promo[p] EXCEPT !.active = ~@] \in Rows
          /\ [promo[p] EXCEPT !.active = FALSE] \in Rows
      BY <2>1 DEF Rows
    <3>. QED
      BY <3>1
  <2>3. \/ promo' = promo
        \/ promo' = [promo EXCEPT ![p] = [promo[p] EXCEPT !.active = ~@]]
        \/ promo' = [promo EXCEPT ![p] = [promo[p] EXCEPT !.active = FALSE]]
    BY <1>7 DEF SetActive, DeleteCount
  <2>4. \A q \in Promos : promo[q] # None => promo'[q] # None
    BY <1>0, <2>2, <2>3 DEF TypeOK
  <2>. QED
    BY <1>0, <1>7, <2>4 DEF SetActive, DeleteCount, Agree, Exists, wallets
<1>8. ASSUME NEW p \in Promos, Delete(p) PROVE Agree(d)'
  <2>1. \A q \in Promos : promo[q] # None /\ promo'[q] = None => q = p /\ Redeemers(p) = {}
    BY <1>0, <1>8 DEF Delete, TypeOK
  <2>. QED
    BY <1>0, <1>8, <2>1 DEF Delete, Redeemers, Agree, Exists, wallets
<1>9. CASE UNCHANGED vars
  BY <1>0, <1>9 DEF vars, Agree, Exists
<1>. QED
  BY <1>1, <1>2, <1>3, <1>5, <1>6, <1>7, <1>8, <1>9 DEF Next, Terminated

(* Only a check lets a claim pass, and it looks at the others. *)
LEMMA ApartNext ==
  ASSUME Inv, [Next]_vars, NEW c \in Claims, NEW d \in Claims
  PROVE  Apart(c, d)'
<1>. USE DEF UnderWay, Passed
<1>0. /\ TypeOK
      /\ Agree(c) /\ Agree(d)
      /\ Apart(c, d)
  BY DEF Inv
<1>1. ASSUME NEW e \in Claims, Check(e) PROVE Apart(c, d)'
  <2>. SUFFICES ASSUME c # d, Claimant(c) = Claimant(d), found'[c] = found'[d],
                       claim'[c] \in Passed, claim'[d] \in Passed,
                       e \in {c, d}
                PROVE  {c, d} \in overlaps'
    BY <1>0, <1>1 DEF Check, Goto, Apart, Claimant, TypeOK, wallets
  <2>. PICK p \in Promos : /\ found' = [found EXCEPT ![e] = p]
                           /\ Goto(e, IF Eligible(e, p) THEN "eligible" ELSE "refused")
    BY <1>1 DEF Check
  <2>1. PICK f \in {c, d} : f # e
    OBVIOUS
  <2>2. {e, f} = {c, d}
    BY <2>1
  <2>3. claim[f] \in Passed /\ found[f] = p /\ Claimant(e) = Claimant(f)
    BY <1>0, <2>1 DEF Goto, TypeOK
  <2>4. Eligible(e, p)
    BY <1>0 DEF Goto, TypeOK
  <2>5. f \notin redeemed
    BY <2>3, <2>4 DEF Eligible, RedeemedBy
  <2>6. claim[f] \in {"eligible", "credited"}
    BY <1>0, <2>1, <2>3, <2>5 DEF Agree
  <2>. QED
    BY <1>1, <2>1, <2>2, <2>6 DEF Check
<1>2. ASSUME NEW e \in Claims, Credit(e) PROVE Apart(c, d)'
  <2>1. request' = request
    BY <1>0, <1>2, ApplyEffect DEF Credit
  <2>. QED
    BY <1>0, <1>2, <2>1 DEF Credit, Goto, Apart, Claimant, TypeOK
<1>3. ASSUME NEW e \in Claims, Break(e) PROVE Apart(c, d)'
  <2>1. request' = request
    BY <1>0, <1>3, ApplyEffect DEF Break, wallets
  <2>. QED
    BY <1>0, <1>3, <2>1 DEF Break, Goto, Apart, Claimant, TypeOK
<1>4. ASSUME NEW e \in Claims, NoneActive(e) \/ Record(e) PROVE Apart(c, d)'
  BY <1>0, <1>4 DEF NoneActive, Record, Goto, Apart, Claimant, TypeOK, wallets
<1>5. ASSUME NEW p \in Promos, SetActive(p) \/ DeleteCount(p) \/ Delete(p)
      PROVE  Apart(c, d)'
  BY <1>0, <1>5 DEF SetActive, DeleteCount, Delete, Apart, Claimant, wallets
<1>6. CASE UNCHANGED vars
  BY <1>0, <1>6 DEF vars, Apart, Claimant
<1>. QED
  BY <1>1, <1>2, <1>3, <1>4, <1>5, <1>6 DEF Next, Terminated

-----------------------------------------------------------------------------
(* The redemptions of a promo change with the claim that is recorded. *)
LEMMA RecordCounts ==
  ASSUME Inv, NEW c \in Claims, claim[c] = "credited", Exists(found[c]), Redeem(c),
         found' = found
  PROVE  /\ IsFiniteSet(redeemed)'
         /\ \A p \in Promos : Counted(p)'
<1>1. TypeOK /\ Agree(c) /\ IsFiniteSet(redeemed) /\ \A p \in Promos : Counted(p)
  BY DEF Inv
<1>2. found[c] \in Promos /\ c \notin redeemed
  BY <1>1 DEF Agree, UnderWay
<1>3. /\ \A p \in Promos : p # found[c] => promo'[p] = promo[p]
      /\ promo'[found[c]].currentUses = promo[found[c]].currentUses + 1
      /\ \A p \in Promos : (promo'[p] # None) <=> (promo[p] # None)
      /\ redeemed' = redeemed \cup {c}
  BY <1>1, <1>2, RedeemEffect
<1>4. IsFiniteSet(redeemed)'
  BY <1>1, <1>3, FS_AddElement
<1>5. ASSUME NEW p \in Promos PROVE Counted(p)'
  <2>1. CASE p = found[c]
    <3>1. IsFiniteSet(Redeemers(p))
      BY <1>1, FS_Subset DEF Redeemers
    <3>2. Redeemers(p)' = Redeemers(p) \cup {c} /\ c \notin Redeemers(p)
      BY <1>2, <1>3, <2>1 DEF Redeemers
    <3>3. Cardinality(Redeemers(p)') = Cardinality(Redeemers(p)) + 1
      BY <3>1, <3>2, FS_AddElement
    <3>. QED
      BY <1>1, <1>3, <2>1, <3>3 DEF Counted, Exists
  <2>2. CASE p # found[c]
    <3>1. Redeemers(p)' = Redeemers(p)
      BY <1>3, <2>2 DEF Redeemers
    <3>. QED
      BY <1>1, <1>3, <2>2, <3>1 DEF Counted, Exists
  <2>. QED
    BY <2>1, <2>2
<1>. QED
  BY <1>4, <1>5

LEMMA CountNext ==
  ASSUME Inv, [Next]_vars
  PROVE  IsFiniteSet(redeemed)' /\ \A p \in Promos : Counted(p)'
<1>0. /\ TypeOK
      /\ \A c \in Claims : Agree(c)
      /\ IsFiniteSet(redeemed)
      /\ \A p \in Promos : Counted(p)
  BY DEF Inv
<1>1. ASSUME NEW c \in Claims, Check(c), NEW p \in Promos PROVE Counted(p)'
  <2>1. c \notin redeemed
    BY <1>0, <1>1 DEF Check, Agree
  <2>2. \A d \in redeemed : found'[d] = found[d]
    BY <1>0, <1>1, <2>1 DEF Check, TypeOK
  <2>3. Redeemers(p)' = Redeemers(p)
    BY <1>1, <2>2 DEF Check, Redeemers
  <2>. QED
    BY <1>0, <1>1, <2>3 DEF Check, Counted, Exists
<1>2. ASSUME UNCHANGED <<promo, redeemed, found>>, NEW p \in Promos PROVE Counted(p)'
  BY <1>0, <1>2 DEF Counted, Exists, Redeemers
<1>3. ASSUME NEW c \in Claims, Credit(c) \/ NoneActive(c)
      PROVE  UNCHANGED <<promo, redeemed, found>>
  BY <1>3 DEF Credit, NoneActive
<1>4. ASSUME NEW c \in Claims, Record(c)
      PROVE  IsFiniteSet(redeemed)' /\ \A p \in Promos : Counted(p)'
  BY <1>4, RecordCounts DEF Record
<1>5. ASSUME NEW c \in Claims, Break(c)
      PROVE  IsFiniteSet(redeemed)' /\ \A p \in Promos : Counted(p)'
  <2>1. CASE claim[c] = "credited" /\ Exists(found[c]) /\ Redeem(c) /\ UNCHANGED wallets
    BY <1>5, <2>1, RecordCounts DEF Break
  <2>2. CASE UNCHANGED <<promo, redeemed>>
    BY <1>0, <1>2, <1>5, <2>2 DEF Break
  <2>. QED
    BY <1>5, <2>1, <2>2 DEF Break
<1>6. ASSUME NEW q \in Promos, SetActive(q) \/ DeleteCount(q) \/ Delete(q),
             NEW p \in Promos
      PROVE  Counted(p)'
  <2>1. Redeemers(p)' = Redeemers(p)
    BY <1>6 DEF SetActive, DeleteCount, Delete, Redeemers
  <2>2. Exists(p)' => Exists(p) /\ promo'[p].currentUses = promo[p].currentUses
    <3>1. \/ promo' = promo
          \/ promo' = [promo EXCEPT ![q] = [promo[q] EXCEPT !.active = ~@]]
          \/ promo' = [promo EXCEPT ![q] = [promo[q] EXCEPT !.active = FALSE]]
          \/ promo' = [promo EXCEPT ![q] = None]
      BY <1>6 DEF SetActive, DeleteCount, Delete
    <3>2. Exists(q) => promo[q] \in Rows
      BY <1>0 DEF TypeOK, Exists
    <3>3. Exists(q) => /\ [promo[q] EXCEPT !.active = ~@].currentUses = promo[q].currentUses
                       /\ [promo[q] EXCEPT !.active = FALSE].currentUses = promo[q].currentUses
      BY <3>2 DEF Rows
    <3>4. SetActive(q) \/ DeleteCount(q) => Exists(q)
      BY DEF SetActive, DeleteCount
    <3>5. Delete(q) => promo' = promo \/ promo' = [promo EXCEPT ![q] = None]
      BY DEF Delete
    <3>. QED
      BY <1>0, <1>6, <3>1, <3>3, <3>4, <3>5 DEF TypeOK, Exists
  <2>. QED
    BY <1>0, <2>1, <2>2 DEF Counted
<1>7. ASSUME NEW q \in Promos, SetActive(q) \/ DeleteCount(q) \/ Delete(q)
      PROVE  redeemed' = redeemed
  BY <1>7 DEF SetActive, DeleteCount, Delete
<1>8. ASSUME NEW c \in Claims, Check(c)
      PROVE  redeemed' = redeemed
  BY <1>8 DEF Check
<1>9. CASE Terminated \/ UNCHANGED vars
  BY <1>0, <1>2, <1>9 DEF vars, Terminated
<1>. QED
  BY <1>0, <1>1, <1>2, <1>3, <1>4, <1>5, <1>6, <1>7, <1>8, <1>9 DEF Next

LEMMA InvInit == Init => Inv
<1>. SUFFICES ASSUME Init PROVE Inv
  OBVIOUS
<1>1. IsFiniteSet(redeemed) /\ \A p \in Promos : Redeemers(p) = {}
  BY FS_EmptySet DEF Init, Redeemers
<1>2. \A p \in Promos : Counted(p)
  BY <1>1, FS_EmptySet DEF Init, Counted
<1>. QED
  BY <1>1, <1>2, TypeInit DEF Init, Inv, Agree, Apart, Passed, UnderWay

LEMMA InvNext == Inv /\ [Next]_vars => Inv'
  BY TypeNext, AgreeNext, ApartNext, CountNext DEF Inv

LEMMA Invariance == Spec => []Inv
  BY InvInit, InvNext, PTL DEF Spec

(* The rows, the claims and the wallets keep their types; in particular    *)
(* every recorded use was counted up, never down.                          *)
THEOREM TypeCorrect == Spec => []TypeOK
<1>1. Inv => TypeOK
  BY DEF Inv
<1>. QED
  BY <1>1, Invariance, PTL

(* A user gets the bonus of a promo twice only from claims that ran        *)
(* together or broke, however many users, claims and promos there are.     *)
THEOREM OnceApart == Spec => []TwiceForAReason
<1>1. Inv => TwiceForAReason
  <2>. SUFFICES ASSUME Inv, NEW p \in Promos, NEW c \in Credited(p), NEW d \in Credited(p),
                       c # d, Claimant(c) = Claimant(d),
                       claim[c] # "broken", claim[d] # "broken"
                PROVE  {c, d} \in overlaps
    BY DEF TwiceForAReason
  <2>1. c \in Claims /\ d \in Claims /\ found[c] = found[d]
    BY DEF Inv, TypeOK, Credited
  <2>2. claim[c] \in Passed /\ claim[d] \in Passed
    BY <2>1 DEF Inv, TypeOK, Agree, Credited, Passed, UnderWay
  <2>. QED
    BY <2>1, <2>2 DEF Inv, Apart
<1>. QED
  BY <1>1, Invariance, PTL

(* The counter of a promo and its redemptions agree, through concurrent    *)
(* claims, errors and deletions.                                           *)
THEOREM Counting == Spec => []UsesCounted
<1>1. Inv => UsesCounted
  BY DEF Inv, TypeOK, Agree, Counted, UsesCounted
<1>. QED
  BY <1>1, Invariance, PTL

-----------------------------------------------------------------------------
(* For the limit: claims that are under way at the same time were marked   *)
(* as such by the later one, and the redemptions that a claim under way    *)
(* has not run together with are those its check has counted.              *)
Together(c, d) ==
    c # d /\ claim[c] \in UnderWay /\ claim[d] \in UnderWay => {c, d} \in overlaps

Before(c) == {d \in Redeemers(found[c]) : {c, d} \notin overlaps}

Limited(c) ==
    claim[c] \in UnderWay /\ MaxUses[found[c]] > 0 =>
        Cardinality(Before(c)) < MaxUses[found[c]]

LimitInv ==
    /\ Inv
    /\ \A c, d \in Claims : Together(c, d)
    /\ \A c \in Claims : Limited(c)
    /\ LimitForAReason

LEMMA TogetherNext ==
  ASSUME LimitInv, [Next]_vars, NEW c \in Claims, NEW d \in Claims
  PROVE  Together(c, d)'
<1>. USE DEF UnderWay
<1>0. TypeOK /\ Together(c, d)
  BY DEF LimitInv, Inv
<1>1. ASSUME NEW e \in Claims, Check(e) PROVE Together(c, d)'
  <2>1. {c, d} = {d, c}
    OBVIOUS
  <2>. QED
    BY <1>0, <1>1, <2>1 DEF Check, Goto, Together, TypeOK
<1>2. ASSUME NEW e \in Claims, NoneActive(e) \/ Credit(e) \/ Record(e) \/ Break(e)
      PROVE  Together(c, d)'
  <2>1. /\ overlaps' = overlaps
        /\ \E l \in {"refused", "credited", "done", "broken"} :
              /\ claim' = [claim EXCEPT ![e] = l]
              /\ l = "credited" => claim[e] = "eligible"
    BY <1>2 DEF NoneActive, Credit, Record, Break, Goto
  <2>. QED
    BY <1>0, <2>1 DEF Together, TypeOK
<1>3. ASSUME NEW p \in Promos, SetActive(p) \/ DeleteCount(p) \/ Delete(p)
      PROVE  Together(c, d)'
  BY <1>0, <1>3 DEF SetActive, DeleteCount, Delete, Together
<1>4. CASE UNCHANGED vars
  BY <1>0, <1>4 DEF vars, Together
<1>. QED
  BY <1>1, <1>2, <1>3, <1>4 DEF Next, Terminated

LEMMA LimitedNext ==
  ASSUME LimitInv, [Next]_vars, NEW c \in Claims
  PROVE  Limited(c)'
<1>. USE DEF UnderWay
<1>0. /\ TypeOK /\ Limited(c)
      /\ \A d \in Claims : Agree(d) /\ Together(c, d)
      /\ IsFiniteSet(redeemed)
      /\ \A p \in Promos : Counted(p)
  BY DEF LimitInv, Inv
<1>1. \A p : IsFiniteSet(Redeemers(p))
  BY <1>0, FS_Subset DEF Redeemers
<1>2. IsFiniteSet(Before(c))
  BY <1>1, FS_Subset DEF Before
(* It stays limited as long as nothing is added to Before(c). *)
<1>3. ASSUME found'[c] = found[c], claim'[c] \in UnderWay => claim[c] \in UnderWay,
             claim'[c] \in UnderWay => Before(c)' \subseteq Before(c)
      PROVE  Limited(c)'
  <2>. SUFFICES ASSUME claim'[c] \in UnderWay, MaxUses[found[c]] > 0
                PROVE  Cardinality(Before(c)') < MaxUses[found[c]]
    BY <1>3 DEF Limited
  <2>1. Cardinality(Before(c)') <= Cardinality(Before(c))
    BY <1>2, <1>3, FS_Subset
  <2>2. Cardinality(Before(c)) \in Nat /\ Cardinality(Before(c)') \in Nat
    BY <1>2, <1>3, FS_Subset, FS_CardinalityType
  <2>3. Cardinality(Before(c)) < MaxUses[found[c]] /\ found[c] \in Promos
    BY <1>0, <1>3 DEF Limited, Agree
  <2>. QED
    BY <2>1, <2>2, <2>3
<1>4. ASSUME NEW e \in Claims, Check(e) PROVE Limited(c)'
  <2>0. \A d \in redeemed : d # e
    BY <1>0, <1>4 DEF Check, Agree
  <2>1. \A p : Redeemers(p)' = Redeemers(p)
    BY <1>0, <1>4, <2>0 DEF Check, Redeemers, TypeOK
  <2>2. CASE e = c
    <3>. SUFFICES ASSUME claim'[c] \in UnderWay, MaxUses[found'[c]] > 0
                  PROVE  Cardinality(Before(c)') < MaxUses[found'[c]]
      BY DEF Limited
    <3>. DEFINE p == found'[c]
    <3>1. p \in Promos /\ Exists(p) /\ Eligible(c, p)
      BY <1>0, <1>4, <2>2 DEF Check, Goto, TypeOK
    <3>2. promo[p].currentUses < MaxUses[p]
      <4>1. ~Exhausted(p) /\ MaxUses[p] \in Nat /\ MaxUses[p] > 0
        BY <3>1 DEF Eligible
      <4>2. promo[p].currentUses \in Nat
        BY <1>0, <3>1 DEF TypeOK, Exists, Rows
      <4>. QED
        BY <4>1, <4>2 DEF Exhausted
    <3>3. Cardinality(Redeemers(p)) < MaxUses[p]
      BY <1>0, <3>1, <3>2 DEF Counted
    <3>4. Before(c)' \subseteq Redeemers(p)
      BY <2>1 DEF Before
    <3>5. /\ Cardinality(Before(c)') <= Cardinality(Redeemers(p))
          /\ Cardinality(Before(c)') \in Nat
          /\ Cardinality(Redeemers(p)) \in Nat
      BY <1>1, <3>4, FS_Subset, FS_CardinalityType
    <3>. QED
      BY <3>1, <3>3, <3>5
  <2>3. CASE e # c
    <3>1. found'[c] = found[c] /\ claim'[c] = claim[c]
      BY <1>0, <1>4, <2>3 DEF Check, Goto, TypeOK
    <3>2. overlaps \subseteq overlaps'
      BY <1>4 DEF Check
    <3>3. Before(c)' \subseteq Before(c)
      BY <2>1, <3>1, <3>2 DEF Before
    <3>. QED
      BY <1>3, <3>1, <3>3
  <2>. QED
    BY <2>2, <2>3
<1>5. ASSUME NEW e \in Claims, claim[e] = "credited", Redeem(e),
             NEW l \in {"done", "broken"}, Goto(e, l), UNCHANGED <<found, overlaps>>
      PROVE  Limited(c)'
  <2>1. claim'[c] \in UnderWay => claim'[c] = claim[c] /\ e # c
    BY <1>0, <1>5 DEF Goto, TypeOK
  <2>2. claim'[c] \in UnderWay => {c, e} \in overlaps
    BY <1>0, <1>5, <2>1 DEF Together
  <2>3. claim'[c] \in UnderWay => Before(c)' \subseteq Before(c)
    BY <1>5, <2>2 DEF Redeem, Before, Redeemers
  <2>. QED
    BY <1>3, <1>5, <2>1, <2>3
<1>6. ASSUME NEW e \in Claims, NEW l \in {"refused", "credited", "broken"},
             claim' = [claim EXCEPT ![e] = l], l = "credited" => claim[e] = "eligible",
             UNCHANGED <<redeemed, found, overlaps>>
      PROVE  Limited(c)'
  BY <1>0, <1>3, <1>6 DEF TypeOK, Before, Redeemers
<1>7. ASSUME NEW e \in Claims, NoneActive(e) PROVE Limited(c)'
  BY <1>6, <1>7 DEF NoneActive, Goto
<1>8. ASSUME NEW e \in Claims, Credit(e) PROVE Limited(c)'
  BY <1>6, <1>8 DEF Credit, Goto
<1>9. ASSUME NEW e \in Claims, Record(e) PROVE Limited(c)'
  BY <1>5, <1>9 DEF Record
<1>10. ASSUME NEW e \in Claims, Break(e) PROVE Limited(c)'
  <2>1. CASE claim[e] = "credited" /\ Redeem(e)
    BY <1>5, <1>10, <2>1 DEF Break
  <2>2. CASE UNCHANGED redeemed
    BY <1>6, <1>10, <2>2 DEF Break, Goto
  <2>. QED
    BY <1>10, <2>1, <2>2 DEF Break
<1>11. ASSUME UNCHANGED <<redeemed, claim, found, overlaps>> PROVE Limited(c)'
  BY <1>3, <1>11 DEF Before, Redeemers
<1>12. ASSUME NEW p \in Promos, SetActive(p) \/ DeleteCount(p) \/ Delete(p)
       PROVE  Limited(c)'
  BY <1>11, <1>12 DEF SetActive, DeleteCount, Delete
<1>13. CASE UNCHANGED vars
  BY <1>11, <1>13 DEF vars
<1>. QED
  BY <1>4, <1>7, <1>8, <1>9, <1>10, <1>12, <1>13 DEF Next, Terminated

LEMMA LimitNext ==
  ASSUME LimitInv, [Next]_vars
  PROVE  LimitForAReason'
<1>0. /\ TypeOK
      /\ \A c \in Claims : Agree(c)
      /\ \A c, d \in Claims : Together(c, d)
      /\ \A c \in Claims : Limited(c)
      /\ IsFiniteSet(redeemed)
      /\ LimitForAReason
  BY DEF LimitInv, Inv
(* A step that credits nobody: the excuses remain. *)
<1>1. ASSUME applied' = applied, \A c \in applied : found'[c] = found[c],
             \A c \in applied : claim[c] = "broken" => claim'[c] = "broken",
             overlaps \subseteq overlaps'
      PROVE  LimitForAReason'
  <2>1. \A p \in Promos : Credited(p)' = Credited(p)
    BY <1>1 DEF Credited
  <2>. QED
    BY <1>0, <1>1, <2>1 DEF LimitForAReason, Credited
<1>2. ASSUME NEW c \in Claims, Credit(c) PROVE LimitForAReason'
  <2>1. applied' = applied \cup {c}
    BY <1>0, <1>2, ApplyEffect DEF Credit
  <2>2. /\ UNCHANGED <<found, redeemed, overlaps>>
        /\ claim' = [claim EXCEPT ![c] = "credited"]
        /\ claim[c] = "eligible"
    BY <1>2 DEF Credit, Goto
  <2>3. c \notin applied /\ found[c] \in Promos
    BY <1>0, <2>2 DEF Agree, UnderWay
  <2>4. ASSUME NEW p \in Promos, p # found[c],
               MaxUses[p] > 0, Cardinality(Credited(p)') > MaxUses[p]
        PROVE  \/ \E d \in Credited(p)' : claim'[d] = "broken"
               \/ \E d, e \in Credited(p)' : d # e /\ {d, e} \in overlaps'
    <3>1. Credited(p)' = Credited(p)
      BY <2>1, <2>2, <2>4 DEF Credited
    <3>2. \A d \in applied : claim'[d] = claim[d]
      BY <1>0, <2>2, <2>3 DEF TypeOK
    <3>3. \A d \in Credited(p) : claim'[d] = claim[d]
      BY <3>2 DEF Credited
    <3>. QED
      BY <1>0, <2>2, <2>4, <3>1, <3>3 DEF LimitForAReason
  <2>5. ASSUME NEW p \in Promos, p = found[c],
               MaxUses[p] > 0, Cardinality(Credited(p)') > MaxUses[p],
               \A d \in Credited(p)' : claim'[d] # "broken",
               \A d, e \in Credited(p)' : d # e => {d, e} \notin overlaps'
        PROVE  FALSE
    <3>1. Credited(p)' = Credited(p) \cup {c} /\ c \notin Credited(p)
      BY <2>1, <2>2, <2>3, <2>5 DEF Credited
    <3>2. ASSUME NEW d \in Credited(p) PROVE d \in Before(c)
      <4>1. d \in Claims /\ d # c /\ found[d] = p /\ d \in applied
        BY <1>0, <2>3 DEF Credited, TypeOK
      <4>2. claim[d] # "broken" /\ {c, d} \notin overlaps
        BY <1>0, <2>2, <2>5, <3>1, <4>1 DEF TypeOK
      <4>3. claim[d] \notin UnderWay
        BY <1>0, <2>2, <4>1, <4>2 DEF Together, UnderWay
      <4>4. claim[d] = "done"
        BY <1>0, <4>1, <4>2, <4>3 DEF Agree, TypeOK, UnderWay
      <4>. QED
        BY <1>0, <2>5, <4>1, <4>2, <4>4 DEF Agree, Before, Redeemers
    <3>3. IsFiniteSet(Before(c))
      BY <1>0, FS_Subset DEF Before, Redeemers
    <3>4. /\ IsFiniteSet(Credited(p))
          /\ Cardinality(Credited(p)) <= Cardinality(Before(c))
      BY <3>2, <3>3, FS_Subset
    <3>5. Cardinality(Credited(p)') = Cardinality(Credited(p)) + 1
      BY <3>1, <3>4, FS_AddElement
    <3>6. Cardinality(Before(c)) < MaxUses[p]
      BY <1>0, <2>2, <2>5 DEF Limited, UnderWay
    <3>7. Cardinality(Before(c)) \in Nat /\ Cardinality(Credited(p)) \in Nat
      BY <3>3, <3>4, FS_CardinalityType
    <3>. QED
      BY <2>5, <3>4, <3>5, <3>6, <3>7
  <2>. QED
    BY <2>4, <2>5 DEF LimitForAReason
<1>3. ASSUME NEW c \in Claims, Break(c) PROVE LimitForAReason'
  <2>1. /\ UNCHANGED <<found, overlaps>>
        /\ claim' = [claim EXCEPT ![c] = "broken"]
    BY <1>3 DEF Break, Goto
  <2>2. applied' = applied \/ applied' = applied \cup {c}
    BY <1>0, <1>3, ApplyEffect DEF Break, wallets
  <2>3. \A d \in applied : claim[d] = "broken" => claim'[d] = "broken"
    BY <1>0, <2>1 DEF TypeOK
  <2>4. CASE applied' = applied
    BY <1>1, <2>1, <2>3, <2>4
  <2>5. CASE applied' = applied \cup {c}
    <3>1. claim'[c] = "broken"
      BY <1>0, <2>1 DEF TypeOK
    <3>2. ASSUME NEW p \in Promos, MaxUses[p] > 0, Cardinality(Credited(p)') > MaxUses[p]
          PROVE  \/ \E d \in Credited(p)' : claim'[d] = "broken"
                 \/ \E d, e \in Credited(p)' : d # e /\ {d, e} \in overlaps'
      <4>1. CASE found[c] = p
        BY <2>1, <2>5, <3>1, <4>1 DEF Credited
      <4>2. CASE found[c] # p
        <5>1. Credited(p)' = Credited(p)
          BY <2>1, <2>5, <4>2 DEF Credited
        <5>. QED
          BY <1>0, <2>1, <2>3, <3>2, <5>1 DEF LimitForAReason, Credited
      <4>. QED
        BY <4>1, <4>2
    <3>. QED
      BY <3>2 DEF LimitForAReason
  <2>. QED
    BY <2>2, <2>4, <2>5
<1>4. ASSUME NEW c \in Claims, Check(c) PROVE LimitForAReason'
  <2>1. c \notin applied
    BY <1>0, <1>4 DEF Check, Agree
  <2>2. /\ \A d \in applied : found'[d] = found[d] /\ claim'[d] = claim[d]
        /\ applied' = applied
        /\ overlaps \subseteq overlaps'
    BY <1>0, <1>4, <2>1 DEF Check, Goto, TypeOK, wallets
  <2>. QED
    BY <1>1, <2>2
<1>5. ASSUME NEW c \in Claims, NoneActive(c) \/ Record(c) PROVE LimitForAReason'
  <2>1. /\ claim[c] # "broken"
        /\ \E l \in {"refused", "done"} : claim' = [claim EXCEPT ![c] = l]
        /\ UNCHANGED <<applied, found, overlaps>>
    BY <1>5 DEF NoneActive, Record, Goto, wallets
  <2>2. \A d \in applied : claim[d] = "broken" => claim'[d] = "broken"
    BY <1>0, <2>1 DEF TypeOK
  <2>. QED
    BY <1>1, <2>1, <2>2
<1>6. ASSUME UNCHANGED <<applied, claim, found, overlaps>> PROVE LimitForAReason'
  BY <1>1, <1>6
<1>7. ASSUME NEW p \in Promos, SetActive(p) \/ DeleteCount(p) \/ Delete(p)
      PROVE  LimitForAReason'
  BY <1>6, <1>7 DEF SetActive, DeleteCount, Delete, wallets
<1>8. CASE UNCHANGED vars
  BY <1>6, <1>8 DEF vars
<1>. QED
  BY <1>2, <1>3, <1>4, <1>5, <1>7, <1>8 DEF Next, Terminated

(* More is credited than the limit of a promo only if claims ran together  *)
(* or broke, for any limit and any number of claims.                       *)
THEOREM LimitApart == Spec => []LimitForAReason
<1>1. Init => LimitInv
  <2>. SUFFICES ASSUME Init PROVE LimitInv
    OBVIOUS
  <2>1. \A p \in Promos : Cardinality(Credited(p)) = 0
    BY FS_EmptySet DEF Init, Credited
  <2>2. LimitForAReason
    BY <2>1 DEF LimitForAReason
  <2>. QED
    BY <2>2, InvInit DEF Init, LimitInv, Together, Limited, UnderWay
<1>2. LimitInv /\ [Next]_vars => LimitInv'
  BY InvNext, TogetherNext, LimitedNext, LimitNext DEF LimitInv
<1>3. LimitInv => LimitForAReason
  BY DEF LimitInv
<1>. QED
  BY <1>1, <1>2, <1>3, PTL DEF Spec
=============================================================================
