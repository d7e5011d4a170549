----------------------------- MODULE WelcomeBonus -----------------------------
(***************************************************************************)
(* The welcome bonus of billing-service: PromoService.claimWelcomeBonus    *)
(* and the administration of promos.                                       *)
(*                                                                         *)
(* A claim checks the promo and its redemptions, credits the wallet, and   *)
(* then records the redemption: three transactions, with nothing in the    *)
(* database that makes them one (promo_redemptions has no unique index on  *)
(* promo and user).  Claims of one user and of several race, each may fail *)
(* or die on its way, and administrators switch promos off and on, or      *)
(* delete them.  The wallet is AtomicWallet, which Wallet implements.      *)
(*                                                                         *)
(* A promo outside its dates is like an inactive one.  Amounts are those   *)
(* of the check, and play no part here: the bonus is 1.                    *)
(***************************************************************************)
EXTENDS Integers, FiniteSets

CONSTANTS
    Claims,      \* calls of claimWelcomeBonus
    Users,
    Promos,      \* of type WELCOME_BONUS
    MaxUses,     \* MaxUses[p]: maxTotalUses, or 0 where there is no limit
    MaxChanges,  \* bound: what administrators change
    None         \* no promo

ASSUME WelcomeBonusAssumption ==
    /\ MaxUses \in [Promos -> Nat]
    /\ MaxChanges \in Nat
    /\ None \notin Promos

VARIABLES
    promo,       \* promo[p]: its row, or None once it is deleted
    redeemed,    \* the claims that have a PromoRedemption
    claim,       \* claim[c]: how far it has come
    found,       \* found[c]: the promo its check has found
    deleting,    \* the promos whose deletion has counted no redemption
    changes,
    balance, applied, request,   \* the wallets, as AtomicWallet has them
    overlaps     \* history: the pairs of claims that were under way together

vars == <<promo, redeemed, claim, found, deleting, changes,
          balance, applied, request, overlaps>>

wallets == <<balance, applied, request>>

admin == <<deleting, changes>>

Billing == INSTANCE AtomicWallet WITH Calls <- Claims

Rows == [active : BOOLEAN, currentUses : Nat]

ASSUME NoneAssumption == None \notin Rows

UnderWay == {"eligible", "credited"}

TypeOK ==
    /\ promo \in [Promos -> Rows \cup {None}]
    /\ redeemed \subseteq Claims
    /\ claim \in [Claims -> {"idle", "refused", "done", "broken"} \cup UnderWay]
    /\ found \in [Claims -> Promos \cup {None}]
    /\ deleting \subseteq Promos
    /\ changes \in 0..MaxChanges
    /\ balance \in [Users -> Int]
    /\ applied \subseteq Claims
    /\ request \in [Claims -> [user : Users, delta : {1}]]
    /\ overlaps \subseteq SUBSET Claims

Init ==
    /\ promo = [p \in Promos |-> [active |-> TRUE, currentUses |-> 0]]
    /\ redeemed = {}
    /\ claim = [c \in Claims |-> "idle"]
    /\ found = [c \in Claims |-> None]
    /\ deleting = {}
    /\ changes = 0
    /\ balance = [u \in Users |-> 0]
    /\ applied = {}
    /\ request \in [Claims -> [user : Users, delta : {1}]]
    /\ overlaps = {}

Exists(p) == promo[p] # None

Claimant(c) == request[c].user

Goto(c, label) == claim' = [claim EXCEPT ![c] = label]

-----------------------------------------------------------------------------
(* checkWelcomeBonus *)

RedeemedBy(u, p) == {d \in redeemed : Claimant(d) = u /\ found[d] = p}

(* A mutant of Exhausted: an off-by-one. *)
ExhaustedAtLast(p) == MaxUses[p] > 0 /\ promo[p].currentUses > MaxUses[p]

Exhausted(p) == MaxUses[p] > 0 /\ promo[p].currentUses >= MaxUses[p]

(* A mutant of Eligible: the user's own redemptions are not looked at. *)
EligibleAnyUser(c, p) == ~Exhausted(p)

Eligible(c, p) == RedeemedBy(Claimant(c), p) = {} /\ ~Exhausted(p)

(* findFirst takes any of the promos that are active. *)
Check(c) ==
    /\ claim[c] = "idle"
    /\ \E p \in Promos :
          /\ Exists(p)
          /\ promo[p].active
          /\ found' = [found EXCEPT ![c] = p]
          /\ Goto(c, IF Eligible(c, p) THEN "eligible" ELSE "refused")
    /\ overlaps' = overlaps \cup {{c, d} : d \in {e \in Claims : claim[e] \in UnderWay}}
    /\ UNCHANGED <<promo, redeemed, admin, wallets>>

NoneActive(c) ==
    /\ claim[c] = "idle"
    /\ \A p \in Promos : Exists(p) => ~promo[p].active
    /\ Goto(c, "refused")
    /\ UNCHANGED <<promo, redeemed, found, admin, wallets, overlaps>>

-----------------------------------------------------------------------------
(* claimWelcomeBonus, from there on. *)

(* walletService.addBalance *)
Credit(c) ==
    /\ claim[c] = "eligible"
    /\ Billing!Apply(c)
    /\ Goto(c, "credited")
    /\ UNCHANGED <<promo, redeemed, found, admin, overlaps>>

Redeem(c) ==
    /\ promo' = [promo EXCEPT ![found[c]].currentUses = @ + 1]
    /\ redeemed' = redeemed \cup {c}

(* A mutant of Record: a promo that was switched off is not counted. *)
RecordIfActive(c) ==
    /\ claim[c] = "credited"
    /\ Exists(found[c])
    /\ redeemed' = redeemed \cup {c}
    /\ promo' = [promo EXCEPT ![found[c]].currentUses =
                    IF promo[found[c]].active THEN @ + 1 ELSE @]
    /\ Goto(c, "done")
    /\ UNCHANGED <<found, admin, wallets, overlaps>>

(* applyPromo, the use and the redemption in one transaction. *)
Record(c) ==
    /\ claim[c] = "credited"
    /\ Exists(found[c])
    /\ Redeem(c)
    /\ Goto(c, "done")
    /\ UNCHANGED <<found, admin, wallets, overlaps>>

(* A transaction throws, having committed or not, the promo is gone, or    *)
(* the process dies: nothing undoes what has been done so far.             *)
Break(c) ==
    /\ \/ claim[c] = "eligible" /\ Billing!Apply(c) /\ UNCHANGED <<promo, redeemed>>
       \/ claim[c] = "credited" /\ Exists(found[c]) /\ Redeem(c) /\ UNCHANGED wallets
       \/ claim[c] \in UnderWay /\ UNCHANGED <<promo, redeemed, wallets>>
    /\ Goto(c, "broken")
    /\ UNCHANGED <<found, admin, overlaps>>

-----------------------------------------------------------------------------
(* Administrators. *)

Change == changes < MaxChanges /\ changes' = changes + 1

(* updatePromo *)
SetActive(p) ==
    /\ Exists(p)
    /\ Change
    /\ promo' = [promo EXCEPT ![p].active = ~@]
    /\ UNCHANGED <<redeemed, claim, found, deleting, wallets, overlaps>>

Redeemers(p) == {c \in redeemed : found[c] = p}

(* deletePromo counts the redemptions; with some, the promo becomes        *)
(* inactive ...                                                            *)
DeleteCount(p) ==
    /\ Exists(p)
    /\ p \notin deleting
    /\ Change
    /\ IF Redeemers(p) = {} THEN deleting' = deleting \cup {p} /\ UNCHANGED promo
       ELSE promo' = [promo EXCEPT ![p].active = FALSE] /\ UNCHANGED deleting
    /\ UNCHANGED <<redeemed, claim, found, wallets, overlaps>>

(* ... without one, it is deleted, unless the foreign key of a redemption  *)
(* refuses that by now, or another call has deleted it.                    *)
Delete(p) ==
    /\ p \in deleting
    /\ deleting' = deleting \ {p}
    /\ promo' = IF Redeemers(p) = {} THEN [promo EXCEPT ![p] = None] ELSE promo
    /\ UNCHANGED <<redeemed, claim, found, changes, wallets, overlaps>>

-----------------------------------------------------------------------------
Terminated ==
    /\ \A c \in Claims : claim[c] \in {"refused", "done", "broken"}
    /\ UNCHANGED vars

Next ==
    \/ \E c \in Claims : Check(c) \/ NoneActive(c) \/ Credit(c) \/ Record(c) \/ Break(c)
    \/ \E p \in Promos : SetActive(p) \/ DeleteCount(p) \/ Delete(p)
    \/ Terminated

Spec == Init /\ [][Next]_vars

-----------------------------------------------------------------------------
(* What the limits of the promo are worth. *)

Credited(p) == {c \in applied : found[c] = p}

(* A user is credited twice for one promo only if the two claims were      *)
(* under way together, or one of them broke between the money and the      *)
(* record: the check keeps claims that follow each other apart, whatever   *)
(* other users and administrators do.                                      *)
TwiceForAReason ==
    \A p \in Promos : \A c, d \in Credited(p) :
        c # d /\ Claimant(c) = Claimant(d) =>
            {c, d} \in overlaps \/ "broken" \in {claim[c], claim[d]}

(* More is credited than maxTotalUses allows only if two claims for the    *)
(* promo were under way together, or one broke.                            *)
LimitForAReason ==
    \A p \in Promos :
        MaxUses[p] > 0 /\ Cardinality(Credited(p)) > MaxUses[p] =>
            \/ \E c \in Credited(p) : claim[c] = "broken"
            \/ \E c, d \in Credited(p) : c # d /\ {c, d} \in overlaps

(* currentUses is the number of redemptions, for the statistics and for    *)
(* the limit, and a promo that has one is never deleted; only credited     *)
(* claims are recorded.                                                    *)
UsesCounted ==
    /\ redeemed \subseteq applied
    /\ \A c \in redeemed : Exists(found[c])
    /\ \A p \in Promos :
          Exists(p) => promo[p].currentUses = Cardinality(Redeemers(p))
=============================================================================
