--------------------------- MODULE LifecycleProofs ---------------------------
(***************************************************************************)
(* Proofs about Lifecycle, for any number of orders, any plans, any bounds *)
(* and any interleaving of the four jobs with errors and crashes: nobody   *)
(* loses a server early, and the charges are explained; and about          *)
(* DoAccounts, the pool of accounts the servers run on.                    *)
(***************************************************************************)
EXTENDS Lifecycle, DoAccounts, FiniteSetTheorems, TLAPS

Labels == {"idle", "selected", "marking", "paying", "paid", "erring",
           "poweringoff", "destroying"}

-----------------------------------------------------------------------------
(* What the steps do to a row, in the terms the properties are about. *)

Same(o) ==
    /\ row'[o].status = row[o].status
    /\ row'[o].expiresAt = row[o].expiresAt
    /\ row'[o].suspendedAt = row[o].suspendedAt
    /\ row'[o].version = row[o].version

Marked(o) == row[o].status = "ACTIVE" /\ row'[o].status = "EXPIRING_SOON"

Suspended(o) ==
    /\ pc["expired"][o] = "selected" /\ Unchanged("expired", o)
    /\ Running(o) /\ Suspends[plan[o]]
    /\ row'[o].status = "SUSPENDED" /\ row'[o].expiresAt = row[o].expiresAt

TerminatedBy(j, o) ==
    /\ pc[j][o] = "selected" /\ Unchanged(j, o)
    /\ j = "suspended" \/ (j = "expired" /\ ~Suspends[plan[o]])
    /\ row'[o].status = "TERMINATED"

Extended(o) ==
    /\ pc["renewals"][o] = "paid" /\ row'[o].status = "ACTIVE"
    /\ renewed'[o] = renewed[o] + 1

Changed(o) ==
    /\ row'[o].version = row[o].version + 1
    /\ \/ Marked(o) \/ Suspended(o) \/ Extended(o)
       \/ \E j \in Jobs : TerminatedBy(j, o)

-----------------------------------------------------------------------------
(* The steps' building blocks. *)

LEMMA GotoEffect ==
  ASSUME TypeOK, NEW j \in Jobs, NEW o \in Orders, NEW label \in Labels,
         Goto(j, o, label)
  PROVE  /\ pc' \in [Jobs -> [Orders -> Labels]]
         /\ pc'[j][o] = label
         /\ \A i \in Jobs, p \in Orders :
               i # j \/ p # o => pc'[i][p] = pc[i][p]
  BY DEF Goto, TypeOK, Labels

LEMMA RowColumns ==
  ASSUME TypeOK, NEW o \in Orders
  PROVE  /\ row[o] \in Rows
         /\ row[o].status \in {"ACTIVE", "EXPIRING_SOON", "SUSPENDED", "TERMINATED"}
         /\ row[o].expiresAt \in Nat /\ row[o].suspendedAt \in Nat
         /\ row[o].version \in Nat /\ row[o].failed \in BOOLEAN
  BY DEF TypeOK, Rows

(* The rows after one of them was replaced. *)
LEMMA RowWritten ==
  ASSUME TypeOK, NEW o \in Orders, NEW r \in Rows,
         row' = [row EXCEPT ![o] = r]
  PROVE  /\ row' \in [Orders -> Rows] /\ row'[o] = r
         /\ \A p \in Orders : p # o => row'[p] = row[p]
  BY DEF TypeOK

LEMMA SetStatusEffect ==
  ASSUME TypeOK, NEW o \in Orders,
         NEW s \in {"ACTIVE", "EXPIRING_SOON", "SUSPENDED", "TERMINATED"},
         SetStatus(o, s)
  PROVE  /\ row' \in [Orders -> Rows]
         /\ row'[o].status = s /\ row'[o].version = row[o].version + 1
         /\ row'[o].expiresAt = row[o].expiresAt
         /\ \A p \in Orders : p # o => row'[p] = row[p]
<1> DEFINE r == [status |-> s, expiresAt |-> row[o].expiresAt,
                 suspendedAt |-> row[o].suspendedAt,
                 version |-> row[o].version + 1, failed |-> row[o].failed]
<1>1. r \in Rows /\ r.status = s /\ r.version = row[o].version + 1
      /\ r.expiresAt = row[o].expiresAt
  BY RowColumns DEF Rows
<1>2. row' = [row EXCEPT ![o] = r]
  BY RowColumns DEF SetStatus, TypeOK, Rows
<1>. HIDE DEF r
<1>. QED
  BY <1>1, <1>2, RowWritten

LEMMA SetFailedEffect ==
  ASSUME TypeOK, NEW o \in Orders, SetFailed(o)
  PROVE  row' \in [Orders -> Rows] /\ \A p \in Orders : Same(p)
<1> DEFINE r == [row[o] EXCEPT !.failed = TRUE]
<1>1. /\ r \in Rows /\ r.status = row[o].status /\ r.version = row[o].version
      /\ r.expiresAt = row[o].expiresAt /\ r.suspendedAt = row[o].suspendedAt
  BY RowColumns DEF Rows
<1>2. row' = [row EXCEPT ![o] = r]
  BY DEF SetFailed, TypeOK
<1>. HIDE DEF r
<1>. QED
  BY <1>1, <1>2, RowWritten DEF Same

LEMMA ExtendEffect ==
  ASSUME TypeOK, NEW o \in Orders, Extend(o)
  PROVE  /\ row' \in [Orders -> Rows] /\ renewed' \in [Orders -> Nat]
         /\ row'[o].status = "ACTIVE" /\ row'[o].version = row[o].version + 1
         /\ renewed'[o] = renewed[o] + 1
         /\ \A p \in Orders : p # o => row'[p] = row[p] /\ renewed'[p] = renewed[p]
<1>1. NewExpiry(o) \in Nat
  <2>1. snap["renewals"][o].expiresAt \in Nat
    BY DEF TypeOK, Jobs, Rows
  <2>2. Term[plan[o]] \in Nat /\ clock \in Nat
    BY LifecycleAssumption DEF TypeOK
  <2>. QED
    BY <2>1, <2>2 DEF NewExpiry
<1> DEFINE r == [status |-> "ACTIVE", expiresAt |-> NewExpiry(o),
                 suspendedAt |-> row[o].suspendedAt,
                 version |-> row[o].version + 1, failed |-> FALSE]
<1>2. r \in Rows /\ r.status = "ACTIVE" /\ r.version = row[o].version + 1
  BY <1>1, RowColumns DEF Rows
<1>3. row' = [row EXCEPT ![o] = r]
  BY DEF Extend, TypeOK
<1>4. /\ renewed' \in [Orders -> Nat] /\ renewed'[o] = renewed[o] + 1
      /\ \A p \in Orders : p # o => renewed'[p] = renewed[p]
  BY DEF Extend, TypeOK
<1>. HIDE DEF r
<1>. QED
  BY <1>2, <1>3, <1>4, RowWritten

LEMMA SuspendEffect ==
  ASSUME TypeOK, NEW o \in Orders,
         row' = [row EXCEPT ![o].status = "SUSPENDED",
                            ![o].suspendedAt = clock, ![o].version = @ + 1]
  PROVE  /\ row' \in [Orders -> Rows]
         /\ row'[o].status = "SUSPENDED" /\ row'[o].version = row[o].version + 1
         /\ row'[o].expiresAt = row[o].expiresAt
         /\ \A p \in Orders : p # o => row'[p] = row[p]
<1> DEFINE r == [status |-> "SUSPENDED", expiresAt |-> row[o].expiresAt,
                 suspendedAt |-> clock,
                 version |-> row[o].version + 1, failed |-> row[o].failed]
<1>1. /\ r \in Rows /\ r.status = "SUSPENDED" /\ r.version = row[o].version + 1
      /\ r.expiresAt = row[o].expiresAt
  BY RowColumns DEF Rows, TypeOK
<1>2. row' = [row EXCEPT ![o] = r]
  <2>1. row[o] \in Rows
    BY RowColumns
  <2>2. [[[row[o] EXCEPT !.status = "SUSPENDED"]
            EXCEPT !.suspendedAt = clock] EXCEPT !.version = row[o].version + 1] = r
    <3> DEFINE r1 == [status |-> "SUSPENDED", expiresAt |-> row[o].expiresAt,
                      suspendedAt |-> row[o].suspendedAt,
                      version |-> row[o].version, failed |-> row[o].failed]
    <3>1. [row[o] EXCEPT !.status = "SUSPENDED"] = r1
      BY <2>1 DEF Rows
    <3> DEFINE r2 == [status |-> "SUSPENDED", expiresAt |-> row[o].expiresAt,
                      suspendedAt |-> clock,
                      version |-> row[o].version, failed |-> row[o].failed]
    <3>2. [r1 EXCEPT !.suspendedAt = clock] = r2
      OBVIOUS
    <3>3. [r2 EXCEPT !.version = row[o].version + 1] = r
      OBVIOUS
    <3>. HIDE DEF r1, r2, r
    <3>. QED
      BY <3>1, <3>2, <3>3
  <2>3. row \in [Orders -> Rows]
    BY DEF TypeOK
  <2>. HIDE DEF r
  <2>. QED
    BY <2>2, <2>3
<1>. HIDE DEF r
<1>. QED
  BY <1>1, <1>2, RowWritten

-----------------------------------------------------------------------------
(* What a step does to the place where a job is, and to what it has read.  *)
Moves(j, o) ==
    \/ pc'[j][o] = pc[j][o] /\ snap'[j][o] = snap[j][o]
    \/ pc'[j][o] = "selected" /\ Due(j, o) /\ snap'[j][o] = row[o] /\ row' = row
    \/ pc'[j][o] # "selected" /\ snap'[j][o] = snap[j][o]

Effect ==
    /\ TypeOK'
    /\ plan' = plan
    /\ clock' \in {clock, clock + 1}
    /\ \A p \in Orders : Same(p) \/ Changed(p)
    /\ \A p \in Orders : renewed'[p] \in {renewed[p], renewed[p] + 1}
    /\ \A i \in Jobs, p \in Orders : Moves(i, p)

(* A step that selects nothing: what is left to show of it. *)
LEMMA GoOn ==
  ASSUME TypeOK, NEW j \in Jobs, NEW o \in Orders,
         NEW label \in Labels \ {"selected"}, Goto(j, o, label),
         UNCHANGED <<clock, plan, snap, level>>,
         row' \in [Orders -> Rows], renewed' \in [Orders -> Nat],
         debits' \in [Orders -> Nat], funds' \in Nat, faults' \in Nat,
         warned' \in [Orders -> SUBSET Nat],
         server' \in [Orders -> {"on", "off", "destroyed"}],
         \A p \in Orders : renewed'[p] \in {renewed[p], renewed[p] + 1},
         \A p \in Orders : Same(p) \/ Changed(p)
  PROVE  Effect
<1>1. pc' \in [Jobs -> [Orders -> Labels]]
  BY GotoEffect
<1>2. TypeOK'
  BY <1>1 DEF TypeOK, Labels
<1>3. \A i \in Jobs, p \in Orders : Moves(i, p)
  BY GotoEffect DEF Moves
<1>. QED
  BY <1>2, <1>3 DEF Effect, TypeOK

LEMMA RowsKept ==
  ASSUME TypeOK, row' = row
  PROVE  row' \in [Orders -> Rows] /\ \A p \in Orders : Same(p)
  BY DEF TypeOK, Same

LEMMA SelectEffect ==
  ASSUME TypeOK, NEW j \in Jobs, NEW o \in Orders, Select(j, o)
  PROVE  Effect
<1>1. /\ pc[j][o] = "idle" /\ Due(j, o) /\ Goto(j, o, "selected")
      /\ snap' = [snap EXCEPT ![j][o] = row[o]]
      /\ UNCHANGED <<clock, plan, row, warned, server, funds, debits, renewed, faults>>
  BY DEF Select, billing
<1>2. /\ pc' \in [Jobs -> [Orders -> Labels]] /\ pc'[j][o] = "selected"
      /\ \A i \in Jobs, p \in Orders : i # j \/ p # o => pc'[i][p] = pc[i][p]
  BY <1>1, GotoEffect DEF Labels
<1>3. /\ snap' \in [Jobs -> [Orders -> Rows]] /\ snap'[j][o] = row[o]
      /\ \A i \in Jobs, p \in Orders : i # j \/ p # o => snap'[i][p] = snap[i][p]
  BY <1>1, RowColumns DEF TypeOK
<1>4. level' \in [Orders -> Nat]
  <2>1. DueWarnings(o) \subseteq Nat
    BY LifecycleAssumption DEF DueWarnings, TypeOK
  <2>. QED
    BY <2>1 DEF Select, TypeOK
<1>5. TypeOK'
  BY <1>1, <1>2, <1>3, <1>4 DEF TypeOK, Labels
<1>6. \A i \in Jobs, p \in Orders : Moves(i, p)
  BY <1>1, <1>2, <1>3 DEF Moves
<1>. QED
  BY <1>1, <1>5, <1>6, RowsKept DEF Effect

LEMMA WarnEffect ==
  ASSUME TypeOK, NEW o \in Orders, Warn(o)
  PROVE  Effect
<1>1. /\ \E label \in Labels \ {"selected"} : Goto("expiring", o, label)
      /\ UNCHANGED <<clock, plan, row, server, funds, debits, renewed, snap, level,
                     faults>>
  BY DEF Warn, Labels, billing
<1>2. warned' \in [Orders -> SUBSET Nat]
  BY DEF Warn, TypeOK
<1>. QED
  BY <1>1, <1>2, GoOn, RowsKept DEF TypeOK, Jobs

LEMMA MarkEffect ==
  ASSUME TypeOK, NEW o \in Orders, Mark(o)
  PROVE  Effect
<1>1. /\ Goto("expiring", o, "idle")
      /\ UNCHANGED <<clock, plan, warned, server, funds, debits, renewed, snap, level,
                     faults>>
  BY DEF Mark, billing
<1>2. row' \in [Orders -> Rows] /\ \A p \in Orders : Same(p) \/ Changed(p)
  <2>1. CASE row' = row
    BY <2>1, RowsKept
  <2>2. CASE row[o].status = "ACTIVE" /\ SetStatus(o, "EXPIRING_SOON")
    <3>1. /\ row' \in [Orders -> Rows]
          /\ row'[o].status = "EXPIRING_SOON" /\ row'[o].version = row[o].version + 1
          /\ \A p \in Orders : p # o => row'[p] = row[p]
      BY <2>2, SetStatusEffect
    <3>. QED
      BY <2>2, <3>1 DEF Same, Changed, Marked
  <2>. QED
    BY <2>1, <2>2 DEF Mark
<1>. QED
  BY <1>1, <1>2, GoOn DEF TypeOK, Jobs, Labels

(* The steps of attemptRenewal that do not extend the order. *)
LEMMA AttemptEffect ==
  ASSUME TypeOK, NEW o \in Orders,
         \/ CheckFunds(o) \/ Deduct(o) \/ Refused(o) \/ RenewalFailed(o)
         \/ RenewalError(o) /\ renewed' = renewed
  PROVE  Effect
<1>1. /\ \E label \in Labels \ {"selected"} : Goto("renewals", o, label)
      /\ UNCHANGED <<clock, plan, warned, server, renewed, snap, level>>
  BY DEF CheckFunds, Deduct, Refused, RenewalFailed, RenewalError, Labels
<1>2. funds' \in Nat /\ debits' \in [Orders -> Nat]
  <2>1. CASE UNCHANGED <<funds, debits>>
    BY <2>1 DEF TypeOK
  <2>2. CASE Charge(o)
    <3>1. funds \in Nat /\ Price \in Nat /\ funds >= Price /\ funds' = funds - Price
      BY <2>2, LifecycleAssumption DEF Charge, TypeOK
    <3>. QED
      BY <2>2, <3>1 DEF Charge, TypeOK
  <2>. QED
    BY <2>1, <2>2 DEF CheckFunds, Deduct, Refused, RenewalFailed, RenewalError, billing
<1>3. row' \in [Orders -> Rows] /\ \A p \in Orders : Same(p)
  <2>1. CASE row' = row
    BY <2>1, RowsKept
  <2>2. CASE SetFailed(o)
    BY <2>2, SetFailedEffect
  <2>3. CASE Extend(o) /\ renewed' = renewed
    <3>1. renewed[o] \in Nat /\ renewed'[o] = renewed[o] + 1
      BY <2>3, ExtendEffect DEF TypeOK
    <3>. QED
      BY <2>3, <3>1
  <2>. QED
    BY <2>1, <2>2, <2>3
    DEF CheckFunds, Deduct, Refused, RenewalFailed, RenewalError
<1>4. faults' \in Nat
  BY DEF CheckFunds, Deduct, Refused, RenewalFailed, RenewalError, Fault, TypeOK
<1>. QED
  BY <1>1, <1>2, <1>3, <1>4, GoOn DEF TypeOK, Jobs

LEMMA RenewEffect ==
  ASSUME TypeOK, NEW o \in Orders, pc["renewals"][o] = "paid", Extend(o),
         Renew(o) \/ RenewalError(o)
  PROVE  Effect
<1>1. /\ \E label \in Labels \ {"selected"} : Goto("renewals", o, label)
      /\ UNCHANGED <<clock, plan, warned, server, funds, debits, snap, level>>
  BY DEF Renew, RenewalError, Labels, billing
<1>2. /\ row' \in [Orders -> Rows] /\ renewed' \in [Orders -> Nat]
      /\ row'[o].status = "ACTIVE" /\ row'[o].version = row[o].version + 1
      /\ renewed'[o] = renewed[o] + 1
      /\ \A p \in Orders : p # o => row'[p] = row[p] /\ renewed'[p] = renewed[p]
  BY ExtendEffect
<1>3. \A p \in Orders : Same(p) \/ Changed(p)
  BY <1>2 DEF Same, Changed, Extended
<1>4. faults' \in Nat
  BY DEF Renew, RenewalError, Fault, TypeOK
<1>. QED
  BY <1>1, <1>2, <1>3, <1>4, GoOn DEF TypeOK, Jobs

LEMMA SuspendStep ==
  ASSUME TypeOK, NEW o \in Orders, Suspend(o)
  PROVE  Effect
<1>1. /\ \E label \in Labels \ {"selected"} : Goto("expired", o, label)
      /\ UNCHANGED <<clock, plan, warned, server, funds, debits, renewed, snap, level,
                     faults>>
  BY DEF Suspend, Labels, billing
<1>2. row' \in [Orders -> Rows] /\ \A p \in Orders : Same(p) \/ Changed(p)
  <2>1. CASE row' = row
    BY <2>1, RowsKept
  <2>2. CASE row' # row
    <3>1. /\ pc["expired"][o] = "selected" /\ Suspends[plan[o]]
          /\ Running(o) /\ Unchanged("expired", o)
          /\ row' = [row EXCEPT ![o].status = "SUSPENDED",
                                ![o].suspendedAt = clock, ![o].version = @ + 1]
      BY <2>2 DEF Suspend
    <3>2. /\ row' \in [Orders -> Rows]
          /\ row'[o].status = "SUSPENDED" /\ row'[o].version = row[o].version + 1
          /\ row'[o].expiresAt = row[o].expiresAt
          /\ \A p \in Orders : p # o => row'[p] = row[p]
      BY <3>1, SuspendEffect
    <3>. QED
      BY <3>1, <3>2 DEF Same, Changed, Suspended
  <2>. QED
    BY <2>1, <2>2
<1>. QED
  BY <1>1, <1>2, GoOn DEF TypeOK, Jobs

LEMMA TerminateStep ==
  ASSUME TypeOK, NEW j \in Jobs, NEW o \in Orders, Terminate(j, o)
  PROVE  Effect
<1>1. /\ \E label \in Labels \ {"selected"} : Goto(j, o, label)
      /\ UNCHANGED <<clock, plan, warned, server, funds, debits, renewed, snap, level,
                     faults>>
  BY DEF Terminate, Labels, billing
<1>2. row' \in [Orders -> Rows] /\ \A p \in Orders : Same(p) \/ Changed(p)
  <2>1. CASE row' = row
    BY <2>1, RowsKept
  <2>2. CASE row' # row
    <3>1. /\ pc[j][o] = "selected" /\ Unchanged(j, o)
          /\ j = "suspended" \/ (j = "expired" /\ ~Suspends[plan[o]])
          /\ SetStatus(o, "TERMINATED")
      BY <2>2 DEF Terminate
    <3>2. /\ row' \in [Orders -> Rows]
          /\ row'[o].status = "TERMINATED" /\ row'[o].version = row[o].version + 1
          /\ \A p \in Orders : p # o => row'[p] = row[p]
      BY <3>1, SetStatusEffect
    <3>3. TerminatedBy(j, o)
      BY <3>1, <3>2 DEF TerminatedBy
    <3>. QED
      BY <3>2, <3>3 DEF Same, Changed
  <2>. QED
    BY <2>1, <2>2
<1>. QED
  BY <1>1, <1>2, GoOn DEF TypeOK

(* PowerOff, Destroy and Stop leave the rows alone. *)
LEMMA ServerStep ==
  ASSUME TypeOK, NEW j \in Jobs, NEW o \in Orders,
         (j = "expired" /\ PowerOff(o)) \/ Destroy(j, o) \/ Stop(j, o)
  PROVE  Effect
<1>1. /\ Goto(j, o, "idle")
      /\ UNCHANGED <<clock, plan, row, warned, funds, debits, renewed, snap, level>>
  BY DEF PowerOff, Destroy, Stop, billing
<1>2. server' \in [Orders -> {"on", "off", "destroyed"}] /\ faults' \in Nat
  BY DEF PowerOff, Destroy, Stop, Fault, TypeOK
<1>. QED
  BY <1>1, <1>2, GoOn, RowsKept DEF TypeOK, Labels

LEMMA StepEffect ==
  ASSUME TypeOK, [Next]_vars
  PROVE  Effect
<1>1. ASSUME NEW j \in Jobs, NEW o \in Orders, Work(j, o) PROVE Effect
  <2>1. CASE CheckFunds(o) \/ Deduct(o) \/ Refused(o) \/ RenewalFailed(o)
    BY <2>1, AttemptEffect
  <2>2. CASE Renew(o)
    BY <2>2, RenewEffect DEF Renew
  <2>. QED
    BY <1>1, <2>1, <2>2, SelectEffect, TerminateStep, ServerStep, WarnEffect,
       MarkEffect, SuspendStep DEF Work
<1>2. ASSUME NEW j \in Jobs, NEW o \in Orders, Stop(j, o) PROVE Effect
  BY <1>2, ServerStep
<1>3. ASSUME NEW o \in Orders, RenewalError(o) PROVE Effect
  <2>1. CASE renewed' = renewed
    BY <1>3, <2>1, AttemptEffect
  <2>2. CASE renewed' # renewed
    <3>1. pc["renewals"][o] = "paid" /\ Extend(o)
      BY <1>3, <2>2 DEF RenewalError
    <3>. QED
      BY <1>3, <3>1, RenewEffect
  <2>. QED
    BY <2>1, <2>2
<1>4. CASE Spend
  <2>1. funds' \in Nat
    BY <1>4, LifecycleAssumption DEF Spend, TypeOK
  <2>. QED
    BY <1>4, <2>1, RowsKept DEF Spend, Effect, Moves, TypeOK
<1>5. CASE Advance
  BY <1>5, RowsKept DEF Advance, Effect, Moves, TypeOK, billing
<1>6. CASE UNCHANGED vars
  BY <1>6, RowsKept DEF vars, Effect, Moves, TypeOK
<1>. QED
  BY <1>1, <1>2, <1>3, <1>4, <1>5, <1>6 DEF Next, Terminated

LEMMA TypeInit == Init => TypeOK
<1>. SUFFICES ASSUME Init PROVE TypeOK
  OBVIOUS
<1>1. row \in [Orders -> Rows]
  BY LifecycleAssumption DEF Init, NewOrder, Rows
<1>2. funds \in Nat
  BY LifecycleAssumption DEF Init
<1>. QED
  BY <1>1, <1>2 DEF Init, TypeOK, Jobs

(* The variables keep their types. *)
THEOREM TypeCorrect == Spec => []TypeOK
<1>1. TypeOK /\ [Next]_vars => TypeOK'
  BY StepEffect DEF Effect
<1>. QED
  BY <1>1, TypeInit, PTL DEF Spec

-----------------------------------------------------------------------------
(* The inductive invariant behind NeverEarly.  What a job has read is no   *)
(* newer than the row, and is the row while the versions agree; a job that *)
(* is about to act has read a reason to; and a suspension has one.         *)

Fresh(j, o) ==
    /\ snap[j][o].version <= row[o].version
    /\ Unchanged(j, o) =>
          /\ snap[j][o].status = row[o].status
          /\ snap[j][o].expiresAt = row[o].expiresAt
          /\ snap[j][o].suspendedAt = row[o].suspendedAt

HasReason(o) ==
    /\ pc["expired"][o] = "selected" => snap["expired"][o].expiresAt < clock
    /\ pc["suspended"][o] = "selected" =>
          /\ snap["suspended"][o].status = "SUSPENDED"
          /\ clock >= snap["suspended"][o].suspendedAt + Grace[plan[o]]
    /\ row[o].status = "SUSPENDED" => row[o].expiresAt < clock

Inv ==
    /\ TypeOK
    /\ \A j \in Jobs, o \in Orders : Fresh(j, o)
    /\ \A o \in Orders : HasReason(o)

LEMMA InvInit == Init => Inv
<1>. SUFFICES ASSUME Init PROVE Inv
  OBVIOUS
<1>1. \A o \in Orders : row[o].status = "ACTIVE" /\ row[o].version = 0
  BY DEF Init, NewOrder
<1>2. \A j \in Jobs, o \in Orders : snap[j][o] = row[o] /\ pc[j][o] = "idle"
  BY DEF Init
<1>. QED
  BY <1>1, <1>2, TypeInit DEF Inv, Fresh, HasReason, Jobs

(* Whoever changes a row that a job has read makes its copy an older one.  *)
LEMMA FreshNext ==
  ASSUME TypeOK, Effect, NEW j \in Jobs, NEW o \in Orders, Fresh(j, o)
  PROVE  Fresh(j, o)'
<1>1. snap[j][o].version \in Nat /\ row[o].version \in Nat
  BY DEF TypeOK, Rows
<1>2. CASE snap'[j][o] = snap[j][o]
  <2>1. CASE Same(o)
    BY <1>2, <2>1 DEF Same, Fresh, Unchanged
  <2>2. CASE Changed(o)
    <3>1. row'[o].version = row[o].version + 1
      BY <2>2 DEF Changed
    <3>2. snap'[j][o].version < row'[o].version
      BY <1>1, <1>2, <3>1 DEF Fresh
    <3>. QED
      BY <1>1, <1>2, <3>1, <3>2 DEF Fresh, Unchanged
  <2>. QED
    BY <2>1, <2>2 DEF Effect
<1>3. CASE snap'[j][o] = row[o] /\ row' = row
  BY <1>1, <1>3 DEF Fresh, Unchanged
<1>. QED
  BY <1>2, <1>3 DEF Effect, Moves

(* A suspension, and a termination, finds the row as the job has read it.  *)
LEMMA ReasonHolds ==
  ASSUME Inv, NEW o \in Orders
  PROVE  /\ Suspended(o) => row[o].expiresAt < clock
         /\ \A j \in Jobs : TerminatedBy(j, o) =>
               /\ row[o].expiresAt < clock
               /\ Suspends[plan[o]] =>
                     /\ row[o].status = "SUSPENDED"
                     /\ clock >= row[o].suspendedAt + Grace[plan[o]]
<1>1. HasReason(o) /\ Fresh("expired", o) /\ Fresh("suspended", o)
  BY DEF Inv, Jobs
<1>. QED
  BY <1>1 DEF Suspended, TerminatedBy, HasReason, Fresh

LEMMA ReasonNext ==
  ASSUME Inv, Effect, NEW o \in Orders
  PROVE  HasReason(o)'
<1>1. HasReason(o) /\ TypeOK
  BY DEF Inv
<1>2. /\ clock \in Nat /\ row[o].expiresAt \in Nat
      /\ snap["expired"][o].expiresAt \in Nat
      /\ snap["suspended"][o].suspendedAt \in Nat /\ Grace[plan[o]] \in Nat
  BY <1>1, LifecycleAssumption DEF TypeOK, Rows, Jobs
<1>3. plan' = plan /\ clock' \in {clock, clock + 1}
  BY DEF Effect
<1>4. ASSUME pc'["expired"][o] = "selected"
      PROVE  snap'["expired"][o].expiresAt < clock'
  <2>1. Moves("expired", o)
    BY DEF Effect, Jobs
  <2>2. CASE Due("expired", o) /\ snap'["expired"][o] = row[o]
    BY <1>2, <1>3, <2>2 DEF Due, Expired
  <2>. QED
    BY <1>1, <1>2, <1>3, <1>4, <2>1, <2>2 DEF Moves, HasReason
<1>5. ASSUME pc'["suspended"][o] = "selected"
      PROVE  /\ snap'["suspended"][o].status = "SUSPENDED"
             /\ clock' >= snap'["suspended"][o].suspendedAt + Grace[plan[o]]
  <2>1. Moves("suspended", o)
    BY DEF Effect, Jobs
  <2>2. CASE Due("suspended", o) /\ snap'["suspended"][o] = row[o]
    <3>1. row[o].suspendedAt \in Nat
      BY <1>1, RowColumns
    <3>. QED
      BY <1>2, <1>3, <2>2, <3>1 DEF Due, GraceOver
  <2>. QED
    BY <1>1, <1>2, <1>3, <1>5, <2>1, <2>2 DEF Moves, HasReason
<1>6. ASSUME row'[o].status = "SUSPENDED"
      PROVE  row'[o].expiresAt < clock'
  <2>1. CASE Same(o)
    BY <1>1, <1>2, <1>3, <1>6, <2>1 DEF Same, HasReason
  <2>2. CASE Changed(o)
    <3>1. Suspended(o)
      BY <1>6, <2>2 DEF Changed, Marked, Extended, TerminatedBy
    <3>2. row[o].expiresAt < clock /\ row'[o].expiresAt = row[o].expiresAt
      BY <3>1, ReasonHolds DEF Suspended
    <3>. QED
      BY <1>2, <1>3, <3>2
  <2>. QED
    BY <2>1, <2>2 DEF Effect
<1>. QED
  BY <1>3, <1>4, <1>5, <1>6 DEF HasReason

LEMMA InvNext == Inv /\ [Next]_vars => Inv'
<1>. SUFFICES ASSUME Inv, [Next]_vars PROVE Inv'
  OBVIOUS
<1>1. Effect
  BY StepEffect DEF Inv
<1>2. TypeOK'
  BY <1>1 DEF Effect
<1>3. \A j \in Jobs, o \in Orders : Fresh(j, o)'
  BY <1>1, FreshNext DEF Inv
<1>4. \A o \in Orders : HasReason(o)'
  BY <1>1, ReasonNext
<1>. QED
  BY <1>2, <1>3, <1>4 DEF Inv

(* No customer loses a server early, whatever the overlap of the jobs, the *)
(* staleness of their snapshots, the errors and the crashes.               *)
THEOREM NothingEarly == Spec => NeverEarly
<1> DEFINE Late(o) ==
      /\ row'[o].status = "SUSPENDED" /\ row[o].status # "SUSPENDED" =>
            row[o].expiresAt < clock
      /\ row'[o].status = "TERMINATED" /\ row[o].status # "TERMINATED" =>
            /\ row[o].expiresAt < clock
            /\ Suspends[plan[o]] =>
                  /\ row[o].status = "SUSPENDED"
                  /\ clock >= row[o].suspendedAt + Grace[plan[o]]
<1>1. Inv /\ [Next]_vars => [\A o \in Orders : Late(o)]_vars
  <2>. SUFFICES ASSUME Inv, [Next]_vars, NEW o \in Orders PROVE Late(o)
    OBVIOUS
  <2>1. Same(o) \/ Changed(o)
    BY StepEffect DEF Inv, Effect
  <2>2. CASE Same(o)
    BY <2>2 DEF Same
  <2>3. CASE Changed(o)
    BY <2>3, ReasonHolds DEF Changed, Marked, Suspended, Extended, TerminatedBy
  <2>. QED
    BY <2>1, <2>2, <2>3
<1>. QED
  BY <1>1, InvInit, InvNext, PTL DEF Spec, NeverEarly

(* A suspended or terminated order comes back only by a renewal that has   *)
(* been paid for.                                                          *)
THEOREM RenewalRevives == Spec => OnlyRenewalRevives
<1> DEFINE Revived(o) ==
      ~Running(o) /\ row'[o].status \in {"ACTIVE", "EXPIRING_SOON"} =>
         pc["renewals"][o] = "paid" /\ row'[o].status = "ACTIVE"
<1>1. Inv /\ [Next]_vars => [\A o \in Orders : Revived(o)]_vars
  <2>. SUFFICES ASSUME Inv, [Next]_vars, NEW o \in Orders PROVE Revived(o)
    OBVIOUS
  <2>1. Same(o) \/ Changed(o)
    BY StepEffect DEF Inv, Effect
  <2>. QED
    BY <2>1 DEF Same, Changed, Marked, Suspended, Extended, TerminatedBy, Running
<1>. QED
  BY <1>1, InvInit, InvNext, PTL DEF Spec, OnlyRenewalRevives

-----------------------------------------------------------------------------
(* The inductive invariant behind PaymentsExplained: between the deduction *)
(* and the update one payment is ahead of the renewals.                    *)

InHand(o) == IF pc["renewals"][o] = "paid" THEN 1 ELSE 0

PaidFor(o) ==
    /\ renewed[o] + InHand(o) <= debits[o]
    /\ debits[o] <= renewed[o] + faults + InHand(o)

(* A step between two places that are both not the one behind the          *)
(* deduction.                                                              *)
LEMMA NotPaying ==
  ASSUME TypeOK, NEW p \in Orders, PaidFor(p), NEW j \in Jobs, NEW o \in Orders,
         NEW label \in Labels \ {"paid"}, Goto(j, o, label),
         pc[j][o] # "paid" \/ j # "renewals",
         UNCHANGED <<debits, renewed, faults>>
  PROVE  PaidFor(p)'
<1>1. pc'["renewals"][p] = "paid" <=> pc["renewals"][p] = "paid"
  BY GotoEffect DEF Jobs
<1>. QED
  BY <1>1 DEF PaidFor, InHand

LEMMA CountTypes ==
  ASSUME TypeOK, NEW p \in Orders
  PROVE  renewed[p] \in Nat /\ debits[p] \in Nat /\ faults \in Nat
  BY DEF TypeOK

LEMMA DeductPaid ==
  ASSUME TypeOK, NEW p \in Orders, PaidFor(p), NEW o \in Orders, Deduct(o)
  PROVE  PaidFor(p)'
<1>1. /\ pc["renewals"][o] = "paying" /\ Goto("renewals", o, "paid")
      /\ debits' = [debits EXCEPT ![o] = @ + 1] /\ UNCHANGED <<renewed, faults>>
  BY DEF Deduct, Charge
<1>2. /\ pc'["renewals"][o] = "paid"
      /\ p # o => pc'["renewals"][p] = pc["renewals"][p]
  BY <1>1, GotoEffect DEF Jobs, Labels
<1>3. debits'[p] = IF p = o THEN debits[p] + 1 ELSE debits[p]
  BY <1>1 DEF TypeOK
<1>. QED
  BY <1>1, <1>2, <1>3, CountTypes DEF PaidFor, InHand

LEMMA RenewPaid ==
  ASSUME TypeOK, NEW p \in Orders, PaidFor(p), NEW o \in Orders, Renew(o)
  PROVE  PaidFor(p)'
<1>1. /\ pc["renewals"][o] = "paid" /\ Goto("renewals", o, "idle")
      /\ Extend(o) /\ UNCHANGED <<debits, faults>>
  BY DEF Renew, billing
<1>2. /\ pc'["renewals"][o] = "idle"
      /\ p # o => pc'["renewals"][p] = pc["renewals"][p]
  BY <1>1, GotoEffect DEF Jobs, Labels
<1>3. renewed'[p] = IF p = o THEN renewed[p] + 1 ELSE renewed[p]
  BY <1>1, ExtendEffect
<1>. QED
  BY <1>1, <1>2, <1>3, CountTypes DEF PaidFor, InHand

(* An error costs at most the one payment it is counted for. *)
LEMMA FaultPaid ==
  ASSUME TypeOK, NEW p \in Orders, PaidFor(p), NEW j \in Jobs, NEW o \in Orders,
         Stop(j, o) \/ (j = "renewals" /\ RenewalError(o))
  PROVE  PaidFor(p)'
<1>1. /\ faults' = faults + 1
      /\ \E label \in Labels \ {"paid"} : Goto(j, o, label)
  BY DEF Stop, RenewalError, Fault, Labels
<1>2. /\ pc'[j][o] # "paid"
      /\ j # "renewals" \/ p # o => pc'["renewals"][p] = pc["renewals"][p]
  BY <1>1, GotoEffect DEF Jobs
<1>3. CASE UNCHANGED <<debits, renewed>>
  BY <1>1, <1>2, <1>3, CountTypes DEF PaidFor, InHand
<1>4. CASE j = "renewals" /\ pc[j][o] = "paying" /\ Charge(o) /\ renewed' = renewed
  <2>1. debits'[p] = IF p = o THEN debits[p] + 1 ELSE debits[p]
    BY <1>4 DEF Charge, TypeOK
  <2>. QED
    BY <1>1, <1>2, <1>4, <2>1, CountTypes DEF PaidFor, InHand
<1>5. CASE j = "renewals" /\ pc[j][o] = "paid" /\ Extend(o) /\ debits' = debits
  <2>1. renewed'[p] = IF p = o THEN renewed[p] + 1 ELSE renewed[p]
    BY <1>5, ExtendEffect
  <2>. QED
    BY <1>1, <1>2, <1>5, <2>1, CountTypes DEF PaidFor, InHand
<1>. QED
  BY <1>3, <1>4, <1>5 DEF Stop, RenewalError, billing

LEMMA PaidNext ==
  ASSUME TypeOK, NEW p \in Orders, PaidFor(p), [Next]_vars
  PROVE  PaidFor(p)'
<1>1. ASSUME NEW j \in Jobs, NEW o \in Orders, Work(j, o) PROVE PaidFor(p)'
  <2>1. CASE Deduct(o)
    BY <2>1, DeductPaid
  <2>2. CASE Renew(o)
    BY <2>2, RenewPaid
  <2>3. CASE Select(j, o) \/ Terminate(j, o) \/ Destroy(j, o)
    <3>1. /\ \E label \in Labels \ {"paid"} : Goto(j, o, label)
          /\ pc[j][o] # "paid" /\ UNCHANGED <<debits, renewed, faults>>
      BY <2>3 DEF Select, Terminate, Destroy, Labels, billing
    <3>. QED
      BY <3>1, NotPaying
  <2>4. CASE CheckFunds(o) \/ Refused(o) \/ RenewalFailed(o)
    <3>1. /\ \E label \in Labels \ {"paid"} : Goto("renewals", o, label)
          /\ pc["renewals"][o] # "paid" /\ UNCHANGED <<debits, renewed, faults>>
      BY <2>4 DEF CheckFunds, Refused, RenewalFailed, Labels, billing
    <3>. QED
      BY <3>1, NotPaying DEF Jobs
  <2>5. CASE Warn(o) \/ Mark(o) \/ Suspend(o) \/ PowerOff(o)
    <3>1. /\ \E i \in Jobs \ {"renewals"}, label \in Labels \ {"paid"} : Goto(i, o, label)
          /\ UNCHANGED <<debits, renewed, faults>>
      BY <2>5 DEF Warn, Mark, Suspend, PowerOff, Labels, Jobs, billing
    <3>. QED
      BY <3>1, NotPaying
  <2>. QED
    BY <1>1, <2>1, <2>2, <2>3, <2>4, <2>5 DEF Work
<1>2. ASSUME NEW j \in Jobs, NEW o \in Orders, Stop(j, o) PROVE PaidFor(p)'
  BY <1>2, FaultPaid
<1>3. ASSUME NEW o \in Orders, RenewalError(o) PROVE PaidFor(p)'
  BY <1>3, FaultPaid DEF Jobs
<1>4. CASE Spend \/ Advance \/ UNCHANGED vars
  BY <1>4 DEF Spend, Advance, vars, billing, PaidFor, InHand
<1>. QED
  BY <1>1, <1>2, <1>3, <1>4 DEF Next, Terminated

(* The overlap of the jobs alone charges nobody twice: every charge is a   *)
(* renewal, is about to be one, or has an error or a crash behind it.      *)
THEOREM ChargesExplained == Spec => []PaymentsExplained
<1> DEFINE Books == TypeOK /\ \A o \in Orders : PaidFor(o)
<1>1. Init => Books
  BY TypeInit DEF Init, PaidFor, InHand, Jobs
<1>2. Books /\ [Next]_vars => Books'
  BY StepEffect, PaidNext DEF Effect
<1>3. Books => PaymentsExplained
  <2>. SUFFICES ASSUME Books, NEW o \in Orders
                PROVE  /\ renewed[o] <= debits[o]
                       /\ debits[o] <= renewed[o] + faults
                             + (IF pc["renewals"][o] = "paid" THEN 1 ELSE 0)
    BY DEF PaymentsExplained
  <2>1. renewed[o] \in Nat /\ debits[o] \in Nat /\ PaidFor(o)
    BY CountTypes
  <2>2. InHand(o) \in Nat
    BY DEF InHand
  <2>. QED
    BY <2>1, <2>2 DEF PaidFor, InHand
<1>. QED
  BY <1>1, <1>2, <1>3, PTL DEF Spec

-----------------------------------------------------------------------------
(* The inductive invariant behind ServerRuns: a job touches the server     *)
(* only behind its own update of the row.                                  *)

Down(o) == ~Running(o) \/ renewed[o] > 0

Behind(j, o) == pc[j][o] \in {"poweringoff", "destroying"}

ServerInv(o) == server[o] # "on" \/ (\E j \in Jobs : Behind(j, o)) => Down(o)

(* Only a renewal ends the state a suspension or termination begins.       *)
LEMMA DownStays ==
  ASSUME TypeOK, Effect, NEW o \in Orders, Down(o)
  PROVE  Down(o)'
<1>1. renewed[o] \in Nat /\ renewed'[o] \in {renewed[o], renewed[o] + 1}
  BY DEF TypeOK, Effect
<1>2. Same(o) \/ Changed(o)
  BY DEF Effect
<1>3. CASE renewed[o] > 0
  BY <1>1, <1>3 DEF Down
<1>4. CASE ~Running(o)
  BY <1>1, <1>2, <1>4
  DEF Down, Same, Changed, Marked, Suspended, Extended, TerminatedBy, Running
<1>. QED
  BY <1>3, <1>4 DEF Down

(* How a job gets to the server, and what becomes of the server.           *)
Reaches(o) ==
    /\ \A j \in Jobs : Behind(j, o)' => Behind(j, o) \/ ~Running(o)'
    /\ server'[o] # server[o] => \E j \in Jobs : Behind(j, o)

LEMMA ReachesElsewhere ==
  ASSUME TypeOK, NEW p \in Orders, NEW j \in Jobs, NEW o \in Orders,
         NEW label \in Labels \ {"poweringoff", "destroying"},
         Goto(j, o, label), server' = server
  PROVE  Reaches(p)
<1>1. \A i \in Jobs : Behind(i, p)' => Behind(i, p)
  BY GotoEffect DEF Behind
<1>. QED
  BY <1>1 DEF Reaches

LEMMA ReachesServer ==
  ASSUME TypeOK, NEW p \in Orders, NEW j \in Jobs, NEW o \in Orders,
         (j = "expired" /\ Suspend(o)) \/ Terminate(j, o)
         \/ (j = "expired" /\ PowerOff(o)) \/ Destroy(j, o)
  PROVE  Reaches(p)
<1>1. CASE j = "expired" /\ Suspend(o)
  <2>1. CASE Goto(j, o, "idle")
    BY <1>1, <2>1, ReachesElsewhere DEF Suspend, Labels
  <2>2. CASE /\ Goto(j, o, "poweringoff")
             /\ row' = [row EXCEPT ![o].status = "SUSPENDED",
                                   ![o].suspendedAt = clock, ![o].version = @ + 1]
    <3>1. row'[o].status = "SUSPENDED"
      BY <2>2, SuspendEffect
    <3>2. \A i \in Jobs : i # j \/ p # o => pc'[i][p] = pc[i][p]
      BY <2>2, GotoEffect DEF Labels
    <3>. QED
      BY <1>1, <3>1, <3>2 DEF Reaches, Behind, Running, Suspend
  <2>. QED
    BY <1>1, <2>1, <2>2 DEF Suspend
<1>2. CASE Terminate(j, o)
  <2>1. CASE Goto(j, o, "idle")
    BY <1>2, <2>1, ReachesElsewhere DEF Terminate, Labels
  <2>2. CASE Goto(j, o, "destroying") /\ SetStatus(o, "TERMINATED")
    <3>1. row'[o].status = "TERMINATED"
      BY <2>2, SetStatusEffect
    <3>2. \A i \in Jobs : i # j \/ p # o => pc'[i][p] = pc[i][p]
      BY <2>2, GotoEffect DEF Labels
    <3>. QED
      BY <1>2, <3>1, <3>2 DEF Reaches, Behind, Running, Terminate
  <2>. QED
    BY <1>2, <2>1, <2>2 DEF Terminate
<1>3. CASE (j = "expired" /\ PowerOff(o)) \/ Destroy(j, o)
  <2>1. /\ Goto(j, o, "idle") /\ Behind(j, o)
        /\ p # o => server'[p] = server[p]
    BY <1>3 DEF PowerOff, Destroy, Behind, TypeOK
  <2>2. \A i \in Jobs : Behind(i, p)' => Behind(i, p)
    BY <2>1, GotoEffect DEF Behind, Labels
  <2>. QED
    BY <2>1, <2>2 DEF Reaches
<1>. QED
  BY <1>1, <1>2, <1>3

LEMMA ReachesNext ==
  ASSUME TypeOK, NEW p \in Orders, [Next]_vars
  PROVE  Reaches(p)
<1>1. ASSUME NEW j \in Jobs, NEW o \in Orders, Work(j, o) PROVE Reaches(p)
  <2>1. CASE \/ Terminate(j, o) \/ Destroy(j, o)
             \/ j = "expired" /\ (Suspend(o) \/ PowerOff(o))
    BY <2>1, ReachesServer
  <2>2. CASE \/ Select(j, o) \/ (j = "expiring" /\ (Warn(o) \/ Mark(o)))
             \/ /\ j = "renewals"
                /\ CheckFunds(o) \/ Deduct(o) \/ Refused(o) \/ Renew(o)
                   \/ RenewalFailed(o)
    <3>1. /\ \E label \in Labels \ {"poweringoff", "destroying"} : Goto(j, o, label)
          /\ server' = server
      BY <2>2 DEF Select, Warn, Mark, CheckFunds, Deduct, Refused, Renew,
                  RenewalFailed, Labels
    <3>. QED
      BY <3>1, ReachesElsewhere
  <2>. QED
    BY <1>1, <2>1, <2>2 DEF Work
<1>2. ASSUME NEW j \in Jobs, NEW o \in Orders, Stop(j, o) PROVE Reaches(p)
  BY <1>2, ReachesElsewhere DEF Stop, Labels
<1>3. ASSUME NEW o \in Orders, RenewalError(o) PROVE Reaches(p)
  BY <1>3, ReachesElsewhere DEF RenewalError, Labels, Jobs
<1>4. CASE Spend \/ Advance \/ UNCHANGED vars
  BY <1>4 DEF Spend, Advance, vars, Reaches, Behind
<1>. QED
  BY <1>1, <1>2, <1>3, <1>4 DEF Next, Terminated

(* A server that is off or gone is sold as running only behind a renewal.  *)
THEOREM RunningServed == Spec => []ServerRuns
<1> DEFINE Served == TypeOK /\ \A o \in Orders : ServerInv(o)
<1>1. Init => Served
  BY TypeInit DEF Init, ServerInv, Behind
<1>2. Served /\ [Next]_vars => Served'
  <2>. SUFFICES ASSUME Served, [Next]_vars PROVE Served'
    OBVIOUS
  <2>1. Effect /\ TypeOK'
    BY StepEffect DEF Effect
  <2>2. ASSUME NEW o \in Orders PROVE ServerInv(o)'
    <3>1. Reaches(o) /\ ServerInv(o)
      BY ReachesNext
    <3>2. Down(o) => Down(o)'
      BY <2>1, DownStays
    <3>. QED
      BY <3>1, <3>2 DEF Reaches, ServerInv, Down
  <2>. QED
    BY <2>1, <2>2
<1>3. Served => ServerRuns
  BY DEF ServerInv, Down, ServerRuns
<1>. QED
  BY <1>1, <1>2, <1>3, PTL DEF Spec

-----------------------------------------------------------------------------
(* The pool of accounts whose droplets a termination gives back: proofs    *)
(* about DoAccounts, for any accounts, requests, limits and outages.       *)

(* While p selects, an account that has been open all along is still to be *)
(* tried, or under trial with a number read that leaves room; a selection  *)
(* ends in a refusal only when none is left.                               *)
UnderTrial(p, a) ==
    /\ req[p].at \in {"looking", "unreachable"} /\ req[p].on = a
    /\ req[p].at = "looking" => req[p].seen < Limit[a]

Pending(p) ==
    /\ req[p].at \in Selecting =>
         \A a \in free[p] : Open(a) /\ (a \in req[p].todo \/ UnderTrial(p, a))
    /\ req[p].at = "refused" => free[p] = {}

PoolInv == PoolTypeOK /\ \A p \in Requests : Pending(p)

-----------------------------------------------------------------------------
LEMMA PoolTypeInit == PoolInit => PoolTypeOK
<1>1. Blank("idle") \in Progress
  BY DEF Blank, Progress
<1>2. [health |-> "HEALTHY", count |-> 0] \in AccountRows
  BY DEF AccountRows, Healths
<1> QED
  BY <1>1, <1>2, AccountsAssumption DEF PoolInit, PoolTypeOK

LEMMA DropletsNat ==
    ASSUME NEW a
    PROVE  Droplets(a) \in Nat
<1>1. IsFiniteSet({p \in Requests : droplet[p] = a})
  BY FS_Subset, AccountsAssumption
<1> QED
  BY <1>1, FS_CardinalityType DEF Droplets, Cardinality, Cardinality

(* The helpers keep rows and requests well-typed. *)
LEMMA RowTypes ==
    ASSUME PoolTypeOK, NEW a
    PROVE  /\ \A h \in Healths :
                SetHealth(a, h) => account' \in [Accounts -> AccountRows \cup {None}]
           /\ \A n \in Int :
                SetCount(a, n) => account' \in [Accounts -> AccountRows \cup {None}]
<1>1. ASSUME NEW h \in Healths, SetHealth(a, h)
      PROVE  account' \in [Accounts -> AccountRows \cup {None}]
  <2>1. CASE Exists(a) /\ a \in Accounts
    <3>1. account[a] \in AccountRows
      BY <2>1 DEF PoolTypeOK, Exists
    <3>2. [account[a] EXCEPT !.health = h] \in AccountRows
      BY <3>1 DEF AccountRows
    <3>3. account' = [account EXCEPT ![a] = [account[a] EXCEPT !.health = h]]
      BY <1>1, <2>1 DEF SetHealth
    <3> QED
      BY <3>2, <3>3 DEF PoolTypeOK
  <2>2. CASE ~(Exists(a) /\ a \in Accounts)
    BY <1>1, <2>2 DEF SetHealth, PoolTypeOK
  <2> QED
    BY <2>1, <2>2
<1>2. ASSUME NEW n \in Int, SetCount(a, n)
      PROVE  account' \in [Accounts -> AccountRows \cup {None}]
  BY <1>2, AccountsAssumption DEF PoolTypeOK, SetCount, AccountRows, Healths
<1> QED
  BY <1>1, <1>2

LEMMA WatchType ==
    ASSUME Watch
    PROVE  free' \in [Requests -> SUBSET Accounts]
  BY DEF Watch

PoolLabels ==
    {"idle", "selected", "refused", "done", "deleted", "decrementing", "over"}
        \cup Selecting \cup Unfinished

LEMMA RequestTypes ==
    ASSUME PoolTypeOK, NEW p \in Requests
    PROVE  /\ req[p].on \in Accounts \cup {None} /\ req[p].seen \in Int
           /\ req[p].todo \subseteq Accounts
           /\ \A label \in PoolLabels : Move(p, label) => req' \in [Requests -> Progress]
           /\ End(p) => req' \in [Requests -> Progress]
<1>1. /\ req[p] \in Progress
      /\ \A r \in Progress : [req EXCEPT ![p] = r] \in [Requests -> Progress]
  BY DEF PoolTypeOK
<1>2. /\ req[p].on \in Accounts \cup {None} /\ req[p].seen \in Int
      /\ req[p].todo \subseteq Accounts
  BY <1>1 DEF Progress
<1>3. ASSUME NEW label \in PoolLabels, Move(p, label)
      PROVE  req' \in [Requests -> Progress]
  <2>1. [req[p] EXCEPT !.at = label] \in Progress
    BY <1>1 DEF Progress, PoolLabels
  <2>2. req' = [req EXCEPT ![p] = [req[p] EXCEPT !.at = label]]
    BY <1>3 DEF Move
  <2> QED
    BY <1>1, <2>1, <2>2
<1>4. Blank("over") \in Progress
  BY DEF Blank, Progress
<1> QED
  BY <1>1, <1>2, <1>3, <1>4 DEF End

LEMMA LookType ==
    ASSUME PoolTypeOK, NEW p \in Requests, Look(p)
    PROVE  req' \in [Requests -> Progress]
<1>1. PICK a \in req[p].todo :
         req' = [req EXCEPT ![p] =
                    [at |-> IF Exists(a) /\ up[a] THEN "looking" ELSE "unreachable",
                     todo |-> req[p].todo \ {a}, on |-> a, seen |-> Droplets(a)]]
  BY DEF Look
<1>2. a \in Accounts /\ req[p].todo \subseteq Accounts /\ Droplets(a) \in Int
  BY RequestTypes, DropletsNat
<1>3. [at |-> IF Exists(a) /\ up[a] THEN "looking" ELSE "unreachable",
       todo |-> req[p].todo \ {a}, on |-> a, seen |-> Droplets(a)] \in Progress
  BY <1>2 DEF Progress, Selecting
<1> QED
  BY <1>1, <1>3 DEF PoolTypeOK

LEMMA CachedTypes ==
    ASSUME PoolTypeOK, NEW a, Exists(a),
           \/ account' = [account EXCEPT ![a].count = @ + 1]
           \/ account' = [account EXCEPT ![a].count = @ - 1]
    PROVE  account' \in [Accounts -> AccountRows \cup {None}]
<1>1. CASE a \in Accounts
  <2>1. account[a] \in AccountRows
    BY <1>1 DEF PoolTypeOK, Exists
  <2>2. \A n \in Int : [account[a] EXCEPT !.count = n] \in AccountRows
    BY <2>1 DEF AccountRows
  <2>3. PICK n \in {account[a].count + 1, account[a].count - 1} :
           account' = [account EXCEPT ![a] = [account[a] EXCEPT !.count = n]]
    OBVIOUS
  <2>4. n \in Int
    BY <2>1, <2>3 DEF AccountRows
  <2> QED
    BY <2>2, <2>3, <2>4 DEF PoolTypeOK
<1>2. CASE a \notin Accounts
  BY <1>2 DEF PoolTypeOK
<1> QED
  BY <1>1, <1>2

LEMMA PoolTypeStep ==
    ASSUME PoolTypeOK, [PoolNext]_poolVars
    PROVE  PoolTypeOK'
<1> USE WatchType DEF jobs, api
<1>1. ASSUME NEW p \in Requests, StartSelection(p) PROVE PoolTypeOK'
  <2>1. req' \in [Requests -> Progress]
    <3>1. [req[p] EXCEPT !.at = "selecting",
                         !.todo = {a \in Accounts : Selectable(a)}] \in Progress
      BY DEF PoolTypeOK, Progress, Selecting
    <3>2. req' = [req EXCEPT ![p] = [req[p] EXCEPT !.at = "selecting",
                                       !.todo = {a \in Accounts : Selectable(a)}]]
      BY <1>1 DEF StartSelection, PoolTypeOK
    <3> QED
      BY <3>1, <3>2 DEF PoolTypeOK
  <2> QED
    BY <1>1, <2>1 DEF StartSelection, PoolTypeOK
<1>2. ASSUME NEW p \in Requests, Look(p) PROVE PoolTypeOK'
  BY <1>2, LookType DEF Look, PoolTypeOK
<1>3. ASSUME NEW p \in Requests, Take(p) PROVE PoolTypeOK'
  <2>1. [Blank("selected") EXCEPT !.on = req[p].on] \in Progress
    BY RequestTypes DEF Blank, Progress
  <2>2. req' \in [Requests -> Progress]
    BY <1>3, <2>1 DEF Take, PoolTypeOK
  <2>3. account' \in [Accounts -> AccountRows \cup {None}]
    BY <1>3, RowTypes, RequestTypes DEF Take
  <2> QED
    BY <1>3, <2>2, <2>3 DEF Take, PoolTypeOK
<1>4. ASSUME NEW p \in Requests, Skip(p) PROVE PoolTypeOK'
  <2>1. req' \in [Requests -> Progress]
    BY <1>4, RequestTypes DEF Skip, PoolLabels, Selecting
  <2>2. account' \in [Accounts -> AccountRows \cup {None}]
    BY <1>4, RowTypes, RequestTypes DEF Skip
  <2> QED
    BY <1>4, <2>1, <2>2 DEF Skip, PoolTypeOK
<1>5. ASSUME NEW p \in Requests, MarkUnhealthy(p) PROVE PoolTypeOK'
  <2>1. req' \in [Requests -> Progress]
    BY <1>5, RequestTypes DEF MarkUnhealthy, PoolLabels, Selecting
  <2>2. account' \in [Accounts -> AccountRows \cup {None}]
    BY <1>5, RowTypes DEF MarkUnhealthy, Healths
  <2> QED
    BY <1>5, <2>1, <2>2 DEF MarkUnhealthy, PoolTypeOK
<1>6. ASSUME NEW p \in Requests, Refuse(p) PROVE PoolTypeOK'
  <2>1. Blank("refused") \in Progress
    BY DEF Blank, Progress
  <2> QED
    BY <1>6, <2>1 DEF Refuse, PoolTypeOK
<1>7. ASSUME NEW p \in Requests, CreateTask(p) PROVE PoolTypeOK'
  BY <1>7, RequestTypes DEF CreateTask, PoolTypeOK, PoolLabels, Unfinished
<1>8. ASSUME NEW p \in Requests, CreateDroplet(p) PROVE PoolTypeOK'
  <2>1. req' \in [Requests -> Progress]
    BY <1>8, RequestTypes DEF CreateDroplet, PoolLabels, Unfinished
  <2>2. droplet' \in [Requests -> Accounts \cup {None}]
    BY <1>8, RequestTypes DEF CreateDroplet, PoolTypeOK
  <2> QED
    BY <1>8, <2>1, <2>2 DEF CreateDroplet, PoolTypeOK
<1>9. ASSUME NEW p \in Requests, Increment(p) PROVE PoolTypeOK'
  <2>1. req' \in [Requests -> Progress]
    BY <1>9, RequestTypes DEF Increment, PoolLabels, Unfinished
  <2>2. account' \in [Accounts -> AccountRows \cup {None}]
    BY <1>9, CachedTypes DEF Increment, PoolTypeOK
  <2> QED
    BY <1>9, <2>1, <2>2 DEF Increment, PoolTypeOK
<1>10. ASSUME NEW p \in Requests, Finish(p) PROVE PoolTypeOK'
  BY <1>10, RequestTypes DEF Finish, PoolTypeOK, PoolLabels
<1>11. ASSUME NEW p \in Requests, Die(p) PROVE PoolTypeOK'
  BY <1>11, RequestTypes DEF Die, PoolTypeOK, PoolLabels, Unfinished
<1>12. ASSUME NEW p \in Requests, DeleteDroplet(p) PROVE PoolTypeOK'
  <2>1. req' \in [Requests -> Progress]
    BY <1>12, RequestTypes DEF DeleteDroplet, PoolLabels
  <2> QED
    BY <1>12, <2>1 DEF DeleteDroplet, PoolTypeOK
<1>13. ASSUME NEW p \in Requests, ReadCount(p) PROVE PoolTypeOK'
  BY <1>13, RequestTypes DEF ReadCount, PoolTypeOK, PoolLabels
<1>14. ASSUME NEW p \in Requests, Decrement(p) PROVE PoolTypeOK'
  <2>1. req' \in [Requests -> Progress]
    BY <1>14, RequestTypes DEF Decrement
  <2>2. account' \in [Accounts -> AccountRows \cup {None}]
    <3>1. CASE Exists(req[p].on)
      BY <1>14, <3>1, CachedTypes DEF Decrement
    <3>2. CASE ~Exists(req[p].on)
      BY <1>14, <3>2 DEF Decrement, PoolTypeOK
    <3> QED
      BY <3>1, <3>2
  <2> QED
    BY <1>14, <2>1, <2>2 DEF Decrement, PoolTypeOK
<1>15. ASSUME NEW a \in Accounts, SyncRead(a) PROVE PoolTypeOK'
  <2>1. Droplets(a) \in Int
    BY DropletsNat
  <2> QED
    BY <1>15, <2>1 DEF SyncRead, PoolTypeOK
<1>16. ASSUME NEW a \in Accounts, SyncWrite(a) PROVE PoolTypeOK'
  <2>1. sync[a] = Failed \/ sync[a] \in Int
    BY <1>16 DEF SyncWrite, PoolTypeOK
  <2>2. account' \in [Accounts -> AccountRows \cup {None}]
    BY <1>16, <2>1, RowTypes DEF SyncWrite, Healths
  <2> QED
    BY <1>16, <2>2 DEF SyncWrite, PoolTypeOK
<1>17. ASSUME NEW a \in Accounts, CheckRead(a) PROVE PoolTypeOK'
  BY <1>17 DEF CheckRead, PoolTypeOK, Healths
<1>18. ASSUME NEW a \in Accounts, CheckWrite(a) PROVE PoolTypeOK'
  <2>1. account' \in [Accounts -> AccountRows \cup {None}]
    BY <1>18, RowTypes DEF CheckWrite, PoolTypeOK
  <2> QED
    BY <1>18, <2>1 DEF CheckWrite, PoolTypeOK
<1>19. ASSUME NEW a \in Accounts, DeleteCheck(a) PROVE PoolTypeOK'
  BY <1>19 DEF DeleteCheck, PoolTypeOK
<1>20. ASSUME NEW a \in Accounts, Delete(a) PROVE PoolTypeOK'
  BY <1>20 DEF Delete, PoolTypeOK
<1>21. ASSUME NEW a \in Accounts, GoDown(a) PROVE PoolTypeOK'
  BY <1>21, AccountsAssumption DEF GoDown, PoolTypeOK
<1>22. ASSUME NEW a \in Accounts, ComeUp(a) PROVE PoolTypeOK'
  BY <1>22 DEF ComeUp, PoolTypeOK
<1>23. CASE UNCHANGED poolVars
  BY <1>23 DEF poolVars, PoolTypeOK
<1> QED
  BY <1>1, <1>2, <1>3, <1>4, <1>5, <1>6, <1>7, <1>8, <1>9, <1>10, <1>11, <1>12, <1>13,
     <1>14, <1>15, <1>16, <1>17, <1>18, <1>19, <1>20, <1>21, <1>22, <1>23
  DEF PoolNext, Step, PoolTerminated

-----------------------------------------------------------------------------
(* What the history says of a request.                                      *)
LEMMA WatchFacts ==
    ASSUME Watch, NEW p \in Requests
    PROVE  /\ req'[p].at \notin Selecting \cup {"refused"} => free'[p] = {}
           /\ \A a \in free'[p] :
                a \in Accounts /\ Open(a)' /\ (req[p].at = "idle" \/ a \in free[p])
  BY DEF Watch

(* A request that no longer selects, or whose process is another's, stays   *)
(* as it is.                                                                *)
LEMMA Bystander ==
    ASSUME NEW p \in Requests, Pending(p), req'[p] = req[p],
           Watch \/ UNCHANGED <<account, droplet, free>>
    PROVE  Pending(p)'
<1>1. CASE Watch
  BY <1>1, WatchFacts DEF Pending, UnderTrial, Selecting
<1>2. CASE UNCHANGED <<account, droplet, free>>
  BY <1>2
  DEF Pending, UnderTrial, Open, Selectable, Exists, HasRoom,
      Droplets
<1> QED
  BY <1>1, <1>2

LEMMA SelectionOver ==
    ASSUME NEW p \in Requests, Watch, req'[p].at \notin Selecting \cup {"refused"}
    PROVE  Pending(p)'
  BY DEF Pending

LEMMA RequestMoves ==
    ASSUME PoolTypeOK, NEW p \in Requests
    PROVE  /\ \A r : [req EXCEPT ![p] = r][p] = r
           /\ \A label : Move(p, label) =>
                req'[p] = [req[p] EXCEPT !.at = label] /\ req'[p].at = label
           /\ End(p) => req'[p].at = "over"
  BY DEF PoolTypeOK, Progress, Move, End, Blank

LEMMA PendingStep ==
    ASSUME PoolTypeOK, NEW p \in Requests, Pending(p),
           StartSelection(p) \/ Step(p)
    PROVE  Pending(p)'
<1> USE DEF Selecting
<1>0. /\ \A r : [req EXCEPT ![p] = r][p] = r
      /\ \A label : Move(p, label) => req'[p] = [req[p] EXCEPT !.at = label] /\ req'[p].at = label
      /\ End(p) => req'[p].at = "over"
  BY RequestMoves
<1>1. CASE StartSelection(p)
  <2>1. /\ req'[p].at = "selecting" /\ req'[p].todo = {a \in Accounts : Selectable(a)}
        /\ account' = account /\ Watch
    BY <1>1 DEF StartSelection, PoolTypeOK, Progress
  <2>2. \A a \in free'[p] : a \in Accounts /\ Open(a)'
    BY <2>1, WatchFacts
  <2> QED
    BY <2>1, <2>2 DEF Pending, Open, Selectable, Exists
<1>2. CASE Look(p)
  <2>1. PICK a \in req[p].todo :
           req' = [req EXCEPT ![p] =
                      [at |-> IF Exists(a) /\ up[a] THEN "looking" ELSE "unreachable",
                       todo |-> req[p].todo \ {a}, on |-> a, seen |-> Droplets(a)]]
    BY <1>2 DEF Look
  <2>2. /\ req'[p].at \in {"looking", "unreachable"} /\ req'[p].on = a
        /\ req'[p].todo = req[p].todo \ {a} /\ req'[p].seen = Droplets(a)
    BY <2>1 DEF PoolTypeOK
  <2>3. /\ req[p].at = "selecting" /\ Watch
        /\ \A b \in free[p] : b \in req[p].todo /\ HasRoom(b)
    BY <1>2 DEF Look, Pending, UnderTrial, Open
  <2>4. \A b \in free'[p] : Open(b)' /\ b \in free[p]
    BY <2>3, WatchFacts
  <2> QED
    BY <2>2, <2>3, <2>4 DEF Pending, UnderTrial, HasRoom
<1>3. CASE Take(p)
  BY <1>3, <1>0, SelectionOver DEF Take, Blank
<1>4. CASE Skip(p)
  <2>1. /\ req[p].at = "looking" /\ Watch /\ req'[p].at = "selecting"
        /\ req'[p].todo = req[p].todo /\ req[p].seen >= Limit[req[p].on]
    <3>1. /\ req[p].at = "looking" /\ Watch /\ Move(p, "selecting")
          /\ req[p].seen >= Limit[req[p].on]
      BY <1>4 DEF Skip
    <3>2. req'[p].at = "selecting" /\ req'[p].todo = req[p].todo
      BY <3>1, <1>0 DEF PoolTypeOK, Progress
    <3> QED
      BY <3>1, <3>2
  <2>2. \A a \in free'[p] : a \in Accounts /\ Open(a)' /\ a \in free[p]
    BY <2>1, WatchFacts
  <2>3. \A a \in Accounts : ~UnderTrial(p, a)
    BY <2>1, RequestTypes, AccountsAssumption DEF UnderTrial
  <2> QED
    BY <2>1, <2>2, <2>3 DEF Pending
<1>5. CASE MarkUnhealthy(p)
  <2>1. CASE ~Exists(req[p].on)
    BY <1>5, <1>0, <2>1, SelectionOver DEF MarkUnhealthy
  <2>2. CASE Exists(req[p].on)
    <3>1. /\ req[p].at = "unreachable" /\ Watch /\ req'[p].at = "selecting"
          /\ req'[p].todo = req[p].todo
          /\ account' = [account EXCEPT ![req[p].on].health = "UNHEALTHY"]
      BY <1>5, <1>0, <2>2 DEF MarkUnhealthy, SetHealth, PoolTypeOK, Progress
    <3>2. \A a \in free'[p] : a \in Accounts /\ Open(a)' /\ a \in free[p]
      BY <3>1, WatchFacts
    <3>3. ASSUME NEW a \in Accounts, a = req[p].on PROVE ~Open(a)'
      <4>1. account[a] \in AccountRows
        BY <2>2, <3>3 DEF Exists, PoolTypeOK
      <4>2. account'[a].health = "UNHEALTHY"
        BY <3>1, <3>3, <4>1 DEF PoolTypeOK, AccountRows
      <4> QED
        BY <4>2 DEF Open, Selectable
    <3>4. \A a \in free'[p] : a \in req'[p].todo
      BY <3>1, <3>2, <3>3 DEF Pending, UnderTrial
    <3> QED
      BY <3>1, <3>2, <3>4 DEF Pending
  <2> QED
    BY <2>1, <2>2
<1>6. CASE Refuse(p)
  <2>1. /\ req[p].at = "selecting" /\ req[p].todo = {} /\ Watch /\ req'[p].at = "refused"
    BY <1>6, <1>0 DEF Refuse, Blank
  <2>2. free[p] = {}
    BY <2>1 DEF Pending, UnderTrial
  <2> QED
    BY <2>1, <2>2, WatchFacts DEF Pending
<1>7. CASE CreateTask(p)
  BY <1>7, <1>0, SelectionOver DEF CreateTask
<1>8. CASE CreateDroplet(p)
  BY <1>8, <1>0, SelectionOver DEF CreateDroplet
<1>9. CASE Increment(p)
  BY <1>9, <1>0, SelectionOver DEF Increment
<1>10. CASE Finish(p)
  BY <1>10, <1>0, SelectionOver DEF Finish
<1>11. CASE Die(p)
  BY <1>11, <1>0, SelectionOver DEF Die
<1>12. CASE ReadCount(p)
  BY <1>12, <1>0, SelectionOver DEF ReadCount
<1>13. CASE Decrement(p)
  BY <1>13, <1>0, SelectionOver DEF Decrement
<1> QED
  BY <1>1, <1>2, <1>3, <1>4, <1>5, <1>6, <1>7, <1>8, <1>9, <1>10, <1>11, <1>12, <1>13
  DEF Step

LEMMA PoolStep ==
    ASSUME PoolInv, [PoolNext]_poolVars
    PROVE  PoolInv'
<1>0. PoolTypeOK /\ PoolTypeOK' /\ \A p \in Requests : Pending(p)
  BY PoolTypeStep DEF PoolInv
<1> SUFFICES ASSUME NEW p \in Requests PROVE Pending(p)'
  BY <1>0 DEF PoolInv
<1>1. ASSUME NEW q \in Requests, StartSelection(q) \/ Step(q) \/ DeleteDroplet(q)
      PROVE  Pending(p)'
  <2>1. Watch /\ (q # p => req'[p] = req[p])
    BY <1>0, <1>1
    DEF StartSelection, Step, Look, Take, Skip, MarkUnhealthy,
        Refuse, CreateTask,
        CreateDroplet, Increment, Finish, Die, ReadCount,
        Decrement, DeleteDroplet, Move, End, PoolTypeOK
  <2>2. CASE q # p
    BY <1>0, <2>1, <2>2, Bystander
  <2>3. CASE q = p /\ DeleteDroplet(p)
    <3>1. Move(p, "deleted") \/ End(p)
      BY <2>3 DEF DeleteDroplet
    <3>2. req'[p].at \in {"deleted", "over"}
      BY <1>0, <3>1, RequestMoves
    <3> QED
      BY <2>1, <3>2, SelectionOver DEF Selecting
  <2>4. CASE q = p /\ (StartSelection(p) \/ Step(p))
    BY <1>0, <2>4, PendingStep
  <2> QED
    BY <1>1, <2>2, <2>3, <2>4
<1>2. ASSUME NEW a \in Accounts,
             \/ SyncRead(a) \/ SyncWrite(a) \/ CheckRead(a) \/ CheckWrite(a)
             \/ DeleteCheck(a) \/ Delete(a) \/ GoDown(a) \/ ComeUp(a)
      PROVE  Pending(p)'
  <2>1. req' = req /\ (Watch \/ UNCHANGED <<account, droplet, free>>)
    BY <1>2
    DEF SyncRead, SyncWrite, CheckRead, CheckWrite, DeleteCheck,
        Delete, GoDown, ComeUp
  <2> QED
    BY <1>0, <2>1, Bystander
<1>3. CASE UNCHANGED poolVars
  BY <1>0, <1>3, Bystander DEF poolVars
<1> QED
  BY <1>1, <1>2, <1>3 DEF PoolNext, PoolTerminated

-----------------------------------------------------------------------------
(* Rows, requests, droplets and what the jobs have read keep their types:  *)
(* the cached number stays a number and the health a known one.            *)
THEOREM PoolTypes == PoolSpec => []PoolTypeOK
<1> QED
  BY PoolTypeInit, PoolTypeStep, PTL DEF PoolSpec

(* A selection that refused had, at every moment since it listed the       *)
(* accounts, no account that was selectable and had room all along, however *)
(* many selections, jobs, deletions and outages changed the pool meanwhile. *)
THEOREM RefusalsJustified == PoolSpec => []RefusalJustified
<1>1. PoolInit => PoolInv
  BY PoolTypeInit DEF PoolInit, Blank, PoolInv, Pending, Selecting
<1>2. PoolInv => RefusalJustified
  BY DEF PoolInv, Pending, RefusalJustified
<1> QED
  BY <1>1, <1>2, PoolStep, PTL DEF PoolSpec
=============================================================================
