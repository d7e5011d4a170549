------------------------------ MODULE Lifecycle ------------------------------
(***************************************************************************)
(* LifecycleService of order-service: what four cron jobs do to an order   *)
(* with a server, from its activation to its termination.                  *)
(*                                                                         *)
(* processExpiringVps warns and marks EXPIRING_SOON, processAutoRenewals   *)
(* charges the wallet and extends the order, processExpiredVps suspends or *)
(* terminates, processSuspendedVps terminates after the grace period.      *)
(* Each job reads its orders once and works them off from that snapshot;   *)
(* the jobs run under different locks, so they run together.  One run of a *)
(* job is taken apart into one worker per order, and no job overlaps with  *)
(* itself (DistributedLock).  Statements, calls and processes may fail.    *)
(***************************************************************************)
EXTENDS Integers

CONSTANTS
    Orders,
    Plans,        \* billing periods
    Term,         \* Term[p]: how long one period lasts
    Thresholds,   \* Thresholds[p]: when before the expiry a warning is sent
    Grace,        \* Grace[p]: the grace period after a suspension
    Suspends,     \* Suspends[p]: expiry suspends the server; else it destroys it
    Window,       \* an order is renewed when it expires within this time
    Price,        \* what a renewal costs
    Funds,        \* bound: what the wallet holds at first
    MaxTime,      \* bound: the clock stops here
    MaxFaults,    \* bound: how many errors and crashes there are
    Prompt        \* TRUE: time waits for the jobs that are due

Jobs == {"expiring", "renewals", "expired", "suspended"}

ASSUME LifecycleAssumption ==
    /\ Term \in [Plans -> Nat \ {0}]
    /\ Thresholds \in [Plans -> SUBSET Nat]
    /\ Grace \in [Plans -> Nat]
    /\ Suspends \in [Plans -> BOOLEAN]
    /\ {Window, Funds, MaxTime, MaxFaults} \subseteq Nat
    /\ Price \in Nat \ {0}
    /\ Prompt \in BOOLEAN

Rows == [status : {"ACTIVE", "EXPIRING_SOON", "SUSPENDED", "TERMINATED"},
         expiresAt : Nat, suspendedAt : Nat, version : Nat,
         failed : BOOLEAN]    \* renewalFailReason is set

VARIABLES
    clock,
    plan,      \* plan[o]: the billing period of o
    row,       \* row[o]: the row of o in orders
    warned,    \* warned[o]: the thresholds in its status history
    server,    \* server[o]: the droplet
    funds,     \* the wallet that pays for the renewals
    debits,    \* debits[o]: how often it was charged for o
    renewed,   \* renewed[o]: how often the expiry of o was extended
    pc,        \* pc[j][o]: how far job j has come with o
    snap,      \* snap[j][o]: the row as the job has read it
    level,     \* level[o]: the threshold processExpiringVps is at
    faults     \* the errors and crashes so far

vars == <<clock, plan, row, warned, server, funds, debits, renewed, pc, snap,
          level, faults>>

billing == <<funds, debits>>

NewOrder(p) ==
    [status |-> "ACTIVE", expiresAt |-> Term[p], suspendedAt |-> 0,
     version |-> 0, failed |-> FALSE]

TypeOK ==
    /\ clock \in Nat
    /\ plan \in [Orders -> Plans]
    /\ row \in [Orders -> Rows]
    /\ warned \in [Orders -> SUBSET Nat]
    /\ server \in [Orders -> {"on", "off", "destroyed"}]
    /\ funds \in Nat
    /\ debits \in [Orders -> Nat]
    /\ renewed \in [Orders -> Nat]
    /\ pc \in [Jobs -> [Orders ->
                 {"idle", "selected", "marking", "paying", "paid", "erring",
                  "poweringoff", "destroying"}]]
    /\ snap \in [Jobs -> [Orders -> Rows]]
    /\ level \in [Orders -> Nat]
    /\ faults \in Nat

(* Every order has just become ACTIVE (handleProvisioningSuccess), with    *)
(* autoRenew set, as createOrder does by default.                          *)
Init ==
    /\ clock = 0
    /\ plan \in [Orders -> Plans]
    /\ row = [o \in Orders |-> NewOrder(plan[o])]
    /\ warned = [o \in Orders |-> {}]
    /\ server = [o \in Orders |-> "on"]
    /\ funds \in 0..Funds
    /\ debits = [o \in Orders |-> 0]
    /\ renewed = [o \in Orders |-> 0]
    /\ pc = [j \in Jobs |-> [o \in Orders |-> "idle"]]
    /\ snap = [j \in Jobs |-> row]
    /\ level = [o \in Orders |-> 0]
    /\ faults = 0

-----------------------------------------------------------------------------
(* What the findMany of each job asks for, at the time it runs. *)

Running(o) == row[o].status \in {"ACTIVE", "EXPIRING_SOON"}

DueWarnings(o) ==
    {h \in Thresholds[plan[o]] \ warned[o] :
        Running(o) /\ clock <= row[o].expiresAt /\ row[o].expiresAt <= clock + h}

DueRenewal(o) ==
    /\ row[o].status = "EXPIRING_SOON"
    /\ row[o].expiresAt <= clock + Window
    /\ ~row[o].failed

Expired(o) == Running(o) /\ row[o].expiresAt < clock

GraceOver(o) ==
    /\ row[o].status = "SUSPENDED"
    /\ clock >= row[o].suspendedAt + Grace[plan[o]]

Due(j, o) ==
    \/ j = "expiring" /\ DueWarnings(o) # {}
    \/ j = "renewals" /\ DueRenewal(o)
    \/ j = "expired" /\ Expired(o)
    \/ j = "suspended" /\ GraceOver(o)

Goto(j, o, label) == pc' = [pc EXCEPT ![j][o] = label]

(* The job finds the order and keeps what it read. *)
Select(j, o) ==
    /\ pc[j][o] = "idle"
    /\ Due(j, o)
    /\ snap' = [snap EXCEPT ![j][o] = row[o]]
    /\ IF j = "expiring"
       THEN \E h \in DueWarnings(o) : level' = [level EXCEPT ![o] = h]
       ELSE level' = level
    /\ Goto(j, o, "selected")
    /\ UNCHANGED <<clock, plan, row, warned, server, billing, renewed, faults>>

-----------------------------------------------------------------------------
(* sendExpirationNotification. *)

Warn(o) ==
    /\ pc["expiring"][o] = "selected"
    /\ warned' = [warned EXCEPT ![o] = @ \cup {level[o]}]
    /\ Goto("expiring", o,
            IF snap["expiring"][o].status = "ACTIVE" THEN "marking" ELSE "idle")
    /\ UNCHANGED <<clock, plan, row, server, billing, renewed, snap, level, faults>>

(* A mutant of Unchanged: the version is not part of the condition. *)
AnyVersion(j, o) == TRUE

(* updateMany where the version is the one read. *)
Unchanged(j, o) == row[o].version = snap[j][o].version

SetStatus(o, status) ==
    row' = [row EXCEPT ![o].status = status, ![o].version = @ + 1]

(* A mutant of Mark: without its condition. *)
MarkAnyway(o) ==
    /\ pc["expiring"][o] = "marking"
    /\ SetStatus(o, "EXPIRING_SOON")
    /\ Goto("expiring", o, "idle")
    /\ UNCHANGED <<clock, plan, warned, server, billing, renewed, snap, level, faults>>

Mark(o) ==
    /\ pc["expiring"][o] = "marking"
    /\ IF row[o].status = "ACTIVE" /\ Unchanged("expiring", o)
       THEN SetStatus(o, "EXPIRING_SOON")
       ELSE row' = row
    /\ Goto("expiring", o, "idle")
    /\ UNCHANGED <<clock, plan, warned, server, billing, renewed, snap, level, faults>>

-----------------------------------------------------------------------------
(* attemptRenewal. *)

SetFailed(o) == row' = [row EXCEPT ![o].failed = TRUE]

(* checkSufficientBalance; without enough the renewal has failed. *)
CheckFunds(o) ==
    /\ pc["renewals"][o] = "selected"
    /\ IF funds >= Price
       THEN row' = row /\ Goto("renewals", o, "paying")
       ELSE SetFailed(o) /\ Goto("renewals", o, "idle")
    /\ UNCHANGED <<clock, plan, warned, server, billing, renewed, snap, level, faults>>

Charge(o) ==
    /\ funds >= Price
    /\ funds' = funds - Price
    /\ debits' = [debits EXCEPT ![o] = @ + 1]

Deduct(o) ==
    /\ pc["renewals"][o] = "paying"
    /\ Charge(o)
    /\ Goto("renewals", o, "paid")
    /\ UNCHANGED <<clock, plan, row, warned, server, renewed, snap, level, faults>>

(* billing refuses: something else has used the funds up. *)
Refused(o) ==
    /\ pc["renewals"][o] = "paying"
    /\ funds < Price
    /\ Goto("renewals", o, "erring")
    /\ UNCHANGED <<clock, plan, row, warned, server, billing, renewed, snap, level, faults>>

(* calculateNewExpiry, of the row that was read. *)
NewExpiry(o) ==
    LET read == snap["renewals"][o].expiresAt IN
    (IF read > clock THEN read ELSE clock) + Term[plan[o]]

(* The update has no condition. *)
Extend(o) ==
    /\ row' = [row EXCEPT ![o] =
                 [status |-> "ACTIVE", expiresAt |-> NewExpiry(o),
                  suspendedAt |-> @.suspendedAt, version |-> @.version + 1,
                  failed |-> FALSE]]
    /\ renewed' = [renewed EXCEPT ![o] = @ + 1]

(* A mutant of Renew: conditional on the version, without a refund. *)
RenewIfUnchanged(o) ==
    /\ pc["renewals"][o] = "paid"
    /\ IF Unchanged("renewals", o) THEN Extend(o) ELSE UNCHANGED <<row, renewed>>
    /\ Goto("renewals", o, "idle")
    /\ UNCHANGED <<clock, plan, warned, server, billing, snap, level, faults>>

Renew(o) ==
    /\ pc["renewals"][o] = "paid"
    /\ Extend(o)
    /\ Goto("renewals", o, "idle")
    /\ UNCHANGED <<clock, plan, warned, server, billing, snap, level, faults>>

(* The catch block. *)
RenewalFailed(o) ==
    /\ pc["renewals"][o] = "erring"
    /\ SetFailed(o)
    /\ Goto("renewals", o, "idle")
    /\ UNCHANGED <<clock, plan, warned, server, billing, renewed, snap, level, faults>>

-----------------------------------------------------------------------------
(* suspendVps and terminateVps. *)

(* A mutant of Suspend: EXPIRING_SOON is missing in its condition. *)
SuspendActive(o) ==
    /\ pc["expired"][o] = "selected"
    /\ Suspends[plan[o]]
    /\ IF row[o].status = "ACTIVE" /\ Unchanged("expired", o)
       THEN /\ row' = [row EXCEPT ![o].status = "SUSPENDED",
                                  ![o].suspendedAt = clock, ![o].version = @ + 1]
            /\ Goto("expired", o, "poweringoff")
       ELSE row' = row /\ Goto("expired", o, "idle")
    /\ UNCHANGED <<clock, plan, warned, server, billing, renewed, snap, level, faults>>

Suspend(o) ==
    /\ pc["expired"][o] = "selected"
    /\ Suspends[plan[o]]
    /\ IF Running(o) /\ Unchanged("expired", o)
       THEN /\ row' = [row EXCEPT ![o].status = "SUSPENDED",
                                  ![o].suspendedAt = clock, ![o].version = @ + 1]
            /\ Goto("expired", o, "poweringoff")
       ELSE row' = row /\ Goto("expired", o, "idle")
    /\ UNCHANGED <<clock, plan, warned, server, billing, renewed, snap, level, faults>>

Terminate(j, o) ==
    /\ pc[j][o] = "selected"
    /\ j = "suspended" \/ (j = "expired" /\ ~Suspends[plan[o]])
    /\ IF row[o].status # "TERMINATED" /\ Unchanged(j, o)
       THEN SetStatus(o, "TERMINATED") /\ Goto(j, o, "destroying")
       ELSE row' = row /\ Goto(j, o, "idle")
    /\ UNCHANGED <<clock, plan, warned, server, billing, renewed, snap, level, faults>>

PowerOff(o) ==
    /\ pc["expired"][o] = "poweringoff"
    /\ server' = [server EXCEPT ![o] = IF @ = "on" THEN "off" ELSE @]
    /\ Goto("expired", o, "idle")
    /\ UNCHANGED <<clock, plan, row, warned, billing, renewed, snap, level, faults>>

Destroy(j, o) ==
    /\ pc[j][o] = "destroying"
    /\ server' = [server EXCEPT ![o] = "destroyed"]
    /\ Goto(j, o, "idle")
    /\ UNCHANGED <<clock, plan, row, warned, billing, renewed, snap, level, faults>>

-----------------------------------------------------------------------------
(* What goes wrong. *)

Fault == faults < MaxFaults /\ faults' = faults + 1

(* attemptRenewal throws, before or after a step of its own took effect,   *)
(* or in the records and notifications behind the last one.                *)
RenewalError(o) ==
    /\ Fault
    /\ \/ /\ pc["renewals"][o] \in {"selected", "paying", "paid"}
          /\ UNCHANGED <<row, billing, renewed>>
       \/ pc["renewals"][o] = "paying" /\ Charge(o) /\ UNCHANGED <<row, renewed>>
       \/ pc["renewals"][o] = "paid" /\ Extend(o) /\ UNCHANGED billing
    /\ Goto("renewals", o, "erring")
    /\ UNCHANGED <<clock, plan, warned, server, snap, level>>

(* Any other error ends the job's work on this order (powerOffDroplet and  *)
(* destroyDroplet swallow theirs), and so does the death of the process.   *)
Stop(j, o) ==
    /\ Fault
    /\ pc[j][o] # "idle"
    /\ Goto(j, o, "idle")
    /\ UNCHANGED <<clock, plan, row, warned, server, billing, renewed, snap, level>>

-----------------------------------------------------------------------------
(* The customer buys something else from the same wallet. *)
Spend ==
    /\ funds >= Price
    /\ funds' = funds - Price
    /\ UNCHANGED <<clock, plan, row, warned, server, debits, renewed, pc, snap,
                   level, faults>>

Quiet == \A j \in Jobs, o \in Orders : pc[j][o] = "idle" /\ ~Due(j, o)

Advance ==
    /\ clock < MaxTime
    /\ Prompt => Quiet
    /\ clock' = clock + 1
    /\ UNCHANGED <<plan, row, warned, server, billing, renewed, pc, snap, level, faults>>

Terminated == clock = MaxTime /\ Quiet /\ UNCHANGED vars

Work(j, o) ==
    \/ Select(j, o) \/ Terminate(j, o) \/ Destroy(j, o)
    \/ j = "expiring" /\ (Warn(o) \/ Mark(o))
    \/ /\ j = "renewals"
       /\ CheckFunds(o) \/ Deduct(o) \/ Refused(o) \/ Renew(o) \/ RenewalFailed(o)
    \/ j = "expired" /\ (Suspend(o) \/ PowerOff(o))

Next ==
    \/ \E j \in Jobs, o \in Orders : Work(j, o) \/ Stop(j, o)
    \/ \E o \in Orders : RenewalError(o)
    \/ Spend
    \/ Advance
    \/ Terminated

Spec == Init /\ [][Next]_vars

(* The cron jobs keep firing, and each run works off what it found. *)
FairSpec == Spec /\ \A j \in Jobs, o \in Orders : WF_vars(Work(j, o))

-----------------------------------------------------------------------------
(* No customer loses a server early, however stale what a job has read: an *)
(* order is suspended only past the expiry it has at that moment, and      *)
(* terminated only when the grace period is over as well.                  *)
NeverEarly ==
    [][\A o \in Orders :
          /\ row'[o].status = "SUSPENDED" /\ row[o].status # "SUSPENDED" =>
                row[o].expiresAt < clock
          /\ row'[o].status = "TERMINATED" /\ row[o].status # "TERMINATED" =>
                /\ row[o].expiresAt < clock
                /\ Suspends[plan[o]] =>
                      /\ row[o].status = "SUSPENDED"
                      /\ clock >= row[o].suspendedAt + Grace[plan[o]]]_vars

(* Every renewal was paid for, and every payment without a renewal is in   *)
(* the hands of the job, or has an error or a crash of its own to explain  *)
(* it: the overlap of the jobs alone never charges anybody twice.          *)
PaymentsExplained ==
    \A o \in Orders :
        /\ renewed[o] <= debits[o]
        /\ debits[o] <= renewed[o] + faults
                        + (IF pc["renewals"][o] = "paid" THEN 1 ELSE 0)

(* A server that is off or gone is not sold as running, unless a renewal   *)
(* that was under way has overwritten the suspension or the termination.   *)
ServerRuns ==
    \A o \in Orders : Running(o) /\ server[o] # "on" => renewed[o] > 0

(* A suspension or termination is undone only by a renewal that was paid   *)
(* for after the order had been read as EXPIRING_SOON.                     *)
OnlyRenewalRevives ==
    [][\A o \in Orders :
          ~Running(o) /\ row'[o].status \in {"ACTIVE", "EXPIRING_SOON"} =>
             pc["renewals"][o] = "paid" /\ row'[o].status = "ACTIVE"]_vars

(* An order past its expiry does not run on for free, and a suspended one  *)
(* is not kept for ever: the jobs get to it, or it is renewed.             *)
ExpiryHandled ==
    \A o \in Orders : Expired(o) \/ GraceOver(o) ~> ~Expired(o) /\ ~GraceOver(o)

(* processAutoRenewals `finds orders with autoRenew enabled that are       *)
(* expiring within 24 hours and attempts to renew them`: while the wallet  *)
(* can pay, no error happens and the jobs are prompt, no order is lost.    *)
RenewedInTime ==
    \A o \in Orders : faults = 0 /\ funds >= Price => Running(o)

(* The state machine's `Terminal states - no valid transitions`. *)
TerminatedFinal ==
    [][\A o \in Orders :
          row[o].status = "TERMINATED" => row'[o].status = "TERMINATED"]_vars
=============================================================================
