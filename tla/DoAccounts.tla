------------------------------ MODULE DoAccounts ------------------------------
(***************************************************************************)
(* The pool of DigitalOcean accounts of order-service: DoAccountService    *)
(* and its scheduler, with the provisioning that takes droplets from an    *)
(* account and the termination that gives them back.                       *)
(*                                                                         *)
(* DigitalOcean knows how many droplets an account has.  The row caches    *)
(* that number (activeDroplets) and whether the API answers (healthStatus);*)
(* selections, synchronisations, health checks, creations and destructions *)
(* read one and write the other in separate steps, and an administrator    *)
(* deletes accounts meanwhile.  Order and task statuses are those of       *)
(* Provisioning and Lifecycle, reduced to what an account sees of them.    *)
(***************************************************************************)
EXTENDS Integers, FiniteSets

CONSTANTS
    Accounts,
    Requests,      \* startProvisioning calls, each for an order of its own
    Managed,       \* bound: the accounts that jobs visit, that fail or are deleted
    Limit,         \* Limit[a]: the droplets DigitalOcean grants account a
    MaxOutages,    \* bound: how often the API of an account goes down
    None,          \* no account, no droplet, no pending write
    Failed         \* what a synchronisation has read when the API was down

Healths == {"UNKNOWN", "HEALTHY", "DEGRADED", "UNHEALTHY"}

AccountRows == [health : Healths, count : Int]

Unhealthy == [health : {"UNHEALTHY"}, count : Int]

ASSUME AccountsAssumption ==
    /\ IsFiniteSet(Requests)
    /\ Managed \subseteq Accounts
    /\ Limit \in [Accounts -> Nat]
    /\ MaxOutages \in Nat
    /\ None \notin AccountRows \cup Accounts \cup Healths \cup Int
    /\ Failed \notin Int \cup {None}

VARIABLES
    account,   \* account[a]: its row, or None once it is deleted
    deleting,  \* the accounts whose deletion has passed its check
    sync,      \* sync[a]: what a running syncAccountLimits has read
    check,     \* check[a]: what a running healthCheck has found
    req,       \* req[p]: how far request p has come, and with what
    droplet,   \* droplet[p]: the account its droplet runs on, or None
    up,        \* up[a]: the API answers for this account
    outages,
    free       \* history: the accounts that were open to p all along

poolVars == <<account, deleting, sync, check, req, droplet, up, outages, free>>

jobs == <<deleting, sync, check>>

api == <<up, outages>>

Selecting == {"selecting", "looking", "unreachable"}

AtRest == {"idle", "refused", "done", "dead", "over"}

(* From the task on, `on` is the account the provisioning task names; a    *)
(* task whose process died stays unfinished.                               *)
Unfinished == {"tasked", "created", "counted", "dead"}

Progress == [at : {"idle", "selected", "refused", "done", "deleted",
                   "decrementing", "over"} \cup Selecting \cup Unfinished,
             todo : SUBSET Accounts,        \* still to be tried
             on : Accounts \cup {None},     \* under trial, then selected
             seen : Int]                    \* the number it has read there

PoolTypeOK ==
    /\ account \in [Accounts -> AccountRows \cup {None}]
    /\ deleting \subseteq Accounts
    /\ sync \in [Accounts -> Int \cup {Failed, None}]
    /\ check \in [Accounts -> Healths \cup {None}]
    /\ req \in [Requests -> Progress]
    /\ droplet \in [Requests -> Accounts \cup {None}]
    /\ up \in [Accounts -> BOOLEAN]
    /\ outages \in 0..MaxOutages
    /\ free \in [Requests -> SUBSET Accounts]

Blank(label) == [at |-> label, todo |-> {}, on |-> None, seen |-> 0]

(* create stores what DigitalOcean reports, as HEALTHY. *)
PoolInit ==
    /\ account = [a \in Accounts |-> [health |-> "HEALTHY", count |-> 0]]
    /\ deleting = {}
    /\ sync = [a \in Accounts |-> None]
    /\ check = [a \in Accounts |-> None]
    /\ req = [p \in Requests |-> Blank("idle")]
    /\ droplet = [p \in Requests |-> None]
    /\ up = [a \in Accounts |-> TRUE]
    /\ outages = 0
    /\ free = [p \in Requests |-> {}]

-----------------------------------------------------------------------------
(* What DigitalOcean knows, and the account's row. *)

Droplets(a) == Cardinality({p \in Requests : droplet[p] = a})

HasRoom(a) == Droplets(a) < Limit[a]

Exists(a) == account[a] # None

(* getActiveAccounts: the accounts a selection tries. *)
Selectable(a) == Exists(a) /\ account[a].health \in {"HEALTHY", "UNKNOWN"}

Open(a) == Selectable(a) /\ HasRoom(a)

SetHealth(a, h) ==
    account' = IF Exists(a) THEN [account EXCEPT ![a].health = h] ELSE account

SetCount(a, n) == account' = [account EXCEPT ![a] = [health |-> "HEALTHY", count |-> n]]

(* History: while p selects, an account stays in free[p] as long as it is  *)
(* open.  The last conjunct of every action that may change this.          *)
Watch ==
    free' = [p \in Requests |->
               IF req'[p].at \notin Selecting \cup {"refused"} THEN {}
               ELSE {a \in Accounts :
                       Open(a)' /\ (req[p].at = "idle" \/ a \in free[p])}]

Move(p, label) == req' = [req EXCEPT ![p].at = label]

End(p) == req' = [req EXCEPT ![p] = Blank("over")]

-----------------------------------------------------------------------------
(* selectAvailableAccount, for request p. *)

StartSelection(p) ==
    /\ req[p].at = "idle"
    /\ req' = [req EXCEPT ![p].at = "selecting",
                          ![p].todo = {a \in Accounts : Selectable(a)}]
    /\ UNCHANGED <<account, jobs, droplet, api>>
    /\ Watch

(* getAccountCapacity of the next account; the order is by number of       *)
(* droplets, as they were when the accounts were listed, and left open.    *)
Look(p) ==
    /\ req[p].at = "selecting"
    /\ \E a \in req[p].todo :
          req' = [req EXCEPT ![p] =
                    [at |-> IF Exists(a) /\ up[a] THEN "looking" ELSE "unreachable",
                     todo |-> @.todo \ {a}, on |-> a, seen |-> Droplets(a)]]
    /\ UNCHANGED <<account, jobs, droplet, api>>
    /\ Watch

(* The cached values are refreshed, and an account with room is taken. *)
Take(p) ==
    /\ req[p].at = "looking"
    /\ Exists(req[p].on)
    /\ req[p].seen < Limit[req[p].on]
    /\ SetCount(req[p].on, req[p].seen)
    /\ req' = [req EXCEPT ![p] = [Blank("selected") EXCEPT !.on = req[p].on]]
    /\ UNCHANGED <<jobs, droplet, api>>
    /\ Watch

(* A mutant of Skip: the selection ends at the first full account. *)
SkipTheRest(p) ==
    /\ req[p].at = "looking"
    /\ Exists(req[p].on)
    /\ req[p].seen >= Limit[req[p].on]
    /\ SetCount(req[p].on, req[p].seen)
    /\ req' = [req EXCEPT ![p] = Blank("refused")]
    /\ UNCHANGED <<jobs, droplet, api>>
    /\ Watch

(* They are refreshed, and a full account is skipped. *)
Skip(p) ==
    /\ req[p].at = "looking"
    /\ Exists(req[p].on)
    /\ req[p].seen >= Limit[req[p].on]
    /\ SetCount(req[p].on, req[p].seen)
    /\ Move(p, "selecting")
    /\ UNCHANGED <<jobs, droplet, api>>
    /\ Watch

(* The catch block, also for an account deleted in between; then           *)
(* markAccountUnhealthy throws itself, and startProvisioning with it.      *)
MarkUnhealthy(p) ==
    /\ \/ req[p].at = "unreachable"
       \/ req[p].at = "looking" /\ ~Exists(req[p].on)
    /\ SetHealth(req[p].on, "UNHEALTHY")
    /\ IF Exists(req[p].on) THEN Move(p, "selecting") ELSE End(p)
    /\ UNCHANGED <<jobs, droplet, api>>
    /\ Watch

(* NoAvailableAccount or AllAccountsFull: provisioning goes on with the    *)
(* single token of the legacy mode, outside this pool.                     *)
Refuse(p) ==
    /\ req[p].at = "selecting"
    /\ req[p].todo = {}
    /\ req' = [req EXCEPT ![p] = Blank("refused")]
    /\ UNCHANGED <<account, jobs, droplet, api>>
    /\ Watch

-----------------------------------------------------------------------------
(* startProvisioning, executeProvisioning and their errors. *)

(* The foreign key of the task refuses an account that is gone. *)
CreateTask(p) ==
    /\ req[p].at = "selected"
    /\ IF Exists(req[p].on) THEN Move(p, "tasked") ELSE End(p)
    /\ UNCHANGED <<account, jobs, droplet, api>>
    /\ Watch

(* createDroplet, with the token the selection has read; DigitalOcean      *)
(* refuses a droplet beyond the limit.  If its answer is lost, the task is *)
(* marked FAILED and the droplet runs.                                     *)
CreateDroplet(p) ==
    /\ req[p].at = "tasked"
    /\ \/ /\ up[req[p].on] /\ HasRoom(req[p].on)
          /\ droplet' = [droplet EXCEPT ![p] = req[p].on]
          /\ Move(p, "created") \/ End(p)
       \/ /\ ~(up[req[p].on] /\ HasRoom(req[p].on))
          /\ End(p)
          /\ UNCHANGED droplet
    /\ UNCHANGED <<account, jobs, api>>
    /\ Watch

(* incrementActiveCount throws if the account is gone. *)
Increment(p) ==
    /\ req[p].at = "created"
    /\ IF Exists(req[p].on)
       THEN account' = [account EXCEPT ![req[p].on].count = @ + 1] /\ Move(p, "counted")
       ELSE account' = account /\ End(p)
    /\ UNCHANGED <<jobs, droplet, api>>
    /\ Watch

(* The droplet is saved and polled until the task succeeds or fails. *)
Finish(p) ==
    /\ req[p].at = "counted"
    /\ Move(p, "done") \/ End(p)
    /\ UNCHANGED <<account, jobs, droplet, api>>
    /\ Watch

(* The process dies.  Where no task or droplet is involved, an error       *)
(* already ends the request in the same state.                             *)
Die(p) ==
    /\ \/ req[p].at \in Unfinished \ {"dead"} /\ Move(p, "dead")
       \/ req[p].at \in {"deleted", "decrementing"} /\ End(p)
    /\ UNCHANGED <<account, jobs, droplet, api>>
    /\ Watch

-----------------------------------------------------------------------------
(* destroyDroplet, when the order is terminated. *)

(* A task that has lost its account, or an error of the API: the droplet   *)
(* is left as it is.                                                       *)
DeleteDroplet(p) ==
    /\ req[p].at = "done"
    /\ IF Exists(req[p].on) /\ up[req[p].on]
       THEN droplet' = [droplet EXCEPT ![p] = None] /\ Move(p, "deleted")
       ELSE droplet' = droplet /\ End(p)
    /\ UNCHANGED <<account, jobs, api>>
    /\ Watch

(* decrementActiveCount reads the row, ... *)
ReadCount(p) ==
    /\ req[p].at = "deleted"
    /\ IF Exists(req[p].on) /\ account[req[p].on].count > 0
       THEN Move(p, "decrementing") ELSE End(p)
    /\ UNCHANGED <<account, jobs, droplet, api>>
    /\ Watch

(* ... then decrements what is there by now. *)
Decrement(p) ==
    /\ req[p].at = "decrementing"
    /\ account' = IF Exists(req[p].on)
                  THEN [account EXCEPT ![req[p].on].count = @ - 1] ELSE account
    /\ End(p)
    /\ UNCHANGED <<jobs, droplet, api>>
    /\ Watch

-----------------------------------------------------------------------------
(* The scheduler: syncAllAccounts every 5 minutes, healthCheck every minute. *)

(* A mutant of SyncRead: only the accounts a selection would try. *)
SyncReadHealthy(a) ==
    /\ a \in Managed
    /\ sync[a] = None
    /\ Selectable(a)
    /\ sync' = [sync EXCEPT ![a] = IF up[a] THEN Droplets(a) ELSE Failed]
    /\ UNCHANGED <<account, deleting, check, req, droplet, api, free>>

SyncRead(a) ==
    /\ a \in Managed
    /\ sync[a] = None
    /\ Exists(a)
    /\ sync' = [sync EXCEPT ![a] = IF up[a] THEN Droplets(a) ELSE Failed]
    /\ UNCHANGED <<account, deleting, check, req, droplet, api, free>>

(* A mutant of SyncWrite: the number is reported and not stored. *)
SyncWriteHealth(a) ==
    /\ sync[a] # None
    /\ SetHealth(a, IF sync[a] = Failed THEN "UNHEALTHY" ELSE "HEALTHY")
    /\ sync' = [sync EXCEPT ![a] = None]
    /\ UNCHANGED <<deleting, check, req, droplet, api>>
    /\ Watch

SyncWrite(a) ==
    /\ sync[a] # None
    /\ IF sync[a] = Failed \/ ~Exists(a)
       THEN SetHealth(a, "UNHEALTHY") ELSE SetCount(a, sync[a])
    /\ sync' = [sync EXCEPT ![a] = None]
    /\ UNCHANGED <<deleting, check, req, droplet, api>>
    /\ Watch

(* validateToken, then the rate limit: below 100 it is DEGRADED. *)
CheckRead(a) ==
    /\ a \in Managed
    /\ check[a] = None
    /\ Exists(a)
    /\ \E h \in IF up[a] THEN {"HEALTHY", "DEGRADED"} ELSE {"UNHEALTHY"} :
          check' = [check EXCEPT ![a] = h]
    /\ UNCHANGED <<account, deleting, sync, req, droplet, api, free>>

(* A mutant of CheckWrite: a status the column does not have. *)
CheckWriteLimited(a) ==
    /\ check[a] # None
    /\ SetHealth(a, IF check[a] = "DEGRADED" THEN "LIMITED" ELSE check[a])
    /\ check' = [check EXCEPT ![a] = None]
    /\ UNCHANGED <<deleting, sync, req, droplet, api>>
    /\ Watch

CheckWrite(a) ==
    /\ check[a] # None
    /\ SetHealth(a, check[a])
    /\ check' = [check EXCEPT ![a] = None]
    /\ UNCHANGED <<deleting, sync, req, droplet, api>>
    /\ Watch

-----------------------------------------------------------------------------
(* Administrators and the API. *)

(* delete refuses an account with a PENDING or IN_PROGRESS task, ... *)
DeleteCheck(a) ==
    /\ a \in Managed
    /\ Exists(a)
    /\ a \notin deleting
    /\ \A p \in Requests : req[p].on = a => req[p].at \notin Unfinished
    /\ deleting' = deleting \cup {a}
    /\ UNCHANGED <<account, sync, check, req, droplet, api, free>>

(* ... then deletes it; its tasks lose it (ON DELETE SET NULL). *)
Delete(a) ==
    /\ Exists(a)
    /\ a \in deleting
    /\ account' = [account EXCEPT ![a] = None]
    /\ UNCHANGED <<jobs, req, droplet, api>>
    /\ Watch

GoDown(a) ==
    /\ a \in Managed
    /\ up[a]
    /\ outages < MaxOutages
    /\ up' = [up EXCEPT ![a] = FALSE]
    /\ outages' = outages + 1
    /\ UNCHANGED <<account, jobs, req, droplet, free>>

ComeUp(a) ==
    /\ ~up[a]
    /\ up' = [up EXCEPT ![a] = TRUE]
    /\ UNCHANGED <<account, jobs, req, droplet, outages, free>>

-----------------------------------------------------------------------------
Step(p) ==
    \/ Look(p) \/ Take(p) \/ Skip(p) \/ MarkUnhealthy(p) \/ Refuse(p)
    \/ CreateTask(p) \/ CreateDroplet(p) \/ Increment(p) \/ Finish(p)
    \/ Die(p) \/ ReadCount(p) \/ Decrement(p)

(* Every request is over and no account is left to the jobs. *)
PoolTerminated ==
    /\ \A p \in Requests : req[p].at \in {"refused", "dead", "over"}
    /\ \A a \in Managed : ~Exists(a)
    /\ UNCHANGED poolVars

PoolNext ==
    \/ \E p \in Requests : StartSelection(p) \/ Step(p) \/ DeleteDroplet(p)
    \/ \E a \in Accounts :
          \/ SyncRead(a) \/ SyncWrite(a) \/ CheckRead(a) \/ CheckWrite(a)
          \/ DeleteCheck(a) \/ Delete(a) \/ GoDown(a) \/ ComeUp(a)
    \/ PoolTerminated

PoolSpec == PoolInit /\ [][PoolNext]_poolVars

(* The scheduler synchronises for ever, and an outage of DigitalOcean does  *)
(* not last.  Nothing is assumed of the requests.                          *)
FairPool ==
    /\ PoolSpec
    /\ \A a \in Managed :
          WF_poolVars(SyncRead(a)) /\ WF_poolVars(SyncWrite(a)) /\ WF_poolVars(ComeUp(a))

-----------------------------------------------------------------------------
(* A request is refused, and served by the legacy token, only for a        *)
(* reason: no account was selectable and had room all the time its         *)
(* selection took, whatever other requests and jobs did to the rows.       *)
RefusalJustified == \A p \in Requests : req[p].at = "refused" => free[p] = {}

(* Creations, destructions, selections and synchronisations race for the   *)
(* cached number, which may drift and even become negative.  Once requests *)
(* no longer touch droplets or rows it is right again, and stays right.    *)
CountConverges ==
    <>[](\A p \in Requests : req[p].at \in AtRest) =>
        <>[](\A a \in Managed : Exists(a) => account[a].count = Droplets(a))

(* An account marked UNHEALTHY, by a failed selection, check or            *)
(* synchronisation, is not lost: some job finds it again.                  *)
HealthRecovers ==
    \A a \in Managed :
        account[a] \in Unhealthy ~> account[a] \notin Unhealthy
=============================================================================
