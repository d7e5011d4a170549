----------------------------- MODULE Provisioning -----------------------------
(***************************************************************************)
(* How an order that was paid for becomes a server: order-service's        *)
(* PaymentService, ProvisioningService and OrderService.retryProvisioning, *)
(* and the droplet at DigitalOcean.                                        *)
(*                                                                         *)
(* Payment overrides and admin retries are HTTP requests that arrive twice *)
(* and together.  An override marks the order PAID and runs                *)
(* startProvisioning in the background: one provisioning task per order (a *)
(* unique column), one droplet, then polling until it is active, errored   *)
(* or late.  Every statement may fail, before or after it took effect, and *)
(* every process may die.  An order row says PENDING_PAYMENT at first, the *)
(* default of its status column.                                           *)
(***************************************************************************)
EXTENDS Integers

CONSTANTS
    Orders,
    Attempts,      \* bound: the overrides, and the retries, of one order
    MaxPolls,      \* maxAttempts: how often a droplet is polled
    NoTask         \* the order has no provisioning task

Tasks == [status : {"PENDING", "IN_PROGRESS", "SUCCESS", "FAILED"},
          droplet : BOOLEAN]    \* dropletId is set

ASSUME ProvisioningAssumption ==
    Attempts \in Nat /\ MaxPolls \in Nat /\ NoTask \notin Tasks

(* The PAID requests to payment-status, and those to retry-provisioning. *)
Requests == [order : Orders, n : 1..Attempts]

VARIABLES
    order,      \* order[o]: the status column
    task,       \* task[o]: the provisioning task of o, or NoTask
    droplet,    \* droplet[o]: the droplet at DigitalOcean
    created,    \* created[o]: how many droplets were created for o
    pc,         \* pc[w]: how far override w, and what it started, has come
    polls,      \* polls[w]: `attempts` in pollDropletStatus
    retry       \* retry[r]: how far retry r has come

vars == <<order, task, droplet, created, pc, polls, retry>>

TypeOK ==
    /\ order \in [Orders -> {"PENDING_PAYMENT", "PAID", "PROCESSING",
                             "PROVISIONING", "ACTIVE", "FAILED"}]
    /\ task \in [Orders -> Tasks \cup {NoTask}]
    /\ droplet \in [Orders -> {"none", "new", "active", "errored"}]
    /\ created \in [Orders -> Nat]
    /\ pc \in [Requests ->
                 {"idle", "checked", "validated", "paid", "starting", "tasked",
                  "creating", "created", "saved", "polling", "succeeding",
                  "errored", "givingup", "failing",
                  "done", "rejected", "gaveup", "dead"}]
    /\ polls \in [Requests -> Nat]
    /\ retry \in [Requests -> {"idle", "checked", "done", "rejected"}]

Init ==
    /\ order = [o \in Orders |-> "PENDING_PAYMENT"]
    /\ task = [o \in Orders |-> NoTask]
    /\ droplet = [o \in Orders |-> "none"]
    /\ created = [o \in Orders |-> 0]
    /\ pc = [w \in Requests |-> "idle"]
    /\ polls = [w \in Requests |-> 0]
    /\ retry = [r \in Requests |-> "idle"]

Goto(w, label) == pc' = [pc EXCEPT ![w] = label]

SetOrder(o, status) == order' = [order EXCEPT ![o] = status]

SetTask(o, status, hasDroplet) ==
    task' = [task EXCEPT ![o] = [status |-> status, droplet |-> hasDroplet]]

-----------------------------------------------------------------------------
(* PaymentService.updatePaymentStatus with status PAID. *)

PayCheck(w) ==
    /\ pc[w] = "idle"
    /\ Goto(w, IF order[w.order] = "PENDING_PAYMENT" THEN "checked" ELSE "rejected")
    /\ UNCHANGED <<order, task, droplet, created, polls, retry>>

(* updateOrderStatus reads the order again; the state machine knows no     *)
(* other way to PAID.                                                      *)
PayValidate(w) ==
    /\ pc[w] = "checked"
    /\ Goto(w, IF order[w.order] = "PENDING_PAYMENT" THEN "validated" ELSE "rejected")
    /\ UNCHANGED <<order, task, droplet, created, polls, retry>>

(* The update itself has no condition on the status. *)
PayWrite(w) ==
    /\ pc[w] = "validated"
    /\ SetOrder(w.order, "PAID")
    /\ Goto(w, "paid")
    /\ UNCHANGED <<task, droplet, created, polls, retry>>

-----------------------------------------------------------------------------
(* ProvisioningService.startProvisioning. *)

Start(w) ==
    /\ pc[w] = "paid"
    /\ Goto(w, IF order[w.order] = "PAID" THEN "starting" ELSE "rejected")
    /\ UNCHANGED <<order, task, droplet, created, polls, retry>>

(* A mutant of CreateTask: the column is not unique. *)
CreateAnotherTask(w) ==
    /\ pc[w] = "starting"
    /\ SetTask(w.order, "PENDING", FALSE)
    /\ Goto(w, "tasked")
    /\ UNCHANGED <<order, droplet, created, polls, retry>>

(* orderId is unique: a second create throws. *)
CreateTask(w) ==
    /\ pc[w] = "starting"
    /\ IF task[w.order] = NoTask
       THEN SetTask(w.order, "PENDING", FALSE) /\ Goto(w, "tasked")
       ELSE task' = task /\ Goto(w, "rejected")
    /\ UNCHANGED <<order, droplet, created, polls, retry>>

(* updateOrderToProvisioning. *)
ToProvisioning(w) ==
    /\ pc[w] = "tasked"
    /\ SetOrder(w.order, "PROVISIONING")
    /\ Goto(w, "creating")
    /\ UNCHANGED <<task, droplet, created, polls, retry>>

(* A statement throws, and only a log line tells; it may have committed. *)
StartError(w) ==
    /\ \/ /\ pc[w] \in {"checked", "validated", "paid", "starting", "tasked"}
          /\ UNCHANGED <<order, task>>
       \/ pc[w] = "validated" /\ SetOrder(w.order, "PAID") /\ UNCHANGED task
       \/ /\ pc[w] = "starting" /\ task[w.order] = NoTask
          /\ SetTask(w.order, "PENDING", FALSE) /\ UNCHANGED order
       \/ pc[w] = "tasked" /\ SetOrder(w.order, "PROVISIONING") /\ UNCHANGED task
    /\ Goto(w, IF pc[w] = "tasked" THEN "gaveup" ELSE "rejected")
    /\ UNCHANGED <<droplet, created, polls, retry>>

-----------------------------------------------------------------------------
(* executeProvisioning and pollDropletStatus. *)

CreateDroplet(w) ==
    /\ pc[w] = "creating"
    /\ droplet' = [droplet EXCEPT ![w.order] = "new"]
    /\ created' = [created EXCEPT ![w.order] = @ + 1]
    /\ Goto(w, "created")
    /\ UNCHANGED <<order, task, polls, retry>>

(* The API call throws, having created the droplet or not. *)
CreateError(w) ==
    /\ pc[w] = "creating"
    /\ \/ UNCHANGED <<droplet, created>>
       \/ /\ droplet' = [droplet EXCEPT ![w.order] = "new"]
          /\ created' = [created EXCEPT ![w.order] = @ + 1]
    /\ Goto(w, "failing")
    /\ UNCHANGED <<order, task, polls, retry>>

SaveDroplet(w) ==
    /\ pc[w] = "created"
    /\ SetTask(w.order, task[w.order].status, TRUE)
    /\ Goto(w, "saved")
    /\ UNCHANGED <<order, droplet, created, polls, retry>>

StartPolling(w) ==
    /\ pc[w] = "saved"
    /\ SetTask(w.order, "IN_PROGRESS", task[w.order].droplet)
    /\ Goto(w, "polling")
    /\ UNCHANGED <<order, droplet, created, polls, retry>>

(* incrementActiveCount or a task update throws; the update may have        *)
(* committed.                                                              *)
SaveError(w) ==
    /\ \/ pc[w] \in {"created", "saved"} /\ UNCHANGED task
       \/ pc[w] = "created" /\ SetTask(w.order, task[w.order].status, TRUE)
       \/ pc[w] = "saved" /\ SetTask(w.order, "IN_PROGRESS", task[w.order].droplet)
    /\ Goto(w, "failing")
    /\ UNCHANGED <<order, droplet, created, polls, retry>>

(* A mutant of Ready: a droplet is ready unless it has errored. *)
ReadyUnlessErrored(o) == droplet[o] # "errored"

Ready(o) == droplet[o] = "active"

(* One round: the droplet is active, has errored, or neither yet; an error *)
(* counts as not yet (nothing throws the two exceptions isFatalError knows)*)
(* unless counting the attempt fails as well.                              *)
Poll(w) ==
    /\ pc[w] = "polling"
    /\ polls[w] < MaxPolls
    /\ polls' = [polls EXCEPT ![w] = @ + 1]
    /\ \/ Ready(w.order) /\ Goto(w, "succeeding")
       \/ droplet[w.order] = "errored" /\ Goto(w, "errored")
       \/ Goto(w, "polling")
       \/ Goto(w, "failing")
    /\ UNCHANGED <<order, task, droplet, created, retry>>

(* A mutant of Timeout: the counter starts again. *)
PollOn(w) ==
    /\ pc[w] = "polling"
    /\ polls[w] = MaxPolls
    /\ polls' = [polls EXCEPT ![w] = 0]
    /\ UNCHANGED <<order, task, droplet, created, pc, retry>>

Timeout(w) ==
    /\ pc[w] = "polling"
    /\ polls[w] = MaxPolls
    /\ Goto(w, "givingup")
    /\ UNCHANGED <<order, task, droplet, created, polls, retry>>

(* Task and order in one transaction, whatever they were. *)
Succeed(o) == SetTask(o, "SUCCESS", task[o].droplet) /\ SetOrder(o, "ACTIVE")

(* A mutant of Fail: the order is not updated. *)
FailTaskOnly(o) == SetTask(o, "FAILED", task[o].droplet) /\ order' = order

Fail(o) == SetTask(o, "FAILED", task[o].droplet) /\ SetOrder(o, "FAILED")

MarkProvisioningSuccess(w) ==
    /\ pc[w] = "succeeding"
    /\ Succeed(w.order)
    /\ Goto(w, "done")
    /\ UNCHANGED <<droplet, created, polls, retry>>

(* An exception sends the loop on, also when the commit went through. *)
MarkSuccessError(w) ==
    /\ pc[w] = "succeeding"
    /\ Succeed(w.order) \/ UNCHANGED <<order, task>>
    /\ Goto(w, "polling")
    /\ UNCHANGED <<droplet, created, polls, retry>>

MarkProvisioningFailed(w) ==
    /\ pc[w] \in {"errored", "givingup", "failing"}
    /\ Fail(w.order)
    /\ Goto(w, "done")
    /\ UNCHANGED <<droplet, created, polls, retry>>

(* Inside the loop an exception sends it on; behind it the catch block of  *)
(* executeProvisioning tries once more; there, nobody is left to try.      *)
MarkFailedError(w) ==
    /\ \/ pc[w] = "errored" /\ Goto(w, "polling")
       \/ pc[w] = "givingup" /\ Goto(w, "failing")
       \/ pc[w] = "failing" /\ Goto(w, "gaveup")
    /\ Fail(w.order) \/ UNCHANGED <<order, task>>
    /\ UNCHANGED <<droplet, created, polls, retry>>

Die(w) ==
    /\ pc[w] \notin {"idle", "done", "rejected", "gaveup", "dead"}
    /\ Goto(w, "dead")
    /\ UNCHANGED <<order, task, droplet, created, polls, retry>>

(* DigitalOcean: a new droplet boots or does not. *)
Boot(o) ==
    /\ droplet[o] = "new"
    /\ \E s \in {"active", "errored"} : droplet' = [droplet EXCEPT ![o] = s]
    /\ UNCHANGED <<order, task, created, pc, polls, retry>>

-----------------------------------------------------------------------------
(* OrderService.retryProvisioning. *)

(* A mutant of RetryCheck: any order that has a task may be retried. *)
RetryCheckTask(r) ==
    /\ retry[r] = "idle"
    /\ retry' = [retry EXCEPT ![r] =
                   IF task[r.order] # NoTask THEN "checked" ELSE "rejected"]
    /\ UNCHANGED <<order, task, droplet, created, pc, polls>>

RetryCheck(r) ==
    /\ retry[r] = "idle"
    /\ retry' = [retry EXCEPT ![r] =
                   IF order[r.order] = "FAILED" /\ task[r.order] # NoTask
                   THEN "checked" ELSE "rejected"]
    /\ UNCHANGED <<order, task, droplet, created, pc, polls>>

(* The transaction, without a condition; startProvisioningAsync is a stub. *)
RetryWrite(r) ==
    /\ retry[r] = "checked"
    /\ SetOrder(r.order, "PROCESSING")
    /\ SetTask(r.order, "PENDING", FALSE)
    /\ retry' = [retry EXCEPT ![r] = "done"]
    /\ UNCHANGED <<droplet, created, pc, polls>>

RetryError(r) ==
    /\ retry[r] = "checked"
    /\ retry' = [retry EXCEPT ![r] = "rejected"]
    /\ UNCHANGED <<order, task, droplet, created, pc, polls>>

-----------------------------------------------------------------------------
Step(w) ==
    \/ PayValidate(w) \/ PayWrite(w) \/ Start(w) \/ CreateTask(w)
    \/ ToProvisioning(w) \/ StartError(w) \/ CreateDroplet(w) \/ CreateError(w)
    \/ SaveDroplet(w) \/ StartPolling(w) \/ SaveError(w) \/ Poll(w) \/ Timeout(w)
    \/ MarkProvisioningSuccess(w) \/ MarkSuccessError(w)
    \/ MarkProvisioningFailed(w) \/ MarkFailedError(w) \/ Die(w)

Terminated ==
    /\ \A w \in Requests :
          /\ pc[w] \in {"done", "rejected", "gaveup", "dead"}
          /\ retry[w] \in {"done", "rejected"}
    /\ \A o \in Orders : droplet[o] # "new"
    /\ UNCHANGED vars

Next ==
    \/ \E w \in Requests : PayCheck(w) \/ Step(w)
    \/ \E r \in Requests : RetryCheck(r) \/ RetryWrite(r) \/ RetryError(r)
    \/ \E o \in Orders : Boot(o)
    \/ Terminated

Spec == Init /\ [][Next]_vars

(* What a process has begun it ends somehow (a poll has a counter). *)
FairSpec == Spec /\ \A w \in Requests : WF_vars(Step(w))

-----------------------------------------------------------------------------
(* The request that created the task of o provisions it, and nobody else.  *)
Provisioning(w) ==
    pc[w] \in {"tasked", "creating", "created", "saved", "polling", "succeeding",
               "errored", "givingup", "failing"}

(* However many overrides and retries an order gets, at most one droplet is *)
(* ever created for it: the unique task is the lock (startProvisioning).   *)
OneDroplet == \A o \in Orders : created[o] <= 1

(* ... and at most one request at a time works on the server of an order.  *)
OneProvisioner ==
    \A v, w \in Requests :
        v.order = w.order /\ Provisioning(v) /\ Provisioning(w) => v = w

(* The customer is never shown a server that is not there: an ACTIVE order *)
(* has a droplet that booted, and the task that says SUCCESS knows its id, *)
(* which suspension and termination need.                                  *)
ActiveHasServer ==
    \A o \in Orders :
        order[o] = "ACTIVE" =>
            /\ droplet[o] = "active"
            /\ task[o] = [status |-> "SUCCESS", droplet |-> TRUE]

(* An order that says PROVISIONING has an unfinished task: the two rows do *)
(* not drift apart, though the overrides and retries write them blindly.   *)
ProvisioningHasTask ==
    \A o \in Orders :
        order[o] = "PROVISIONING" =>
            task[o] # NoTask /\ task[o].status \in {"PENDING", "IN_PROGRESS"}

(* PROVISIONING ends, in ACTIVE or FAILED, unless the process died or its  *)
(* database failed it at the end: pollDropletStatus always gives up.       *)
ProvisioningEnds ==
    \A o \in Orders :
        order[o] = "PROVISIONING" ~>
            \/ order[o] # "PROVISIONING"
            \/ \E w \in Requests : w.order = o /\ pc[w] \in {"gaveup", "dead"}

(* A server given to a customer is not taken back by a late or repeated    *)
(* request of an admin alone: ACTIVE ends only by a stale override, or by  *)
(* the order's own provisioner, one whose success had an error.            *)
ActiveStays ==
    [][\A o \in Orders :
          order[o] = "ACTIVE" /\ order'[o] # "ACTIVE" =>
             \E w \in Requests :
                /\ w.order = o
                /\ pc[w] \in {"validated", "givingup", "failing"}
                /\ pc'[w] # pc[w]]_vars

(* PaymentService's comment: `Only allows transitions from                 *)
(* PENDING_PAYMENT`.  No order that was on its way is set back to PAID.    *)
PaidOnlyFromPendingPayment ==
    [][\A o \in Orders :
          order'[o] = "PAID" => order[o] \in {"PENDING_PAYMENT", "PAID"}]_vars
=============================================================================
