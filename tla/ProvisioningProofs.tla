-------------------------- MODULE ProvisioningProofs --------------------------
(***************************************************************************)
(* Proofs about Provisioning, for any number of orders, overrides, retries *)
(* and polls.                                                              *)
(***************************************************************************)
EXTENDS Provisioning, TLAPS

(* A failure has been recorded for o, or a retry has read one. *)
HasFailed(o) ==
    \/ order[o] = "FAILED"
    \/ \E r \in Requests : r.order = o /\ retry[r] \in {"checked", "done"}

(* How the rows of an order, its droplet and its retries agree. *)
OrderInv(o) ==
    /\ created[o] <= 1
    /\ task[o] = NoTask =>
          /\ created[o] = 0 /\ droplet[o] = "none"
          /\ order[o] \in {"PENDING_PAYMENT", "PAID"}
          /\ ~HasFailed(o)
    /\ order[o] = "ACTIVE" =>
          /\ droplet[o] = "active"
          /\ task[o] = [status |-> "SUCCESS", droplet |-> TRUE]
          /\ ~HasFailed(o)
    /\ order[o] = "PROVISIONING" =>
          task[o] # NoTask /\ task[o].status \in {"PENDING", "IN_PROGRESS"}

(* What the request that provisions an order may rely on.  After a failure *)
(* was recorded, its droplet has errored or it only has the failure left   *)
(* to record: it never makes the order ACTIVE behind the back of a retry.  *)
WorkInv(w) ==
    Provisioning(w) =>
        /\ task[w.order] # NoTask
        /\ pc[w] \in {"tasked", "creating"} =>
              /\ created[w.order] = 0 /\ droplet[w.order] = "none"
              /\ task[w.order].status = "PENDING"
        /\ pc[w] \in {"saved", "polling"} =>
              task[w.order].droplet \/ droplet[w.order] = "errored"
        /\ pc[w] = "succeeding" =>
              task[w.order].droplet /\ droplet[w.order] = "active"
        /\ pc[w] = "errored" => droplet[w.order] = "errored"
        /\ order[w.order] = "ACTIVE" =>
              pc[w] \in {"polling", "succeeding", "givingup", "failing"}
        /\ HasFailed(w.order) => droplet[w.order] = "errored" \/ pc[w] = "failing"

Inv ==
    /\ TypeOK
    /\ OneProvisioner
    /\ \A o \in Orders : OrderInv(o)
    /\ \A w \in Requests : WorkInv(w)

-----------------------------------------------------------------------------
(* What the steps have in common. *)

LEMMA OrderOf == \A w \in Requests : w.order \in Orders
  BY DEF Requests

(* Writing a task leaves a task, and the tasks of other orders alone. *)
LEMMA SetTaskEffect ==
  ASSUME TypeOK, NEW o \in Orders, NEW b \in BOOLEAN,
         NEW s \in {"PENDING", "IN_PROGRESS", "SUCCESS", "FAILED"},
         SetTask(o, s, b)
  PROVE  /\ task' \in [Orders -> Tasks \cup {NoTask}]
         /\ task'[o] = [status |-> s, droplet |-> b]
         /\ task'[o] # NoTask
         /\ \A p \in Orders : p # o => task'[p] = task[p]
<1>1. [status |-> s, droplet |-> b] \in Tasks
  BY DEF Tasks
<1>. QED
  BY <1>1, ProvisioningAssumption DEF SetTask, TypeOK

(* A task that is there has its columns. *)
LEMMA TaskColumns ==
  ASSUME TypeOK, NEW o \in Orders, task[o] # NoTask
  PROVE  /\ task[o].status \in {"PENDING", "IN_PROGRESS", "SUCCESS", "FAILED"}
         /\ task[o].droplet \in BOOLEAN
  BY DEF TypeOK, Tasks

(* Ending an order writes its task and its status, and nothing else's.     *)
LEMMA EndEffect ==
  ASSUME TypeOK, NEW o \in Orders, task[o] # NoTask,
         NEW s \in {"SUCCESS", "FAILED"}, NEW t \in {"ACTIVE", "FAILED"},
         SetTask(o, s, task[o].droplet), SetOrder(o, t)
  PROVE  /\ task'[o] = [status |-> s, droplet |-> task[o].droplet]
         /\ task'[o] # NoTask /\ order'[o] = t
         /\ \A p \in Orders : p # o =>
               order'[p] = order[p] /\ task'[p] = task[p]
<1>1. task[o].droplet \in BOOLEAN
  BY TaskColumns
<1>2. /\ task'[o] = [status |-> s, droplet |-> task[o].droplet]
      /\ task'[o] # NoTask
      /\ \A p \in Orders : p # o => task'[p] = task[p]
  BY <1>1, SetTaskEffect
<1>3. /\ order'[o] = t
      /\ \A p \in Orders : p # o => order'[p] = order[p]
  BY DEF SetOrder, TypeOK
<1>. QED
  BY <1>2, <1>3

-----------------------------------------------------------------------------
(* Types.  A step that writes to the task needs it to be there. *)
TaskThere == \A w \in Requests : Provisioning(w) => task[w.order] # NoTask

LEMMA TypeInit == Init => TypeOK /\ TaskThere
  BY DEF Init, TypeOK, TaskThere, Provisioning

(* A step that writes no task, or writes one, and moves one request.       *)
LEMMA TaskStays ==
  ASSUME TypeOK, TaskThere, task' = task,
         NEW w \in Requests, NEW label, Goto(w, label),
         Provisioning(w)' => Provisioning(w) \/ task[w.order] # NoTask
  PROVE  TaskThere'
  BY DEF TypeOK, TaskThere, Goto, Provisioning

LEMMA TaskWritten ==
  ASSUME TypeOK, TaskThere, NEW w \in Requests, NEW label, Goto(w, label),
         NEW b \in BOOLEAN,
         NEW s \in {"PENDING", "IN_PROGRESS", "SUCCESS", "FAILED"},
         SetTask(w.order, s, b)
  PROVE  task' \in [Orders -> Tasks \cup {NoTask}] /\ TaskThere'
<1>1. w.order \in Orders
  BY OrderOf
<1>2. /\ task' \in [Orders -> Tasks \cup {NoTask}]
      /\ task'[w.order] # NoTask
      /\ \A p \in Orders : p # w.order => task'[p] = task[p]
  BY <1>1, SetTaskEffect
<1>3. ASSUME NEW v \in Requests, Provisioning(v)' PROVE task'[v.order] # NoTask
  <2>1. CASE v.order = w.order
    BY <2>1, <1>2
  <2>2. CASE v.order # w.order
    BY <2>2, <1>2, <1>3, OrderOf DEF TaskThere, Goto, Provisioning, TypeOK
  <2>. QED
    BY <2>1, <2>2
<1>. QED
  BY <1>2, <1>3 DEF TaskThere

LEMMA TypeNext == TypeOK /\ TaskThere /\ [Next]_vars => TypeOK' /\ TaskThere'
<1>. SUFFICES ASSUME TypeOK, TaskThere, [Next]_vars PROVE TypeOK' /\ TaskThere'
  OBVIOUS
<1>1. ASSUME NEW w \in Requests, PayCheck(w) PROVE TypeOK' /\ TaskThere'
  <2>1. TypeOK'
    BY <1>1, OrderOf DEF PayCheck, Goto, TypeOK
  <2>2. TaskThere'
    BY <1>1, TaskStays DEF PayCheck, Goto, Provisioning, TypeOK, TaskThere
  <2>. QED
    BY <2>1, <2>2
<1>2. ASSUME NEW w \in Requests, PayValidate(w) PROVE TypeOK' /\ TaskThere'
  <2>1. TypeOK'
    BY <1>2, OrderOf DEF PayValidate, Goto, TypeOK
  <2>2. TaskThere'
    BY <1>2, TaskStays DEF PayValidate, Goto, Provisioning, TypeOK, TaskThere
  <2>. QED
    BY <2>1, <2>2
<1>3. ASSUME NEW w \in Requests, PayWrite(w) PROVE TypeOK' /\ TaskThere'
  <2>1. TypeOK'
    BY <1>3, OrderOf DEF PayWrite, Goto, SetOrder, TypeOK
  <2>2. TaskThere'
    BY <1>3, TaskStays DEF PayWrite, Goto, SetOrder, Provisioning, TypeOK, TaskThere
  <2>. QED
    BY <2>1, <2>2
<1>4. ASSUME NEW w \in Requests, Start(w) PROVE TypeOK' /\ TaskThere'
  <2>1. TypeOK'
    BY <1>4, OrderOf DEF Start, Goto, TypeOK
  <2>2. TaskThere'
    BY <1>4, TaskStays DEF Start, Goto, Provisioning, TypeOK, TaskThere
  <2>. QED
    BY <2>1, <2>2
<1>5. ASSUME NEW w \in Requests, CreateTask(w) PROVE TypeOK' /\ TaskThere'
  <2>1. CASE task[w.order] = NoTask
    <3>1. SetTask(w.order, "PENDING", FALSE) /\ Goto(w, "tasked")
      BY <1>5, <2>1 DEF CreateTask
    <3>2. task' \in [Orders -> Tasks \cup {NoTask}] /\ TaskThere'
      BY <3>1, TaskWritten
    <3>. QED
      BY <1>5, <3>1, <3>2 DEF CreateTask, Goto, TypeOK
  <2>2. CASE task[w.order] # NoTask
    BY <1>5, <2>2 DEF CreateTask, Goto, TypeOK, TaskThere, Provisioning
  <2>. QED
    BY <2>1, <2>2
<1>6. ASSUME NEW w \in Requests, ToProvisioning(w) PROVE TypeOK' /\ TaskThere'
  <2>1. TypeOK'
    BY <1>6, OrderOf DEF ToProvisioning, Goto, SetOrder, TypeOK
  <2>2. TaskThere'
    BY <1>6, TaskStays DEF ToProvisioning, Goto, SetOrder, Provisioning, TypeOK, TaskThere
  <2>. QED
    BY <2>1, <2>2
<1>7. ASSUME NEW w \in Requests, StartError(w) PROVE TypeOK' /\ TaskThere'
  <2>. DEFINE label == IF pc[w] = "tasked" THEN "gaveup" ELSE "rejected"
  <2>1. w.order \in Orders /\ Goto(w, label)
    BY <1>7, OrderOf DEF StartError
  <2>2. task' \in [Orders -> Tasks \cup {NoTask}] /\ TaskThere'
    <3>1. CASE UNCHANGED task
      BY <3>1, <2>1 DEF TypeOK, TaskThere, Goto, Provisioning
    <3>2. CASE SetTask(w.order, "PENDING", FALSE)
      BY <3>2, <2>1, TaskWritten
    <3>. QED
      BY <1>7, <3>1, <3>2 DEF StartError
  <2>3. order' = order \/ SetOrder(w.order, "PAID") \/ SetOrder(w.order, "PROVISIONING")
    BY <1>7 DEF StartError
  <2>4. UNCHANGED <<droplet, created, polls, retry>>
    BY <1>7 DEF StartError
  <2>. QED
    BY <2>1, <2>2, <2>3, <2>4 DEF Goto, SetOrder, TypeOK
<1>8. ASSUME NEW w \in Requests, CreateDroplet(w) PROVE TypeOK' /\ TaskThere'
  <2>1. TypeOK'
    BY <1>8, OrderOf DEF CreateDroplet, Goto, TypeOK
  <2>2. TaskThere'
    BY <1>8, TaskStays DEF CreateDroplet, Goto, Provisioning, TypeOK, TaskThere
  <2>. QED
    BY <2>1, <2>2
<1>9. ASSUME NEW w \in Requests, CreateError(w) PROVE TypeOK' /\ TaskThere'
  <2>1. TypeOK'
    BY <1>9, OrderOf DEF CreateError, Goto, TypeOK
  <2>2. TaskThere'
    BY <1>9, TaskStays DEF CreateError, Goto, Provisioning, TypeOK, TaskThere
  <2>. QED
    BY <2>1, <2>2
<1>10. ASSUME NEW w \in Requests, SaveDroplet(w) PROVE TypeOK' /\ TaskThere'
  <2>1. w.order \in Orders /\ task[w.order] # NoTask
    BY <1>10, OrderOf DEF SaveDroplet, Provisioning, TaskThere
  <2>2. task' \in [Orders -> Tasks \cup {NoTask}] /\ TaskThere'
    BY <1>10, <2>1, TaskColumns, TaskWritten, TaskStays
    DEF SaveDroplet, Provisioning
  <2>3. TypeOK'
    BY <1>10, <2>1, <2>2 DEF SaveDroplet, Goto, SetOrder, TypeOK
  <2>. QED
    BY <2>2, <2>3
<1>11. ASSUME NEW w \in Requests, StartPolling(w) PROVE TypeOK' /\ TaskThere'
  <2>1. w.order \in Orders /\ task[w.order] # NoTask
    BY <1>11, OrderOf DEF StartPolling, Provisioning, TaskThere
  <2>2. task' \in [Orders -> Tasks \cup {NoTask}] /\ TaskThere'
    BY <1>11, <2>1, TaskColumns, TaskWritten, TaskStays
    DEF StartPolling, Provisioning
  <2>3. TypeOK'
    BY <1>11, <2>1, <2>2 DEF StartPolling, Goto, SetOrder, TypeOK
  <2>. QED
    BY <2>2, <2>3
<1>12. ASSUME NEW w \in Requests, SaveError(w) PROVE TypeOK' /\ TaskThere'
  <2>1. w.order \in Orders /\ task[w.order] # NoTask
    BY <1>12, OrderOf DEF SaveError, Provisioning, TaskThere
  <2>2. task' \in [Orders -> Tasks \cup {NoTask}] /\ TaskThere'
    <3>. DEFINE label == "failing"
    <3>1. Goto(w, label)
      BY <1>12 DEF SaveError
    <3>2. CASE UNCHANGED task
      BY <3>1, <3>2, <2>1, <1>12 DEF TypeOK, TaskThere, Goto, Provisioning
    <3>3. CASE SetTask(w.order, task[w.order].status, TRUE)
      BY <3>1, <3>3, <2>1, TaskColumns, TaskWritten
    <3>4. CASE SetTask(w.order, "IN_PROGRESS", task[w.order].droplet)
      BY <3>1, <3>4, <2>1, TaskColumns, TaskWritten
    <3>. QED
      BY <1>12, <3>2, <3>3, <3>4 DEF SaveError
  <2>3. TypeOK'
    BY <1>12, <2>1, <2>2 DEF SaveError, Goto, SetOrder, TypeOK
  <2>. QED
    BY <2>2, <2>3
<1>13. ASSUME NEW w \in Requests, Poll(w) PROVE TypeOK' /\ TaskThere'
  <2>1. TypeOK'
    BY <1>13, OrderOf DEF Poll, Goto, TypeOK
  <2>2. TaskThere'
    BY <1>13, TaskStays DEF Poll, Goto, Provisioning, TypeOK, TaskThere
  <2>. QED
    BY <2>1, <2>2
<1>14. ASSUME NEW w \in Requests, Timeout(w) PROVE TypeOK' /\ TaskThere'
  <2>1. TypeOK'
    BY <1>14, OrderOf DEF Timeout, Goto, TypeOK
  <2>2. TaskThere'
    BY <1>14, TaskStays DEF Timeout, Goto, Provisioning, TypeOK, TaskThere
  <2>. QED
    BY <2>1, <2>2
<1>15. ASSUME NEW w \in Requests, MarkProvisioningSuccess(w) PROVE TypeOK' /\ TaskThere'
  <2>1. w.order \in Orders /\ task[w.order] # NoTask
    BY <1>15, OrderOf DEF MarkProvisioningSuccess, Provisioning, TaskThere
  <2>2. task' \in [Orders -> Tasks \cup {NoTask}] /\ TaskThere'
    BY <1>15, <2>1, TaskColumns, TaskWritten, TaskStays
    DEF MarkProvisioningSuccess, Succeed, Provisioning
  <2>3. TypeOK'
    BY <1>15, <2>1, <2>2 DEF MarkProvisioningSuccess, Goto, SetOrder, Succeed, TypeOK
  <2>. QED
    BY <2>2, <2>3
<1>16. ASSUME NEW w \in Requests, MarkSuccessError(w) PROVE TypeOK' /\ TaskThere'
  <2>1. w.order \in Orders /\ task[w.order] # NoTask
    BY <1>16, OrderOf DEF MarkSuccessError, Provisioning, TaskThere
  <2>2. task' \in [Orders -> Tasks \cup {NoTask}] /\ TaskThere'
    <3>. DEFINE label == "polling"
    <3>1. Goto(w, label)
      BY <1>16 DEF MarkSuccessError
    <3>2. CASE UNCHANGED task
      BY <3>1, <3>2, <2>1, <1>16 DEF TypeOK, TaskThere, Goto, Provisioning
    <3>3. CASE SetTask(w.order, "SUCCESS", task[w.order].droplet)
      BY <3>1, <3>3, <2>1, TaskColumns, TaskWritten
    <3>. QED
      BY <1>16, <3>2, <3>3 DEF MarkSuccessError, Succeed
  <2>3. TypeOK'
    BY <1>16, <2>1, <2>2 DEF MarkSuccessError, Goto, SetOrder, Succeed, TypeOK
  <2>. QED
    BY <2>2, <2>3
<1>17. ASSUME NEW w \in Requests, MarkProvisioningFailed(w) PROVE TypeOK' /\ TaskThere'
  <2>1. w.order \in Orders /\ task[w.order] # NoTask
    BY <1>17, OrderOf DEF MarkProvisioningFailed, Provisioning, TaskThere
  <2>2. task' \in [Orders -> Tasks \cup {NoTask}] /\ TaskThere'
    BY <1>17, <2>1, TaskColumns, TaskWritten, TaskStays
    DEF MarkProvisioningFailed, Fail, Provisioning
  <2>3. TypeOK'
    BY <1>17, <2>1, <2>2 DEF MarkProvisioningFailed, Goto, SetOrder, Fail, TypeOK
  <2>. QED
    BY <2>2, <2>3
<1>18. ASSUME NEW w \in Requests, MarkFailedError(w) PROVE TypeOK' /\ TaskThere'
  <2>1. w.order \in Orders /\ task[w.order] # NoTask
    BY <1>18, OrderOf DEF MarkFailedError, Provisioning, TaskThere
  <2>2. task' \in [Orders -> Tasks \cup {NoTask}] /\ TaskThere'
    <3>. DEFINE label == IF pc[w] = "errored" THEN "polling"
                      ELSE IF pc[w] = "givingup" THEN "failing" ELSE "gaveup"
    <3>1. Goto(w, label)
      BY <1>18 DEF MarkFailedError
    <3>2. CASE UNCHANGED task
      BY <3>1, <3>2, <2>1, <1>18 DEF TypeOK, TaskThere, Goto, Provisioning
    <3>3. CASE SetTask(w.order, "FAILED", task[w.order].droplet)
      BY <3>1, <3>3, <2>1, TaskColumns, TaskWritten
    <3>. QED
      BY <1>18, <3>2, <3>3 DEF MarkFailedError, Fail
  <2>3. TypeOK'
    BY <1>18, <2>1, <2>2 DEF MarkFailedError, Goto, SetOrder, Fail, TypeOK
  <2>. QED
    BY <2>2, <2>3
<1>19. ASSUME NEW w \in Requests, Die(w) PROVE TypeOK' /\ TaskThere'
  <2>1. TypeOK'
    BY <1>19, OrderOf DEF Die, Goto, TypeOK
  <2>2. TaskThere'
    BY <1>19, TaskStays DEF Die, Goto, Provisioning, TypeOK, TaskThere
  <2>. QED
    BY <2>1, <2>2
<1>20. ASSUME NEW r \in Requests, RetryCheck(r) PROVE TypeOK' /\ TaskThere'
  BY <1>20 DEF RetryCheck, TypeOK, TaskThere, Provisioning
<1>21. ASSUME NEW r \in Requests, RetryWrite(r) PROVE TypeOK' /\ TaskThere'
  <2>1. /\ task' \in [Orders -> Tasks \cup {NoTask}]
        /\ task'[r.order] # NoTask
        /\ \A p \in Orders : p # r.order => task'[p] = task[p]
    BY <1>21, OrderOf, SetTaskEffect DEF RetryWrite
  <2>2. TypeOK'
    BY <1>21, <2>1, OrderOf DEF RetryWrite, SetOrder, TypeOK
  <2>3. TaskThere'
    BY <1>21, <2>1, OrderOf DEF RetryWrite, TaskThere, Provisioning
  <2>. QED
    BY <2>2, <2>3
<1>22. ASSUME NEW r \in Requests, RetryError(r) PROVE TypeOK' /\ TaskThere'
  BY <1>22 DEF RetryError, TypeOK, TaskThere, Provisioning
<1>23. ASSUME NEW o \in Orders, Boot(o) PROVE TypeOK' /\ TaskThere'
  BY <1>23 DEF Boot, TypeOK, TaskThere, Provisioning
<1>24. CASE UNCHANGED vars
  BY <1>24 DEF vars, TypeOK, TaskThere, Provisioning
<1>. QED
  BY <1>1, <1>2, <1>3, <1>4, <1>5, <1>6, <1>7, <1>8, <1>9, <1>10, <1>11,
     <1>12, <1>13, <1>14, <1>15, <1>16, <1>17, <1>18, <1>19, <1>20, <1>21,
     <1>22, <1>23, <1>24 DEF Next, Step, Terminated

(* The rows keep their types, and whoever works on an order finds its task. *)
THEOREM TypeCorrect == Spec => []TypeOK
<1>1. Spec => [](TypeOK /\ TaskThere)
  BY TypeInit, TypeNext, PTL DEF Spec
<1>. QED
  BY <1>1, PTL
-----------------------------------------------------------------------------
(* The invariant. *)

LEMMA InvInit == Init => Inv
  BY TypeInit DEF Init, Inv, OneProvisioner, OrderInv, WorkInv, HasFailed, Provisioning

Rest ==
    /\ OneProvisioner
    /\ \A o \in Orders : OrderInv(o)
    /\ \A w \in Requests : WorkInv(w)

(* A step of w that changes no row: only what w relies on has to be shown. *)
LEMMA OnlyMoves ==
  ASSUME Inv, NEW w \in Requests, NEW label, Goto(w, label),
         UNCHANGED <<order, task, droplet, created, retry>>,
         Provisioning(w)' => Provisioning(w), WorkInv(w)'
  PROVE  Rest'
<1>1. \A p \in Orders : HasFailed(p)' <=> HasFailed(p)
  BY DEF HasFailed
<1>2. \A v \in Requests : v # w => pc'[v] = pc[v]
  BY DEF Inv, TypeOK, Goto
<1>3. OneProvisioner'
  BY <1>2 DEF Inv, OneProvisioner, Provisioning
<1>4. ASSUME NEW p \in Orders PROVE OrderInv(p)'
  BY <1>1 DEF Inv, OrderInv
<1>5. ASSUME NEW v \in Requests PROVE WorkInv(v)'
  BY <1>1, <1>2, OrderOf DEF Inv, WorkInv, Provisioning
<1>. QED
  BY <1>3, <1>4, <1>5 DEF Rest

(* A step that concerns one order and at most one request w, its only      *)
(* provisioner: nothing changes for the others.                            *)
LEMMA Local ==
  ASSUME Inv, NEW w \in Requests,
         \A v \in Requests : v # w => pc'[v] = pc[v] /\ retry'[v] = retry[v],
         \A p \in Orders : p # w.order =>
            /\ order'[p] = order[p] /\ task'[p] = task[p]
            /\ droplet'[p] = droplet[p] /\ created'[p] = created[p],
         OrderInv(w.order)',
         \A v \in Requests : v.order = w.order => WorkInv(v)',
         Provisioning(w)' =>
            \A v \in Requests : v.order = w.order /\ Provisioning(v) => v = w
  PROVE  Rest'
<1>1. \A p \in Orders : p # w.order => (HasFailed(p)' <=> HasFailed(p))
  BY DEF HasFailed
<1>2. OneProvisioner'
  BY DEF Inv, OneProvisioner, Provisioning
<1>3. ASSUME NEW p \in Orders PROVE OrderInv(p)'
  BY <1>1 DEF Inv, OrderInv
<1>4. ASSUME NEW v \in Requests PROVE WorkInv(v)'
  BY <1>1, OrderOf DEF Inv, WorkInv, Provisioning
<1>. QED
  BY <1>2, <1>3, <1>4 DEF Rest

(* The provisioner of an order is alone with it: it has to keep what holds  *)
(* of the order and what it relies on itself.                              *)
LEMMA Provisioner ==
  ASSUME Inv, NEW w \in Requests, Provisioning(w), NEW label, Goto(w, label),
         UNCHANGED retry,
         \A p \in Orders : p # w.order =>
            /\ order'[p] = order[p] /\ task'[p] = task[p]
            /\ droplet'[p] = droplet[p] /\ created'[p] = created[p],
         OrderInv(w.order)', WorkInv(w)'
  PROVE  Rest'
<1>1. \A v \in Requests : v # w => pc'[v] = pc[v]
  BY DEF Inv, TypeOK, Goto
<1>2. \A v \in Requests : v.order = w.order /\ Provisioning(v) => v = w
  BY DEF Inv, OneProvisioner
<1>3. ASSUME NEW v \in Requests, v.order = w.order PROVE WorkInv(v)'
  BY <1>1, <1>2, <1>3 DEF WorkInv, Provisioning
<1>. QED
  BY <1>1, <1>2, <1>3, Local

(* A step that concerns one order and moves no request that works on it.   *)
LEMMA Elsewhere ==
  ASSUME Inv, NEW o \in Orders, UNCHANGED pc,
         \A v \in Requests : v.order # o => retry'[v] = retry[v],
         \A p \in Orders : p # o =>
            /\ order'[p] = order[p] /\ task'[p] = task[p]
            /\ droplet'[p] = droplet[p] /\ created'[p] = created[p],
         OrderInv(o)',
         \A v \in Requests : v.order = o => WorkInv(v)'
  PROVE  Rest'
<1>1. \A p \in Orders : p # o => (HasFailed(p)' <=> HasFailed(p))
  BY DEF HasFailed
<1>2. OneProvisioner'
  BY DEF Inv, OneProvisioner, Provisioning
<1>3. ASSUME NEW p \in Orders PROVE OrderInv(p)'
  BY <1>1 DEF Inv, OrderInv
<1>4. ASSUME NEW v \in Requests PROVE WorkInv(v)'
  BY <1>1, OrderOf DEF Inv, WorkInv, Provisioning
<1>. QED
  BY <1>2, <1>3, <1>4 DEF Rest

(* A step of a retry that writes no row and finds no new failure.           *)
LEMMA FewerFailures ==
  ASSUME Inv, UNCHANGED <<order, task, droplet, created, pc>>,
         \A p \in Orders : HasFailed(p)' => HasFailed(p)
  PROVE  Rest'
<1>1. OneProvisioner'
  BY DEF Inv, OneProvisioner, Provisioning
<1>2. ASSUME NEW p \in Orders PROVE OrderInv(p)'
  BY DEF Inv, OrderInv
<1>3. ASSUME NEW v \in Requests PROVE WorkInv(v)'
  BY OrderOf DEF Inv, WorkInv, Provisioning
<1>. QED
  BY <1>1, <1>2, <1>3 DEF Rest

(* Who creates the task of an order finds it untouched: nobody works on it. *)
LEMMA NewTask ==
  ASSUME Inv, NEW w \in Requests, NEW label, Goto(w, label), task[w.order] = NoTask,
         label \in {"tasked", "rejected"}, SetTask(w.order, "PENDING", FALSE),
         UNCHANGED <<order, droplet, created, retry>>
  PROVE  Rest'
<1>. DEFINE o == w.order
<1>1. o \in Orders
  BY OrderOf
<1>2. /\ task'[o] = [status |-> "PENDING", droplet |-> FALSE] /\ task'[o] # NoTask
      /\ \A p \in Orders : p # o => task'[p] = task[p]
  BY <1>1, SetTaskEffect DEF Inv
<1>3. pc'[w] = label /\ \A v \in Requests : v # w => pc'[v] = pc[v]
  BY DEF Goto, Inv, TypeOK
<1>4. \A v \in Requests : v.order = o => ~Provisioning(v)
  BY DEF Inv, WorkInv
<1>5. /\ created[o] = 0 /\ droplet[o] = "none" /\ ~HasFailed(o)
      /\ order[o] \in {"PENDING_PAYMENT", "PAID"}
  BY <1>1 DEF Inv, OrderInv
<1>6. ~HasFailed(o)'
  BY <1>5 DEF HasFailed
<1>7. OrderInv(o)'
  BY <1>2, <1>5, <1>6 DEF OrderInv
<1>8. ASSUME NEW v \in Requests, v.order = o PROVE WorkInv(v)'
  <2>1. CASE v = w
    BY <1>2, <1>3, <1>5, <1>6, <2>1 DEF WorkInv, Provisioning
  <2>2. CASE v # w
    BY <1>3, <1>4, <1>8, <2>2 DEF WorkInv, Provisioning
  <2>. QED
    BY <2>1, <2>2
<1>. QED
  BY <1>2, <1>3, <1>4, <1>7, <1>8, Local

LEMMA InvNext == Inv /\ [Next]_vars => Inv'
<1>. SUFFICES ASSUME Inv, [Next]_vars PROVE Inv'
  OBVIOUS
<1>. SUFFICES Rest'
  <2>1. ASSUME NEW w \in Requests, Provisioning(w) PROVE task[w.order] # NoTask
    <3>1. WorkInv(w)
      BY DEF Inv
    <3>. QED
      BY <2>1, <3>1 DEF WorkInv
  <2>2. TypeOK /\ TaskThere
    BY <2>1 DEF Inv, TaskThere
  <2>3. TypeOK'
    BY <2>2, TypeNext
  <2>. QED
    BY <2>3 DEF Rest, Inv
<1>. USE OrderOf
<1>1. ASSUME NEW w \in Requests, PayCheck(w) PROVE Rest'
  <2>1. CASE Goto(w, "checked")
    <3>1. pc'[w] = "checked"
      BY <2>1 DEF Inv, TypeOK, Goto
    <3>2. UNCHANGED <<order, task, droplet, created, retry>>
      BY <1>1 DEF PayCheck
    <3>3. (Provisioning(w)' => Provisioning(w)) /\ WorkInv(w)'
      BY <1>1, <3>1, <3>2 DEF PayCheck, Inv, WorkInv, Provisioning, HasFailed, Goto, TypeOK
    <3>. QED
      BY <2>1, <3>2, <3>3, OnlyMoves
  <2>2. CASE Goto(w, "rejected")
    <3>1. pc'[w] = "rejected"
      BY <2>2 DEF Inv, TypeOK, Goto
    <3>2. UNCHANGED <<order, task, droplet, created, retry>>
      BY <1>1 DEF PayCheck
    <3>3. (Provisioning(w)' => Provisioning(w)) /\ WorkInv(w)'
      BY <1>1, <3>1, <3>2 DEF PayCheck, Inv, WorkInv, Provisioning, HasFailed, Goto, TypeOK
    <3>. QED
      BY <2>2, <3>2, <3>3, OnlyMoves
  <2>. QED
    BY <1>1, <2>1, <2>2 DEF PayCheck
<1>2. ASSUME NEW w \in Requests, PayValidate(w) PROVE Rest'
  <2>1. CASE Goto(w, "validated")
    <3>1. pc'[w] = "validated"
      BY <2>1 DEF Inv, TypeOK, Goto
    <3>2. UNCHANGED <<order, task, droplet, created, retry>>
      BY <1>2 DEF PayValidate
    <3>3. (Provisioning(w)' => Provisioning(w)) /\ WorkInv(w)'
      BY <1>2, <3>1, <3>2 DEF PayValidate, Inv, WorkInv, Provisioning, HasFailed, Goto, TypeOK
    <3>. QED
      BY <2>1, <3>2, <3>3, OnlyMoves
  <2>2. CASE Goto(w, "rejected")
    <3>1. pc'[w] = "rejected"
      BY <2>2 DEF Inv, TypeOK, Goto
    <3>2. UNCHANGED <<order, task, droplet, created, retry>>
      BY <1>2 DEF PayValidate
    <3>3. (Provisioning(w)' => Provisioning(w)) /\ WorkInv(w)'
      BY <1>2, <3>1, <3>2 DEF PayValidate, Inv, WorkInv, Provisioning, HasFailed, Goto, TypeOK
    <3>. QED
      BY <2>2, <3>2, <3>3, OnlyMoves
  <2>. QED
    BY <1>2, <2>1, <2>2 DEF PayValidate
<1>3. ASSUME NEW w \in Requests, PayWrite(w) PROVE Rest'
  <2>. DEFINE o == w.order
  <2>1. o \in Orders /\ ~Provisioning(w)
    BY <1>3 DEF PayWrite, Provisioning
  <2>2. /\ pc'[w] = "paid" /\ \A v \in Requests : v # w => pc'[v] = pc[v]
        /\ order'[o] = "PAID" /\ \A p \in Orders : p # o => order'[p] = order[p]
        /\ UNCHANGED <<task, droplet, created, retry>>
    BY <1>3, <2>1 DEF PayWrite, Goto, SetOrder, Inv, TypeOK
  <2>3. HasFailed(o)' => HasFailed(o)
    BY <2>2 DEF HasFailed
  <2>4. OrderInv(o)'
    BY <2>1, <2>2, <2>3 DEF Inv, OrderInv
  <2>5. ASSUME NEW v \in Requests, v.order = o PROVE WorkInv(v)'
    BY <2>2, <2>3, <2>5 DEF Inv, WorkInv, Provisioning
  <2>6. ~Provisioning(w)'
    BY <2>2 DEF Provisioning
  <2>. QED
    BY <2>2, <2>4, <2>5, <2>6, Local
<1>4. ASSUME NEW w \in Requests, Start(w) PROVE Rest'
  <2>1. CASE Goto(w, "starting")
    <3>1. pc'[w] = "starting"
      BY <2>1 DEF Inv, TypeOK, Goto
    <3>2. UNCHANGED <<order, task, droplet, created, retry>>
      BY <1>4 DEF Start
    <3>3. (Provisioning(w)' => Provisioning(w)) /\ WorkInv(w)'
      BY <1>4, <3>1, <3>2 DEF Start, Inv, WorkInv, Provisioning, HasFailed, Goto, TypeOK
    <3>. QED
      BY <2>1, <3>2, <3>3, OnlyMoves
  <2>2. CASE Goto(w, "rejected")
    <3>1. pc'[w] = "rejected"
      BY <2>2 DEF Inv, TypeOK, Goto
    <3>2. UNCHANGED <<order, task, droplet, created, retry>>
      BY <1>4 DEF Start
    <3>3. (Provisioning(w)' => Provisioning(w)) /\ WorkInv(w)'
      BY <1>4, <3>1, <3>2 DEF Start, Inv, WorkInv, Provisioning, HasFailed, Goto, TypeOK
    <3>. QED
      BY <2>2, <3>2, <3>3, OnlyMoves
  <2>. QED
    BY <1>4, <2>1, <2>2 DEF Start
<1>5. ASSUME NEW w \in Requests, CreateTask(w) PROVE Rest'
  <2>1. CASE task[w.order] = NoTask
    BY <1>5, <2>1, NewTask DEF CreateTask
  <2>2. CASE task[w.order] # NoTask
    <3>1. Goto(w, "rejected") /\ UNCHANGED <<order, task, droplet, created, retry>>
      BY <1>5, <2>2 DEF CreateTask
    <3>2. ~Provisioning(w)'
      BY <3>1 DEF Goto, Inv, TypeOK, Provisioning
    <3>. QED
      BY <3>1, <3>2, OnlyMoves DEF WorkInv
  <2>. QED
    BY <2>1, <2>2
<1>6. ASSUME NEW w \in Requests, ToProvisioning(w) PROVE Rest'
  <2>. DEFINE o == w.order
  <2>1. o \in Orders /\ Provisioning(w) /\ task[o] # NoTask
    BY <1>6 DEF ToProvisioning, Provisioning, Inv, WorkInv
  <2>2. /\ Goto(w, "creating") /\ UNCHANGED retry
        /\ pc'[w] = "creating"
    BY <1>6 DEF ToProvisioning, Goto, Inv, TypeOK
  <2>3. /\ order'[o] = "PROVISIONING" /\ UNCHANGED <<task, droplet, created>>
        /\ \A p \in Orders : p # w.order =>
              /\ order'[p] = order[p] /\ task'[p] = task[p]
              /\ droplet'[p] = droplet[p] /\ created'[p] = created[p]
    BY <1>6, <2>1, TaskColumns, SetTaskEffect DEF ToProvisioning, Inv, TypeOK, SetOrder
  <2>4. OrderInv(o)'
    BY <1>6, <2>1, <2>2, <2>3, TaskColumns DEF ToProvisioning, Inv, OrderInv, WorkInv, HasFailed
  <2>5. WorkInv(w)'
    BY <1>6, <2>1, <2>2, <2>3, TaskColumns DEF ToProvisioning, Inv, WorkInv, HasFailed, Provisioning
  <2>. QED
    BY <2>1, <2>2, <2>3, <2>4, <2>5, Provisioner
<1>7. ASSUME NEW w \in Requests, StartError(w) PROVE Rest'
  <2>. DEFINE o == w.order
              label == IF pc[w] = "tasked" THEN "gaveup" ELSE "rejected"
  <2>1. Goto(w, label) /\ UNCHANGED <<droplet, created, retry>>
    BY <1>7 DEF StartError
  <2>2. pc'[w] = label /\ \A v \in Requests : v # w => pc'[v] = pc[v]
    BY <2>1 DEF Goto, Inv, TypeOK
  <2>3. ~Provisioning(w)'
    BY <2>2 DEF Provisioning
  <2>4. CASE UNCHANGED <<order, task>>
    BY <2>1, <2>3, <2>4, OnlyMoves DEF WorkInv
  <2>5. CASE pc[w] = "validated" /\ SetOrder(o, "PAID") /\ UNCHANGED task
    <3>1. /\ order'[o] = "PAID" /\ \A p \in Orders : p # o => order'[p] = order[p]
          /\ UNCHANGED <<task, droplet, created, retry>>
      BY <2>1, <2>5 DEF SetOrder, Inv, TypeOK
    <3>2. HasFailed(o)' => HasFailed(o)
      BY <3>1 DEF HasFailed
    <3>3. OrderInv(o)'
      BY <3>1, <3>2 DEF Inv, OrderInv
    <3>4. ASSUME NEW v \in Requests, v.order = o PROVE WorkInv(v)'
      BY <2>2, <2>3, <3>1, <3>2, <3>4 DEF Inv, WorkInv, Provisioning
    <3>. QED
      BY <2>2, <2>3, <3>1, <3>3, <3>4, Local
  <2>6. CASE /\ pc[w] = "starting" /\ task[o] = NoTask
             /\ SetTask(o, "PENDING", FALSE) /\ UNCHANGED order
    BY <2>1, <2>6, NewTask
  <2>7. CASE pc[w] = "tasked" /\ SetOrder(o, "PROVISIONING") /\ UNCHANGED task
    <3>1. /\ Provisioning(w) /\ o \in Orders
          /\ order'[o] = "PROVISIONING"
          /\ \A p \in Orders : p # o => order'[p] = order[p]
      BY <2>7 DEF SetOrder, Inv, TypeOK, Provisioning
    <3>2. task[o] # NoTask /\ task[o].status = "PENDING"
      BY <2>7, <3>1 DEF Inv, WorkInv
    <3>3. OrderInv(o)'
      BY <2>1, <2>7, <3>1, <3>2 DEF Inv, OrderInv
    <3>. QED
      BY <2>1, <2>3, <2>7, <3>1, <3>3, Provisioner DEF WorkInv
  <2>. QED
    BY <1>7, <2>4, <2>5, <2>6, <2>7 DEF StartError
<1>8. ASSUME NEW w \in Requests, CreateDroplet(w) PROVE Rest'
  <2>. DEFINE o == w.order
  <2>1. o \in Orders /\ Provisioning(w) /\ task[o] # NoTask
    BY <1>8 DEF CreateDroplet, Provisioning, Inv, WorkInv
  <2>2. /\ Goto(w, "created") /\ UNCHANGED retry
        /\ pc'[w] = "created"
    BY <1>8 DEF CreateDroplet, Goto, Inv, TypeOK
  <2>3. /\ droplet'[o] = "new" /\ created'[o] = created[o] + 1
        /\ UNCHANGED <<order, task>>
        /\ \A p \in Orders : p # w.order =>
              /\ order'[p] = order[p] /\ task'[p] = task[p]
              /\ droplet'[p] = droplet[p] /\ created'[p] = created[p]
    BY <1>8, <2>1, TaskColumns, SetTaskEffect DEF CreateDroplet, Inv, TypeOK
  <2>4. OrderInv(o)'
    BY <1>8, <2>1, <2>2, <2>3, TaskColumns DEF CreateDroplet, Inv, OrderInv, WorkInv, HasFailed
  <2>5. WorkInv(w)'
    BY <1>8, <2>1, <2>2, <2>3, TaskColumns DEF CreateDroplet, Inv, WorkInv, HasFailed, Provisioning
  <2>. QED
    BY <2>1, <2>2, <2>3, <2>4, <2>5, Provisioner
<1>9. ASSUME NEW w \in Requests, CreateError(w) PROVE Rest'
  <2>. DEFINE o == w.order
  <2>1. o \in Orders /\ Provisioning(w) /\ task[o] # NoTask
    BY <1>9 DEF CreateError, Provisioning, Inv, WorkInv
  <2>2. /\ Goto(w, "failing") /\ UNCHANGED retry
        /\ pc'[w] = "failing"
    BY <1>9 DEF CreateError, Goto, Inv, TypeOK
  <2>3. /\ \/ UNCHANGED <<droplet, created>>
           \/ droplet'[o] = "new" /\ created'[o] = created[o] + 1
        /\ UNCHANGED <<order, task>>
        /\ \A p \in Orders : p # w.order =>
              /\ order'[p] = order[p] /\ task'[p] = task[p]
              /\ droplet'[p] = droplet[p] /\ created'[p] = created[p]
    BY <1>9, <2>1, TaskColumns, SetTaskEffect DEF CreateError, Inv, TypeOK
  <2>4. OrderInv(o)'
    BY <1>9, <2>1, <2>2, <2>3, TaskColumns DEF CreateError, Inv, OrderInv, WorkInv, HasFailed
  <2>5. WorkInv(w)'
    BY <1>9, <2>1, <2>2, <2>3, TaskColumns DEF CreateError, Inv, WorkInv, HasFailed, Provisioning
  <2>. QED
    BY <2>1, <2>2, <2>3, <2>4, <2>5, Provisioner
<1>10. ASSUME NEW w \in Requests, SaveDroplet(w) PROVE Rest'
  <2>. DEFINE o == w.order
  <2>1. o \in Orders /\ Provisioning(w) /\ task[o] # NoTask
    BY <1>10 DEF SaveDroplet, Provisioning, Inv, WorkInv
  <2>2. /\ Goto(w, "saved") /\ UNCHANGED retry
        /\ pc'[w] = "saved"
    BY <1>10 DEF SaveDroplet, Goto, Inv, TypeOK
  <2>3. /\ task'[o] = [status |-> task[o].status, droplet |-> TRUE]
        /\ task'[o] # NoTask
        /\ UNCHANGED <<order, droplet, created>>
        /\ \A p \in Orders : p # w.order =>
              /\ order'[p] = order[p] /\ task'[p] = task[p]
              /\ droplet'[p] = droplet[p] /\ created'[p] = created[p]
    <3>1. /\ SetTask(o, task[o].status, TRUE)
          /\ UNCHANGED <<order, droplet, created>>
      BY <1>10 DEF SaveDroplet
    <3>2. TypeOK
      BY DEF Inv
    <3>3. /\ task[o].status \in {"PENDING", "IN_PROGRESS", "SUCCESS", "FAILED"}
          /\ task[o].droplet \in BOOLEAN
      BY <2>1, <3>2, TaskColumns
    <3>4. /\ task'[o] # NoTask
          /\ \A p \in Orders : p # o => task'[p] = task[p]
      BY <2>1, <3>1, <3>2, <3>3, SetTaskEffect
    <3>5. task'[o] = [status |-> task[o].status, droplet |-> TRUE]
      BY <2>1, <3>1, <3>2, <3>3, SetTaskEffect
    <3>. QED
      BY <3>1, <3>4, <3>5
  <2>4. OrderInv(o)'
    BY <1>10, <2>1, <2>2, <2>3, TaskColumns DEF SaveDroplet, Inv, OrderInv, WorkInv, HasFailed
  <2>5. WorkInv(w)'
    BY <1>10, <2>1, <2>2, <2>3, TaskColumns DEF SaveDroplet, Inv, WorkInv, HasFailed, Provisioning
  <2>. QED
    BY <2>1, <2>2, <2>3, <2>4, <2>5, Provisioner
<1>11. ASSUME NEW w \in Requests, StartPolling(w) PROVE Rest'
  <2>. DEFINE o == w.order
  <2>1. o \in Orders /\ Provisioning(w) /\ task[o] # NoTask
    BY <1>11 DEF StartPolling, Provisioning, Inv, WorkInv
  <2>2. /\ Goto(w, "polling") /\ UNCHANGED retry
        /\ pc'[w] = "polling"
    BY <1>11 DEF StartPolling, Goto, Inv, TypeOK
  <2>3. /\ task'[o] = [status |-> "IN_PROGRESS", droplet |-> task[o].droplet]
        /\ task'[o] # NoTask
        /\ UNCHANGED <<order, droplet, created>>
        /\ \A p \in Orders : p # w.order =>
              /\ order'[p] = order[p] /\ task'[p] = task[p]
              /\ droplet'[p] = droplet[p] /\ created'[p] = created[p]
    <3>1. /\ SetTask(o, "IN_PROGRESS", task[o].droplet)
          /\ UNCHANGED <<order, droplet, created>>
      BY <1>11 DEF StartPolling
    <3>2. TypeOK
      BY DEF Inv
    <3>3. /\ task[o].status \in {"PENDING", "IN_PROGRESS", "SUCCESS", "FAILED"}
          /\ task[o].droplet \in BOOLEAN
      BY <2>1, <3>2, TaskColumns
    <3>4. /\ task'[o] # NoTask
          /\ \A p \in Orders : p # o => task'[p] = task[p]
      BY <2>1, <3>1, <3>2, <3>3, SetTaskEffect
    <3>5. task'[o] = [status |-> "IN_PROGRESS", droplet |-> task[o].droplet]
      BY <2>1, <3>1, <3>2, <3>3, SetTaskEffect
    <3>. QED
      BY <3>1, <3>4, <3>5
  <2>4. OrderInv(o)'
    BY <1>11, <2>1, <2>2, <2>3, TaskColumns DEF StartPolling, Inv, OrderInv, WorkInv, HasFailed
  <2>5. WorkInv(w)'
    BY <1>11, <2>1, <2>2, <2>3, TaskColumns DEF StartPolling, Inv, WorkInv, HasFailed, Provisioning
  <2>. QED
    BY <2>1, <2>2, <2>3, <2>4, <2>5, Provisioner
<1>12. ASSUME NEW w \in Requests, SaveError(w) PROVE Rest'
  <2>. DEFINE o == w.order
  <2>1. o \in Orders /\ Provisioning(w) /\ task[o] # NoTask
    BY <1>12 DEF SaveError, Provisioning, Inv, WorkInv
  <2>2. /\ Goto(w, "failing") /\ UNCHANGED retry
        /\ pc'[w] = "failing"
    BY <1>12 DEF SaveError, Goto, Inv, TypeOK
  <2>3. /\ \/ task'[o] = task[o]
           \/ task'[o] = [status |-> task[o].status, droplet |-> TRUE]
           \/ task'[o] = [status |-> "IN_PROGRESS", droplet |-> task[o].droplet]
        /\ task'[o] # NoTask /\ pc[w] \in {"created", "saved"}
        /\ UNCHANGED <<order, droplet, created>>
        /\ \A p \in Orders : p # w.order =>
              /\ order'[p] = order[p] /\ task'[p] = task[p]
              /\ droplet'[p] = droplet[p] /\ created'[p] = created[p]
    <3>1. CASE UNCHANGED task
      BY <1>12, <2>1, <3>1 DEF SaveError
    <3>2. CASE SetTask(o, task[o].status, TRUE)
      BY <1>12, <2>1, <3>2, TaskColumns, SetTaskEffect DEF SaveError, Inv
    <3>3. CASE SetTask(o, "IN_PROGRESS", task[o].droplet)
      BY <1>12, <2>1, <3>3, TaskColumns, SetTaskEffect DEF SaveError, Inv
    <3>. QED
      BY <1>12, <3>1, <3>2, <3>3 DEF SaveError
  <2>4. OrderInv(o)'
    BY <1>12, <2>1, <2>2, <2>3, TaskColumns DEF SaveError, Inv, OrderInv, WorkInv, HasFailed
  <2>5. WorkInv(w)'
    BY <1>12, <2>1, <2>2, <2>3, TaskColumns DEF SaveError, Inv, WorkInv, HasFailed, Provisioning
  <2>. QED
    BY <2>1, <2>2, <2>3, <2>4, <2>5, Provisioner
<1>13. ASSUME NEW w \in Requests, Poll(w) PROVE Rest'
  <2>1. CASE Goto(w, "succeeding")
    <3>1. pc'[w] = "succeeding"
      BY <2>1 DEF Inv, TypeOK, Goto
    <3>2. UNCHANGED <<order, task, droplet, created, retry>>
      BY <1>13 DEF Poll
    <3>3. pc[w] = "polling" /\ droplet[w.order] = "active"
      BY <1>13, <3>1 DEF Poll, Ready, Goto, Inv, TypeOK
    <3>4. task[w.order].droplet
      BY <3>3 DEF Inv, WorkInv, Provisioning
    <3>5. (Provisioning(w)' => Provisioning(w)) /\ WorkInv(w)'
      BY <3>1, <3>2, <3>3, <3>4 DEF Inv, WorkInv, Provisioning, HasFailed
    <3>. QED
      BY <2>1, <3>2, <3>5, OnlyMoves
  <2>2. CASE Goto(w, "errored")
    <3>1. pc'[w] = "errored"
      BY <2>2 DEF Inv, TypeOK, Goto
    <3>2. UNCHANGED <<order, task, droplet, created, retry>>
      BY <1>13 DEF Poll
    <3>3. pc[w] = "polling" /\ droplet[w.order] = "errored"
      BY <1>13, <3>1 DEF Poll, Goto, Inv, TypeOK
    <3>4. order[w.order] # "ACTIVE"
      BY <3>3 DEF Inv, OrderInv
    <3>5. (Provisioning(w)' => Provisioning(w)) /\ WorkInv(w)'
      BY <3>1, <3>2, <3>3, <3>4 DEF Inv, WorkInv, Provisioning, HasFailed
    <3>. QED
      BY <2>2, <3>2, <3>5, OnlyMoves
  <2>3. CASE Goto(w, "polling")
    <3>1. pc'[w] = "polling"
      BY <2>3 DEF Inv, TypeOK, Goto
    <3>2. UNCHANGED <<order, task, droplet, created, retry>>
      BY <1>13 DEF Poll
    <3>3. (Provisioning(w)' => Provisioning(w)) /\ WorkInv(w)'
      BY <1>13, <3>1, <3>2 DEF Poll, Inv, WorkInv, Provisioning, HasFailed, Goto, TypeOK
    <3>. QED
      BY <2>3, <3>2, <3>3, OnlyMoves
  <2>4. CASE Goto(w, "failing")
    <3>1. pc'[w] = "failing"
      BY <2>4 DEF Inv, TypeOK, Goto
    <3>2. UNCHANGED <<order, task, droplet, created, retry>>
      BY <1>13 DEF Poll
    <3>3. (Provisioning(w)' => Provisioning(w)) /\ WorkInv(w)'
      BY <1>13, <3>1, <3>2 DEF Poll, Inv, WorkInv, Provisioning, HasFailed, Goto, TypeOK
    <3>. QED
      BY <2>4, <3>2, <3>3, OnlyMoves
  <2>. QED
    BY <1>13, <2>1, <2>2, <2>3, <2>4 DEF Poll
<1>14. ASSUME NEW w \in Requests, Timeout(w) PROVE Rest'
  <2>1. CASE Goto(w, "givingup")
    <3>1. pc'[w] = "givingup"
      BY <2>1 DEF Inv, TypeOK, Goto
    <3>2. UNCHANGED <<order, task, droplet, created, retry>>
      BY <1>14 DEF Timeout
    <3>3. (Provisioning(w)' => Provisioning(w)) /\ WorkInv(w)'
      BY <1>14, <3>1, <3>2 DEF Timeout, Inv, WorkInv, Provisioning, HasFailed, Goto, TypeOK
    <3>. QED
      BY <2>1, <3>2, <3>3, OnlyMoves
  <2>. QED
    BY <1>14, <2>1 DEF Timeout
<1>15. ASSUME NEW w \in Requests, MarkProvisioningSuccess(w) PROVE Rest'
  <2>. DEFINE o == w.order
  <2>1. o \in Orders /\ Provisioning(w) /\ task[o] # NoTask
    BY <1>15 DEF MarkProvisioningSuccess, Provisioning, Inv, WorkInv
  <2>2. /\ Goto(w, "done") /\ UNCHANGED retry
        /\ pc'[w] = "done"
    BY <1>15 DEF MarkProvisioningSuccess, Goto, Inv, TypeOK
  <2>3. /\ task'[o] = [status |-> "SUCCESS", droplet |-> task[o].droplet]
        /\ task'[o] # NoTask /\ order'[o] = "ACTIVE"
        /\ UNCHANGED <<droplet, created>>
        /\ \A p \in Orders : p # w.order =>
              /\ order'[p] = order[p] /\ task'[p] = task[p]
              /\ droplet'[p] = droplet[p] /\ created'[p] = created[p]
    <3>1. /\ SetTask(o, "SUCCESS", task[o].droplet) /\ SetOrder(o, "ACTIVE")
          /\ UNCHANGED <<droplet, created>>
      BY <1>15 DEF MarkProvisioningSuccess, Succeed
    <3>2. TypeOK
      BY DEF Inv
    <3>. QED
      BY <2>1, <3>1, <3>2, EndEffect
  <2>0. /\ task[o].droplet = TRUE /\ droplet[o] = "active" /\ ~HasFailed(o)
        /\ created[o] <= 1
    BY <1>15, <2>1, TaskColumns
    DEF MarkProvisioningSuccess, Inv, OrderInv, WorkInv, Provisioning
  <2>4. OrderInv(o)'
    BY <2>0, <2>2, <2>3 DEF OrderInv, HasFailed
  <2>5. WorkInv(w)'
    BY <1>15, <2>1, <2>2, <2>3, TaskColumns DEF MarkProvisioningSuccess, Inv, WorkInv, HasFailed, Provisioning
  <2>. QED
    BY <2>1, <2>2, <2>3, <2>4, <2>5, Provisioner
<1>16. ASSUME NEW w \in Requests, MarkSuccessError(w) PROVE Rest'
  <2>. DEFINE o == w.order
  <2>1. o \in Orders /\ Provisioning(w) /\ task[o] # NoTask
    BY <1>16 DEF MarkSuccessError, Provisioning, Inv, WorkInv
  <2>2. /\ Goto(w, "polling") /\ UNCHANGED retry
        /\ pc'[w] = "polling"
    BY <1>16 DEF MarkSuccessError, Goto, Inv, TypeOK
  <2>3. /\ \/ UNCHANGED <<order, task>>
           \/ /\ task'[o] = [status |-> "SUCCESS", droplet |-> task[o].droplet]
              /\ task'[o] # NoTask /\ order'[o] = "ACTIVE"
        /\ UNCHANGED <<droplet, created>>
        /\ \A p \in Orders : p # w.order =>
              /\ order'[p] = order[p] /\ task'[p] = task[p]
              /\ droplet'[p] = droplet[p] /\ created'[p] = created[p]
    <3>1. CASE UNCHANGED <<order, task>>
      BY <1>16, <3>1 DEF MarkSuccessError
    <3>2. CASE Succeed(o)
      <4>1. SetTask(o, "SUCCESS", task[o].droplet) /\ SetOrder(o, "ACTIVE")
        BY <3>2 DEF Succeed
      <4>2. /\ task'[o] = [status |-> "SUCCESS", droplet |-> task[o].droplet]
            /\ task'[o] # NoTask /\ \A p \in Orders : p # o => task'[p] = task[p]
        BY <2>1, <4>1, TaskColumns, SetTaskEffect DEF Inv
      <4>3. order'[o] = "ACTIVE" /\ \A p \in Orders : p # o => order'[p] = order[p]
        BY <2>1, <4>1 DEF SetOrder, Inv, TypeOK
      <4>. QED
        BY <1>16, <4>2, <4>3 DEF MarkSuccessError
    <3>. QED
      BY <1>16, <3>1, <3>2 DEF MarkSuccessError
  <2>0. /\ task[o].droplet = TRUE /\ droplet[o] = "active" /\ ~HasFailed(o)
        /\ created[o] <= 1
    BY <1>16, <2>1, TaskColumns
    DEF MarkSuccessError, Inv, OrderInv, WorkInv, Provisioning
  <2>4. OrderInv(o)'
    <3>1. CASE UNCHANGED <<order, task>>
      BY <2>1, <2>2, <2>3, <3>1 DEF Inv, OrderInv, HasFailed
    <3>2. CASE ~UNCHANGED <<order, task>>
      BY <2>0, <2>2, <2>3, <3>2 DEF OrderInv, HasFailed
    <3>. QED
      BY <3>1, <3>2
  <2>5. WorkInv(w)'
    <3>1. ~HasFailed(o)'
      BY <2>0, <2>2, <2>3 DEF HasFailed
    <3>2. task'[o] # NoTask /\ task'[o].droplet = TRUE
      BY <2>0, <2>1, <2>3
    <3>. QED
      BY <2>2, <3>1, <3>2 DEF WorkInv
  <2>. QED
    BY <2>1, <2>2, <2>3, <2>4, <2>5, Provisioner
<1>17. ASSUME NEW w \in Requests, MarkProvisioningFailed(w) PROVE Rest'
  <2>. DEFINE o == w.order
  <2>1. o \in Orders /\ Provisioning(w) /\ task[o] # NoTask
    BY <1>17 DEF MarkProvisioningFailed, Provisioning, Inv, WorkInv
  <2>2. /\ Goto(w, "done") /\ UNCHANGED retry
        /\ pc'[w] = "done"
    BY <1>17 DEF MarkProvisioningFailed, Goto, Inv, TypeOK
  <2>3. /\ task'[o] = [status |-> "FAILED", droplet |-> task[o].droplet]
        /\ task'[o] # NoTask /\ order'[o] = "FAILED"
        /\ UNCHANGED <<droplet, created>>
        /\ \A p \in Orders : p # w.order =>
              /\ order'[p] = order[p] /\ task'[p] = task[p]
              /\ droplet'[p] = droplet[p] /\ created'[p] = created[p]
    <3>1. /\ SetTask(o, "FAILED", task[o].droplet) /\ SetOrder(o, "FAILED")
          /\ UNCHANGED <<droplet, created>>
      BY <1>17 DEF MarkProvisioningFailed, Fail
    <3>2. TypeOK
      BY DEF Inv
    <3>. QED
      BY <2>1, <3>1, <3>2, EndEffect
  <2>4. OrderInv(o)'
    BY <1>17, <2>1, <2>2, <2>3, TaskColumns DEF MarkProvisioningFailed, Inv, OrderInv, WorkInv, HasFailed
  <2>5. WorkInv(w)'
    BY <1>17, <2>1, <2>2, <2>3, TaskColumns DEF MarkProvisioningFailed, Inv, WorkInv, HasFailed, Provisioning
  <2>. QED
    BY <2>1, <2>2, <2>3, <2>4, <2>5, Provisioner
<1>18. ASSUME NEW w \in Requests, MarkFailedError(w) PROVE Rest'
  <2>. DEFINE o == w.order
  <2>1. o \in Orders /\ Provisioning(w) /\ task[o] # NoTask
    BY <1>18 DEF MarkFailedError, Provisioning, Inv, WorkInv
  <2>2. /\ Goto(w, (IF pc[w] = "errored" THEN "polling"
               ELSE IF pc[w] = "givingup" THEN "failing" ELSE "gaveup")) /\ UNCHANGED retry
        /\ pc'[w] = (IF pc[w] = "errored" THEN "polling"
               ELSE IF pc[w] = "givingup" THEN "failing" ELSE "gaveup")
    BY <1>18 DEF MarkFailedError, Goto, Inv, TypeOK
  <2>3. /\ \/ UNCHANGED <<order, task>>
           \/ /\ task'[o] = [status |-> "FAILED", droplet |-> task[o].droplet]
              /\ task'[o] # NoTask /\ order'[o] = "FAILED"
        /\ pc[w] \in {"errored", "givingup", "failing"}
        /\ UNCHANGED <<droplet, created>>
        /\ \A p \in Orders : p # w.order =>
              /\ order'[p] = order[p] /\ task'[p] = task[p]
              /\ droplet'[p] = droplet[p] /\ created'[p] = created[p]
    <3>1. CASE UNCHANGED <<order, task>>
      BY <1>18, <3>1 DEF MarkFailedError
    <3>2. CASE Fail(o)
      <4>1. /\ SetTask(o, "FAILED", task[o].droplet) /\ SetOrder(o, "FAILED")
            /\ UNCHANGED <<droplet, created>>
            /\ pc[w] \in {"errored", "givingup", "failing"}
        BY <1>18, <3>2 DEF MarkFailedError, Fail
      <4>2. TypeOK
        BY DEF Inv
      <4>. QED
        BY <2>1, <4>1, <4>2, EndEffect
    <3>. QED
      BY <1>18, <3>1, <3>2 DEF MarkFailedError
  <2>4. OrderInv(o)'
    BY <1>18, <2>1, <2>2, <2>3, TaskColumns DEF MarkFailedError, Inv, OrderInv, WorkInv, HasFailed
  <2>5. WorkInv(w)'
    BY <1>18, <2>1, <2>2, <2>3, TaskColumns DEF MarkFailedError, Inv, WorkInv, HasFailed, Provisioning
  <2>. QED
    BY <2>1, <2>2, <2>3, <2>4, <2>5, Provisioner
<1>19. ASSUME NEW w \in Requests, Die(w) PROVE Rest'
  <2>1. CASE Goto(w, "dead")
    <3>1. pc'[w] = "dead"
      BY <2>1 DEF Inv, TypeOK, Goto
    <3>2. UNCHANGED <<order, task, droplet, created, retry>>
      BY <1>19 DEF Die
    <3>3. (Provisioning(w)' => Provisioning(w)) /\ WorkInv(w)'
      BY <1>19, <3>1, <3>2 DEF Die, Inv, WorkInv, Provisioning, HasFailed, Goto, TypeOK
    <3>. QED
      BY <2>1, <3>2, <3>3, OnlyMoves
  <2>. QED
    BY <1>19, <2>1 DEF Die
<1>20. ASSUME NEW r \in Requests, RetryCheck(r) PROVE Rest'
  <2>1. UNCHANGED <<order, task, droplet, created, pc>>
    BY <1>20 DEF RetryCheck
  <2>2. \A v \in Requests :
           \/ retry'[v] = retry[v]
           \/ retry'[v] = "rejected"
           \/ order[v.order] = "FAILED" /\ retry'[v] = "checked"
    BY <1>20 DEF RetryCheck, Inv, TypeOK
  <2>3. \A p \in Orders : HasFailed(p)' => HasFailed(p)
    BY <2>1, <2>2 DEF HasFailed
  <2>. QED
    BY <2>1, <2>3, FewerFailures
<1>21. ASSUME NEW r \in Requests, RetryWrite(r) PROVE Rest'
  <2>. DEFINE o == r.order
  <2>1. o \in Orders /\ HasFailed(o)
    BY <1>21 DEF RetryWrite, HasFailed
  <2>2. /\ order'[o] = "PROCESSING" /\ \A p \in Orders : p # o => order'[p] = order[p]
        /\ \A v \in Requests : v # r => retry'[v] = retry[v]
        /\ UNCHANGED <<droplet, created, pc>>
    BY <1>21, <2>1 DEF RetryWrite, SetOrder, Inv, TypeOK
  <2>3. /\ task'[o] = [status |-> "PENDING", droplet |-> FALSE] /\ task'[o] # NoTask
        /\ \A p \in Orders : p # o => task'[p] = task[p]
    BY <1>21, <2>1, SetTaskEffect DEF RetryWrite, Inv
  <2>4. OrderInv(o)'
    BY <2>1, <2>2, <2>3 DEF Inv, OrderInv
  <2>5. ASSUME NEW v \in Requests, v.order = o PROVE WorkInv(v)'
    <3>1. SUFFICES ASSUME Provisioning(v) PROVE WorkInv(v)'
      BY <2>2 DEF WorkInv, Provisioning
    <3>2. droplet[o] = "errored" \/ pc[v] = "failing"
      BY <2>1, <2>5, <3>1 DEF Inv, WorkInv
    <3>. QED
      BY <2>2, <2>3, <2>5, <3>1, <3>2 DEF Inv, WorkInv
  <2>. QED
    BY <2>2, <2>3, <2>4, <2>5, Elsewhere
<1>22. ASSUME NEW r \in Requests, RetryError(r) PROVE Rest'
  <2>1. UNCHANGED <<order, task, droplet, created, pc>>
    BY <1>22 DEF RetryError
  <2>2. \A v \in Requests : retry'[v] = retry[v] \/ retry'[v] = "rejected"
    BY <1>22 DEF RetryError, Inv, TypeOK
  <2>3. \A p \in Orders : HasFailed(p)' => HasFailed(p)
    BY <2>1, <2>2 DEF HasFailed
  <2>. QED
    BY <2>1, <2>3, FewerFailures
<1>23. ASSUME NEW o \in Orders, Boot(o) PROVE Rest'
  <2>1. /\ droplet[o] = "new" /\ droplet'[o] \in {"active", "errored"}
        /\ \A p \in Orders : p # o => droplet'[p] = droplet[p]
        /\ UNCHANGED <<order, task, created, pc, retry>>
    BY <1>23 DEF Boot, Inv, TypeOK
  <2>2. HasFailed(o)' <=> HasFailed(o)
    BY <2>1 DEF HasFailed
  <2>3. OrderInv(o)'
    BY <2>1, <2>2 DEF Inv, OrderInv
  <2>4. ASSUME NEW v \in Requests, v.order = o PROVE WorkInv(v)'
    BY <2>1, <2>2, <2>4 DEF Inv, WorkInv, Provisioning
  <2>. QED
    BY <2>1, <2>3, <2>4, Elsewhere
<1>24. CASE UNCHANGED vars
  BY <1>24 DEF vars, Rest, Inv, OneProvisioner, OrderInv, WorkInv, HasFailed, Provisioning
<1>. QED
  BY <1>1, <1>2, <1>3, <1>4, <1>5, <1>6, <1>7, <1>8, <1>9, <1>10, <1>11,
     <1>12, <1>13, <1>14, <1>15, <1>16, <1>17, <1>18, <1>19, <1>20, <1>21,
     <1>22, <1>23, <1>24 DEF Next, Step, Terminated

THEOREM InvAlways == Spec => []Inv
  BY InvInit, InvNext, PTL DEF Spec

-----------------------------------------------------------------------------
(* At most one droplet is ever created for an order.                       *)
THEOREM DropletOnce == Spec => []OneDroplet
<1>1. Inv => OneDroplet
  BY DEF Inv, OrderInv, OneDroplet
<1>. QED
  BY <1>1, InvAlways, PTL

(* At most one request at a time works on the server of an order.          *)
THEOREM ProvisionerAlone == Spec => []OneProvisioner
<1>1. Inv => OneProvisioner
  BY DEF Inv
<1>. QED
  BY <1>1, InvAlways, PTL

(* An ACTIVE order has a droplet that booted, and its task knows its id.   *)
THEOREM ActiveServed == Spec => []ActiveHasServer
<1>1. Inv => ActiveHasServer
  BY DEF Inv, OrderInv, ActiveHasServer
<1>. QED
  BY <1>1, InvAlways, PTL

(* An order that says PROVISIONING has an unfinished task.                 *)
THEOREM TasksAgree == Spec => []ProvisioningHasTask
<1>1. Inv => ProvisioningHasTask
  BY DEF Inv, OrderInv, ProvisioningHasTask
<1>. QED
  BY <1>1, InvAlways, PTL

(* An ACTIVE order is not changed by a retry, nor by a provisioner that    *)
(* has not had an error of its own.                                        *)
LEMMA ActiveStep ==
  ASSUME Inv, [Next]_vars, NEW o \in Orders, order[o] = "ACTIVE", order'[o] # "ACTIVE"
  PROVE  \E w \in Requests :
            /\ w.order = o
            /\ pc[w] \in {"validated", "givingup", "failing"}
            /\ pc'[w] # pc[w]
<1>. DEFINE Culprit(w) == /\ w.order = o
                          /\ pc[w] \in {"validated", "givingup", "failing"}
                          /\ pc'[w] # pc[w]
<1>1. ~HasFailed(o)
  BY DEF Inv, OrderInv
<1>2. ASSUME NEW w \in Requests, w.order = o, Provisioning(w)
      PROVE  pc[w] \in {"polling", "succeeding", "givingup", "failing"}
  BY <1>2 DEF Inv, WorkInv
<1>3. ASSUME NEW w \in Requests, NEW s, SetOrder(w.order, s) PROVE w.order = o
  BY <1>3 DEF SetOrder, Inv, TypeOK
<1>4. ASSUME NEW w \in Requests, PayWrite(w) PROVE Culprit(w)
  BY <1>3, <1>4 DEF PayWrite, Goto, Inv, TypeOK
<1>5. ASSUME NEW w \in Requests, ToProvisioning(w) PROVE FALSE
  BY <1>2, <1>3, <1>5 DEF ToProvisioning, Provisioning
<1>6. ASSUME NEW w \in Requests, StartError(w) PROVE Culprit(w)
  <2>1. CASE pc[w] = "validated" /\ SetOrder(w.order, "PAID")
    BY <1>3, <1>6, <2>1 DEF StartError, Goto, Inv, TypeOK
  <2>2. CASE pc[w] = "tasked" /\ SetOrder(w.order, "PROVISIONING")
    BY <1>2, <1>3, <2>2 DEF Provisioning
  <2>. QED
    BY <1>6, <2>1, <2>2 DEF StartError
<1>7. ASSUME NEW w \in Requests, MarkProvisioningSuccess(w) \/ MarkSuccessError(w)
      PROVE  FALSE
  BY <1>7, OrderOf
  DEF MarkProvisioningSuccess, MarkSuccessError, Succeed, SetOrder, Inv, TypeOK
<1>8. ASSUME NEW w \in Requests, MarkProvisioningFailed(w) \/ MarkFailedError(w)
      PROVE  Culprit(w)
  <2>1. w.order = o
    BY <1>3, <1>8 DEF MarkProvisioningFailed, MarkFailedError, Fail
  <2>2. pc[w] \in {"givingup", "failing"}
    BY <1>2, <1>8, <2>1 DEF MarkProvisioningFailed, MarkFailedError, Provisioning
  <2>3. pc'[w] # pc[w]
    BY <1>8, <2>2 DEF MarkProvisioningFailed, MarkFailedError, Goto, Inv, TypeOK
  <2>. QED
    BY <2>1, <2>2, <2>3
<1>9. ASSUME NEW r \in Requests, RetryWrite(r) PROVE FALSE
  BY <1>1, <1>3, <1>9 DEF RetryWrite, HasFailed
<1>. SUFFICES \E w \in Requests : Culprit(w)
  OBVIOUS
<1>. HIDE DEF Culprit
<1>10. CASE \E w \in Requests : PayCheck(w) \/ Step(w)
  BY <1>4, <1>5, <1>6, <1>7, <1>8, <1>10
  DEF Step, PayCheck, PayValidate, Start, CreateTask, CreateDroplet, CreateError,
      SaveDroplet, StartPolling, SaveError, Poll, Timeout, Die
<1>11. CASE ~(\E w \in Requests : PayCheck(w) \/ Step(w))
  BY <1>9, <1>11 DEF Next, RetryCheck, RetryError, Boot, Terminated, vars
<1>. QED
  BY <1>10, <1>11

(* A server given to a customer is not taken back by a retry or a repeated *)
(* request alone.                                                          *)
THEOREM ActiveKept == Spec => ActiveStays
<1>1. Inv /\ [Next]_vars =>
        [\A o \in Orders :
           order[o] = "ACTIVE" /\ order'[o] # "ACTIVE" =>
             \E w \in Requests :
                /\ w.order = o
                /\ pc[w] \in {"validated", "givingup", "failing"}
                /\ pc'[w] # pc[w]]_vars
  BY ActiveStep
<1>. QED
  BY <1>1, InvAlways, PTL DEF Spec, ActiveStays

=============================================================================
