--------------------------- MODULE DistributedLock ---------------------------
(***************************************************************************)
(* The cron jobs of order-service and the database lock they run under.    *)
(*                                                                         *)
(* LifecycleScheduler fires five cron jobs in every replica.  Each wraps   *)
(* its body in DistributedLockService.withLock(jobName, ttl, fn):          *)
(* acquireLock (one conditional upsert, then a separate read that checks   *)
(* who holds the row), fn, and in a finally block releaseLock.  An         *)
(* invocation is one replica's run of one job at one scheduled time; it    *)
(* takes one step per database statement, and any replica may die between  *)
(* two of them.  Every database statement may fail.                        *)
(***************************************************************************)
EXTENDS Integers

CONSTANTS
    Instances,    \* the order-service processes, one instanceId each
    Jobs,         \* the job names, the primary key of cron_job_locks
    CleanupJob,   \* the job whose body is cleanupExpiredLocks
    TTL,          \* TTL[j]: the ttlSeconds job j passes to withLock
    Ticks,        \* Ticks[j]: the times at which the cron expression of j fires
    Jitter,       \* bound: how late after its tick a handler reads the clock
    MaxTime,      \* bound: the clock stops here
    Overrun,      \* TRUE: a job may outlive its TTL
    NoRow         \* no row for the job in cron_job_locks

ASSUME LockAssumption ==
    /\ CleanupJob \in Jobs
    /\ TTL \in [Jobs -> Nat \ {0}]
    /\ Ticks \in [Jobs -> SUBSET Nat]
    /\ Jitter \in Nat
    /\ MaxTime \in Nat
    /\ Overrun \in BOOLEAN
    \* A job's TTL is at most its period (the TTLs of the five @Cron handlers).
    /\ \A j \in Jobs : \A s, t \in Ticks[j] : s < t => s + TTL[j] <= t

(* One invocation of a @Cron handler. *)
Runs == {r \in [inst : Instances, job : Jobs, tick : UNION {Ticks[j] : j \in Jobs}] :
            r.tick \in Ticks[r.job]}

LockRow == [lockedBy : Instances, lockedAt : Nat, expiresAt : Int]

ASSUME NoRowAssumption == NoRow \notin LockRow

VARIABLES
    clock,   \* the wall clock, which the replicas share
    row,     \* row[j]: the row of job j in cron_job_locks, or NoRow
    pc,      \* pc[r]: how far invocation r has come
    at       \* at[r]: what `now` holds in acquireLock of r

vars == <<clock, row, pc, at>>

Active(r) == pc[r] \in {"upsert", "verify", "running", "release"}

TypeOK ==
    /\ clock \in Nat
    /\ row \in [Jobs -> LockRow \cup {NoRow}]
    /\ pc \in [Runs -> {"waiting", "upsert", "verify", "running", "release",
                        "done", "skipped", "failed", "crashed"}]
    /\ at \in [Runs -> Nat]

Init ==
    /\ clock = 0
    /\ row = [j \in Jobs |-> NoRow]
    /\ pc = [r \in Runs |-> "waiting"]
    /\ at = [r \in Runs |-> 0]

-----------------------------------------------------------------------------
Goto(r, label) == pc' = [pc EXCEPT ![r] = label]

(* A process that died fires no more handlers. *)
Alive(i) == \A r \in Runs : r.inst = i => pc[r] # "crashed"

(* When a job that keeps to its time is over: its TTL after the tick. *)
Deadline(r) == r.tick + TTL[r.job]

(* The cron handler calls withLock, and acquireLock reads the clock. *)
Fire(r) ==
    /\ pc[r] = "waiting"
    /\ Alive(r.inst)
    /\ r.tick <= clock /\ clock <= r.tick + Jitter
    /\ Overrun \/ clock < Deadline(r)
    /\ at' = [at EXCEPT ![r] = clock]
    /\ Goto(r, "upsert")
    /\ UNCHANGED <<clock, row>>

(* Mutants of MayTake: without its WHERE clause, and without the expiry. *)
MayTakeAnyLease(r) == TRUE

MayTakeOwnLeaseOnly(r) == row[r.job] = NoRow \/ row[r.job].lockedBy = r.inst

(* INSERT .. ON CONFLICT DO UPDATE .. WHERE expires_at < now OR locked_by = me. *)
MayTake(r) ==
    LET lock == row[r.job] IN
    \/ lock = NoRow
    \/ lock.expiresAt < at[r]
    \/ lock.lockedBy = r.inst

NewRow(r) ==
    [lockedBy |-> r.inst, lockedAt |-> at[r], expiresAt |-> at[r] + TTL[r.job]]

Upsert(r) ==
    /\ pc[r] = "upsert"
    /\ row' = IF MayTake(r) THEN [row EXCEPT ![r.job] = NewRow(r)] ELSE row
    /\ Goto(r, "verify")
    /\ UNCHANGED <<clock, at>>

HoldsRow(r) == row[r.job] # NoRow /\ row[r.job].lockedBy = r.inst

(* acquireLock's findUnique: fn runs only if the row names this instance. *)
Verify(r) ==
    /\ pc[r] = "verify"
    /\ Goto(r, IF HoldsRow(r) THEN "running" ELSE "skipped")
    /\ UNCHANGED <<clock, row, at>>

(* acquireLock's catch: any error of its two statements means "not acquired". *)
AcquireError(r) ==
    /\ pc[r] \in {"upsert", "verify"}
    /\ Goto(r, "failed")
    /\ UNCHANGED <<clock, row, at>>

(* A mutant of Expired: it compares the wrong column. *)
ExpiredByLockedAt(j) == row[j] # NoRow /\ row[j].lockedAt < clock

(* fn returns or throws; cleanupExpiredLocks may first have deleted rows. *)
Expired(j) == row[j] # NoRow /\ row[j].expiresAt < clock

Finish(r) ==
    /\ pc[r] = "running"
    /\ \/ row' = row
       \/ /\ r.job = CleanupJob
          /\ row' = [j \in Jobs |-> IF Expired(j) THEN NoRow ELSE row[j]]
    /\ Goto(r, "release")
    /\ UNCHANGED <<clock, at>>

(* releaseLock: deleteMany where jobName and lockedBy = me. *)
Release(r) ==
    /\ pc[r] = "release"
    /\ row' = IF HoldsRow(r) THEN [row EXCEPT ![r.job] = NoRow] ELSE row
    /\ Goto(r, "done")
    /\ UNCHANGED <<clock, at>>

(* releaseLock's catch: the row stays until its lease runs out. *)
ReleaseError(r) ==
    /\ pc[r] = "release"
    /\ Goto(r, "failed")
    /\ UNCHANGED <<clock, row, at>>

(* The process dies; a restarted replica has a new instanceId. *)
Crash(i) ==
    /\ \E r \in Runs : r.inst = i /\ Active(r)
    /\ pc' = [r \in Runs |-> IF r.inst = i /\ Active(r) THEN "crashed" ELSE pc[r]]
    /\ UNCHANGED <<clock, row, at>>

(* Time passes; unless Overrun, it does not carry an invocation past its TTL. *)
Advance ==
    /\ clock < MaxTime
    /\ Overrun \/ \A r \in Runs : Active(r) => clock + 1 < Deadline(r)
    /\ clock' = clock + 1
    /\ UNCHANGED <<row, pc, at>>

Terminated ==
    /\ clock = MaxTime
    /\ \A r \in Runs : ~Active(r)
    /\ UNCHANGED vars

Step(r) ==
    \/ Upsert(r) \/ Verify(r) \/ AcquireError(r)
    \/ Finish(r) \/ Release(r) \/ ReleaseError(r)

Next ==
    \/ \E r \in Runs : Fire(r) \/ Step(r)
    \/ \E i \in Instances : Crash(i)
    \/ Advance
    \/ Terminated

Spec == Init /\ [][Next]_vars

-----------------------------------------------------------------------------
(* Two invocations never run the body of one job at the same time: what    *)
(* withLock is for (distributed-lock.service.ts, acquireLock).  It holds   *)
(* of jobs that keep to their TTL, whatever replicas die and whatever      *)
(* statements fail.                                                        *)
MutualExclusion ==
    \A r, s \in Runs :
        r.job = s.job /\ pc[r] = "running" /\ pc[s] = "running" => r = s

(* An instance that runs a job, or has yet to release it, still owns the    *)
(* row, with the lease its own acquireLock wrote: no takeover, cleanup or  *)
(* release by anyone else has touched it.                                  *)
RunnerHoldsLease ==
    \A r \in Runs :
        pc[r] \in {"running", "release"} =>
            HoldsRow(r) /\ row[r.job].expiresAt = at[r] + TTL[r.job]

(* A lease that has not run out is changed or deleted only by the instance *)
(* it names, however long its job and however stale the `now` of the       *)
(* others (the WHERE of the upsert, of releaseLock and of the cleanup).    *)
OnlyHolderTouches(j) ==
    row[j] # NoRow /\ row'[j] # row[j] =>
        \/ row[j].expiresAt < clock
        \/ \E r \in Runs :
              /\ r.job = j /\ r.inst = row[j].lockedBy
              /\ pc[r] \in {"upsert", "release"} /\ pc'[r] # pc[r]

LiveLeaseKept == [][\A j \in Jobs : OnlyHolderTouches(j)]_vars

(* What can leave a lease behind for others to stumble on. *)
Leaked(r) == pc[r] \in {"failed", "crashed"}

(* A tick of a job that every replica still alive skipped is explained by  *)
(* an earlier lease, not yet expired, that a crash or a database error     *)
(* left behind: acquireLock never lets a job go unserved for nothing.      *)
Unserved(r) ==
    /\ pc[r] = "skipped"
    /\ \A s \in Runs :
          s.job = r.job /\ s.tick = r.tick =>
             pc[s] = "skipped" \/ (pc[s] = "waiting" /\ ~Alive(s.inst))

SkippedForAReason ==
    \A r \in Runs :
        Unserved(r) =>
          \E s \in Runs :
             /\ s.job = r.job /\ s.tick < r.tick /\ Leaked(s)
             /\ at[s] + TTL[r.job] >= at[r]
=============================================================================
