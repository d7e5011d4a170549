------------------------ MODULE DistributedLockProofs ------------------------
(***************************************************************************)
(* Proofs about DistributedLock, for any set of replicas, jobs, TTLs and   *)
(* tick schedules: its type invariant, that a live lease is only touched   *)
(* by its holder, and that jobs which keep to their TTL never overlap.     *)
(***************************************************************************)
EXTENDS DistributedLock, TLAPS

USE DEF Runs, LockRow

(* The type invariant holds of every behaviour, overruns included. *)
THEOREM TypeCorrect == Spec => []TypeOK
<1>1. Init => TypeOK
  BY LockAssumption DEF Init, TypeOK
<1>2. TypeOK /\ [Next]_vars => TypeOK'
  <2> SUFFICES ASSUME TypeOK, [Next]_vars PROVE TypeOK'
    OBVIOUS
  <2>1. ASSUME NEW r \in Runs, Fire(r) PROVE TypeOK'
    BY <2>1 DEF TypeOK, Fire, Goto
  <2>2. ASSUME NEW r \in Runs, Upsert(r) PROVE TypeOK'
    <3>1. NewRow(r) \in LockRow
      BY LockAssumption DEF NewRow, TypeOK
    <3>2. row' \in [Jobs -> LockRow \cup {NoRow}]
      BY <2>2, <3>1 DEF TypeOK, Upsert
    <3> QED
      BY <2>2, <3>2 DEF TypeOK, Upsert, Goto
  <2>3. ASSUME NEW r \in Runs, Verify(r) PROVE TypeOK'
    BY <2>3 DEF TypeOK, Verify, Goto
  <2>4. ASSUME NEW r \in Runs, AcquireError(r) \/ ReleaseError(r) PROVE TypeOK'
    BY <2>4 DEF TypeOK, AcquireError, ReleaseError, Goto
  <2>5. ASSUME NEW r \in Runs, Finish(r) PROVE TypeOK'
    BY <2>5 DEF TypeOK, Finish, Goto
  <2>6. ASSUME NEW r \in Runs, Release(r) PROVE TypeOK'
    BY <2>6 DEF TypeOK, Release, Goto
  <2>7. ASSUME NEW i \in Instances, Crash(i) PROVE TypeOK'
    BY <2>7 DEF TypeOK, Crash
  <2>8. CASE Advance
    BY <2>8 DEF TypeOK, Advance
  <2>9. CASE Terminated \/ UNCHANGED vars
    BY <2>9 DEF TypeOK, Terminated, vars
  <2> QED
    BY <2>1, <2>2, <2>3, <2>4, <2>5, <2>6, <2>7, <2>8, <2>9 DEF Next, Step
<1> QED
  BY <1>1, <1>2, PTL DEF Spec

-----------------------------------------------------------------------------
(* The inductive invariant behind mutual exclusion.  An invocation under   *)
(* way has read the clock between its tick and now, and before its         *)
(* deadline; if the row names its instance once its upsert is done, the    *)
(* lease in it is the one it wrote.                                        *)
Timely ==
    \A r \in Runs : Active(r) =>
        r.tick <= at[r] /\ at[r] <= clock /\ clock < Deadline(r)

OwnLease(r) ==
    HoldsRow(r) => row[r.job].expiresAt = at[r] + TTL[r.job]

LockInv ==
    /\ TypeOK
    /\ Timely
    /\ \A r \in Runs : pc[r] = "verify" => OwnLease(r)
    /\ RunnerHoldsLease

(* Two invocations of one job by one instance are never both under way:    *)
(* the earlier has ended by its deadline, which is no later than the next  *)
(* tick (LockAssumption).                                                  *)
LEMMA NoOverlap ==
    ASSUME TypeOK, Timely, NEW r \in Runs, NEW s \in Runs,
           Active(r), Active(s), r.job = s.job, r.inst = s.inst
    PROVE  r = s
<1>1. /\ r.tick \in Nat /\ s.tick \in Nat /\ at[r] \in Nat /\ at[s] \in Nat
      /\ r.tick \in Ticks[r.job] /\ s.tick \in Ticks[r.job] /\ TTL[r.job] \in Nat
  BY LockAssumption DEF TypeOK
<1>2. /\ clock \in Nat /\ clock < r.tick + TTL[r.job] /\ r.tick <= clock
      /\ clock < s.tick + TTL[r.job] /\ s.tick <= clock
  BY <1>1 DEF Timely, Deadline, TypeOK
<1>3. ~(r.tick < s.tick) /\ ~(s.tick < r.tick)
  BY <1>1, <1>2, LockAssumption
<1>4. r.tick = s.tick
  BY <1>1, <1>3
<1> QED
  BY <1>4

(* The lease of an invocation that runs in time is live, so the upsert of  *)
(* another instance is refused.                                            *)
LEMMA LeaseLive ==
    ASSUME LockInv, NEW r \in Runs, pc[r] \in {"running", "release"}
    PROVE  clock < row[r.job].expiresAt /\ row[r.job] \in LockRow
<1>1. /\ Active(r) /\ HoldsRow(r)
      /\ row[r.job].expiresAt = at[r] + TTL[r.job]
  BY DEF LockInv, RunnerHoldsLease, Active
<1>2. r.tick <= at[r] /\ clock < r.tick + TTL[r.job]
  BY <1>1 DEF LockInv, Timely, Deadline
<1>3. r.tick \in Nat /\ at[r] \in Nat /\ clock \in Nat /\ TTL[r.job] \in Nat
  BY LockAssumption DEF LockInv, TypeOK
<1> QED
  BY <1>1, <1>2, <1>3 DEF HoldsRow, LockInv, TypeOK

LEMMA LockInvStep ==
    ASSUME ~Overrun, LockInv, LockInv => TypeOK', [Next]_vars
    PROVE  LockInv'
<1> USE DEF OwnLease
<1>0. TypeOK /\ Timely /\ RunnerHoldsLease /\ TypeOK'
  BY DEF LockInv
<1>1. ASSUME NEW q \in Runs, Fire(q) PROVE LockInv'
  <2>1. ASSUME NEW r \in Runs, Active(r)'
        PROVE  r.tick <= at'[r] /\ at'[r] <= clock' /\ clock' < Deadline(r)
    <3>1. CASE r = q
      <4>1. at'[q] = clock /\ clock' = clock /\ clock \in Nat
        BY <1>0, <1>1 DEF Fire, TypeOK
      <4> QED
        BY <1>1, <3>1, <4>1 DEF Fire
    <3>2. CASE r # q
      BY <1>0, <1>1, <2>1, <3>2 DEF Timely, Fire, Goto, Active, TypeOK
    <3> QED
      BY <3>1, <3>2
  <2>2. RunnerHoldsLease' /\ \A r \in Runs : pc'[r] = "verify" => OwnLease(r)'
    BY <1>0, <1>1 DEF LockInv, RunnerHoldsLease, HoldsRow, Fire, Goto, TypeOK
  <2> QED
    BY <1>0, <2>1, <2>2 DEF LockInv, Timely, Deadline
<1>2. ASSUME NEW q \in Runs, Upsert(q) PROVE LockInv'
  <2>1. Timely'
    BY <1>0, <1>2 DEF Timely, Upsert, Goto, Active, Deadline, TypeOK
  <2>2. ASSUME NEW r \in Runs, pc'[r] \in {"running", "release"}
        PROVE  HoldsRow(r)' /\ row'[r.job].expiresAt = at'[r] + TTL[r.job]
    <3>1. r # q /\ pc[r] \in {"running", "release"} /\ Active(r) /\ Active(q)
      BY <1>0, <1>2, <2>2 DEF Upsert, Goto, TypeOK, Active
    <3>2. HoldsRow(r) /\ row[r.job].expiresAt = at[r] + TTL[r.job]
      BY <1>0, <3>1 DEF RunnerHoldsLease
    <3>3. row'[r.job] = row[r.job]
      <4>1. CASE r.job # q.job
        BY <1>0, <1>2, <4>1 DEF Upsert, TypeOK
      <4>2. CASE r.job = q.job
        <5>1. clock < row[r.job].expiresAt /\ row[r.job] \in LockRow
          BY <3>1, LeaseLive
        <5>2. at[q] <= clock /\ at[q] \in Nat /\ clock \in Nat
          BY <1>0, <3>1 DEF Timely, TypeOK
        <5>3. r.inst # q.inst
          BY <1>0, <3>1, <4>2, NoOverlap
        <5>4. ~MayTake(q)
          BY <3>2, <4>2, <5>1, <5>2, <5>3 DEF MayTake, HoldsRow
        <5> QED
          BY <1>2, <5>4 DEF Upsert
      <4> QED
        BY <4>1, <4>2
    <3> QED
      BY <1>2, <3>2, <3>3 DEF HoldsRow, Upsert
  <2>3. ASSUME NEW r \in Runs, pc'[r] = "verify" PROVE OwnLease(r)'
    <3>1. CASE r = q
      <4>1. CASE MayTake(q)
        BY <1>0, <1>2, <3>1, <4>1 DEF Upsert, NewRow, HoldsRow, TypeOK
      <4>2. CASE ~MayTake(q)
        BY <1>2, <3>1, <4>2 DEF Upsert, MayTake, HoldsRow
      <4> QED
        BY <4>1, <4>2
    <3>2. CASE r # q
      <4>1. pc[r] = "verify" /\ Active(r) /\ Active(q)
        BY <1>0, <1>2, <2>3, <3>2 DEF Upsert, Goto, TypeOK, Active
      <4>2. r.job # q.job \/ r.inst # q.inst
        BY <1>0, <3>2, <4>1, NoOverlap
      <4>3. OwnLease(r)
        BY <4>1 DEF LockInv
      <4>4. HoldsRow(r)' => row'[r.job] = row[r.job]
        BY <1>0, <1>2, <4>2 DEF Upsert, NewRow, HoldsRow, TypeOK
      <4> QED
        BY <1>2, <4>3, <4>4 DEF HoldsRow, Upsert
    <3> QED
      BY <3>1, <3>2
  <2> QED
    BY <1>0, <2>1, <2>2, <2>3 DEF LockInv, RunnerHoldsLease
<1>3. ASSUME NEW q \in Runs, Verify(q) PROVE LockInv'
  <2>1. Timely'
    BY <1>0, <1>3 DEF Timely, Verify, Goto, Active, Deadline, TypeOK
  <2>2. RunnerHoldsLease' /\ \A r \in Runs : pc'[r] = "verify" => OwnLease(r)'
    BY <1>0, <1>3 DEF LockInv, RunnerHoldsLease, HoldsRow, Verify, Goto, TypeOK
  <2> QED
    BY <1>0, <2>1, <2>2 DEF LockInv
<1>4. ASSUME NEW q \in Runs, AcquireError(q) \/ ReleaseError(q) PROVE LockInv'
  <2>1. Timely'
    BY <1>0, <1>4 DEF Timely, AcquireError, ReleaseError, Goto, Active, Deadline, TypeOK
  <2>2. RunnerHoldsLease' /\ \A r \in Runs : pc'[r] = "verify" => OwnLease(r)'
    BY <1>0, <1>4
    DEF LockInv, RunnerHoldsLease, HoldsRow, AcquireError, ReleaseError, Goto, TypeOK
  <2> QED
    BY <1>0, <2>1, <2>2 DEF LockInv
<1>5. ASSUME NEW q \in Runs, Finish(q) PROVE LockInv'
  <2>1. Timely'
    BY <1>0, <1>5 DEF Timely, Finish, Goto, Active, Deadline, TypeOK
  <2>2. ASSUME NEW r \in Runs, pc'[r] \in {"running", "release"}
        PROVE  HoldsRow(r)' /\ row'[r.job].expiresAt = at'[r] + TTL[r.job]
    <3>1. pc[r] \in {"running", "release"}
      BY <1>0, <1>5, <2>2 DEF Finish, Goto, TypeOK
    <3>2. HoldsRow(r) /\ row[r.job].expiresAt = at[r] + TTL[r.job]
      BY <1>0, <3>1 DEF RunnerHoldsLease
    <3>3. clock < row[r.job].expiresAt /\ row[r.job] \in LockRow /\ clock \in Nat
      BY <1>0, <3>1, LeaseLive DEF TypeOK
    <3>4. row'[r.job] = row[r.job]
      BY <1>5, <3>3 DEF Finish, Expired
    <3> QED
      BY <1>5, <3>2, <3>4 DEF HoldsRow, Finish
  <2>3. ASSUME NEW r \in Runs, pc'[r] = "verify" PROVE OwnLease(r)'
    BY <1>0, <1>5, <2>3, NoRowAssumption DEF LockInv, HoldsRow, Finish, Goto, TypeOK
  <2> QED
    BY <1>0, <2>1, <2>2, <2>3 DEF LockInv, RunnerHoldsLease
<1>6. ASSUME NEW q \in Runs, Release(q) PROVE LockInv'
  <2>1. Timely'
    BY <1>0, <1>6 DEF Timely, Release, Goto, Active, Deadline, TypeOK
  <2>2. ASSUME NEW r \in Runs, pc'[r] \in {"running", "release"}
        PROVE  HoldsRow(r)' /\ row'[r.job].expiresAt = at'[r] + TTL[r.job]
    <3>1. r # q /\ pc[r] \in {"running", "release"} /\ Active(r) /\ Active(q)
      BY <1>0, <1>6, <2>2 DEF Release, Goto, TypeOK, Active
    <3>2. HoldsRow(r) /\ row[r.job].expiresAt = at[r] + TTL[r.job]
      BY <1>0, <3>1 DEF RunnerHoldsLease
    <3>3. r.job # q.job \/ r.inst # q.inst
      BY <1>0, <3>1, NoOverlap
    <3>4. row'[r.job] = row[r.job]
      BY <1>0, <1>6, <3>2, <3>3 DEF Release, HoldsRow, TypeOK
    <3> QED
      BY <1>6, <3>2, <3>4 DEF HoldsRow, Release
  <2>3. ASSUME NEW r \in Runs, pc'[r] = "verify" PROVE OwnLease(r)'
    BY <1>0, <1>6, <2>3 DEF LockInv, HoldsRow, Release, Goto, TypeOK
  <2> QED
    BY <1>0, <2>1, <2>2, <2>3 DEF LockInv, RunnerHoldsLease
<1>7. ASSUME NEW i \in Instances, Crash(i) PROVE LockInv'
  <2>1. \A r \in Runs : pc'[r] = pc[r] \/ pc'[r] = "crashed"
    BY <1>7 DEF Crash
  <2>2. Timely'
    BY <1>0, <1>7, <2>1 DEF Timely, Crash, Active, Deadline
  <2>3. RunnerHoldsLease' /\ \A r \in Runs : pc'[r] = "verify" => OwnLease(r)'
    BY <1>7, <2>1 DEF LockInv, RunnerHoldsLease, HoldsRow, Crash
  <2> QED
    BY <1>0, <2>2, <2>3 DEF LockInv
<1>8. CASE Advance
  <2>1. Timely'
    BY <1>0, <1>8 DEF Timely, Advance, Active, Deadline, TypeOK
  <2>2. RunnerHoldsLease' /\ \A r \in Runs : pc'[r] = "verify" => OwnLease(r)'
    BY <1>8 DEF LockInv, RunnerHoldsLease, HoldsRow, Advance
  <2> QED
    BY <1>0, <2>1, <2>2 DEF LockInv
<1>9. CASE Terminated \/ UNCHANGED vars
  BY <1>9 DEF LockInv, TypeOK, Timely, Active, Deadline, RunnerHoldsLease,
              HoldsRow, Terminated, vars
<1> QED
  BY <1>1, <1>2, <1>3, <1>4, <1>5, <1>6, <1>7, <1>8, <1>9 DEF Next, Step

(* The inductive invariant holds of jobs that keep to their TTL.           *)
THEOREM LockInvariant == ~Overrun /\ Spec => []LockInv
<1> SUFFICES ASSUME ~Overrun PROVE Spec => []LockInv
  OBVIOUS
<1>1. Init => LockInv
  <2>1. Init => TypeOK
    BY LockAssumption DEF Init, TypeOK
  <2> QED
    BY <2>1 DEF Init, LockInv, Timely, Active, RunnerHoldsLease, OwnLease
<1>2. LockInv /\ TypeOK' /\ [Next]_vars => LockInv'
  BY LockInvStep
<1> QED
  BY <1>1, <1>2, TypeCorrect, PTL DEF Spec

(* The instance that runs a job within its TTL holds the job's row, with   *)
(* the lease it wrote itself.                                              *)
THEOREM LeaseHeld == ~Overrun /\ Spec => []RunnerHoldsLease
<1>1. LockInv => RunnerHoldsLease
  BY DEF LockInv
<1> QED
  BY <1>1, LockInvariant, PTL

(* Jobs that keep to their TTL never overlap: for any number of replicas,  *)
(* whatever crashes and whatever statements fail.                          *)
THEOREM JobsExclusive == ~Overrun /\ Spec => []MutualExclusion
<1>1. LockInv => MutualExclusion
  <2> SUFFICES ASSUME LockInv, NEW r \in Runs, NEW s \in Runs, r.job = s.job,
                      pc[r] = "running", pc[s] = "running"
               PROVE  r = s
    BY DEF MutualExclusion
  <2>1. r.inst = s.inst
    BY DEF LockInv, RunnerHoldsLease, HoldsRow
  <2> QED
    BY <2>1, NoOverlap DEF LockInv, Active
<1> QED
  BY <1>1, LockInvariant, PTL

(* `now`, read at the start of acquireLock, may be stale but not early.    *)
PastNow == \A r \in Runs : Active(r) => at[r] <= clock

(* Overruns included, a live lease is written or deleted only by the       *)
(* instance it names: MayTake compares it with a `now` of the past.        *)
THEOREM LeaseKept == Spec => LiveLeaseKept
<1>1. Init => PastNow
  BY DEF Init, PastNow, Active
<1>2. TypeOK /\ PastNow /\ [Next]_vars => PastNow'
  <2> SUFFICES ASSUME TypeOK, PastNow, [Next]_vars, NEW r \in Runs, Active(r)'
               PROVE  at'[r] <= clock'
    BY DEF PastNow
  <2>1. ASSUME NEW q \in Runs, Fire(q) PROVE at'[r] <= clock'
    BY <2>1 DEF PastNow, Fire, Goto, Active, TypeOK
  <2>2. ASSUME NEW q \in Runs, Step(q) PROVE at'[r] <= clock'
    BY <2>2 DEF PastNow, Step, Upsert, Verify, AcquireError, Finish, Release,
                ReleaseError, Goto, Active, TypeOK
  <2>3. ASSUME NEW i \in Instances, Crash(i) PROVE at'[r] <= clock'
    BY <2>3 DEF PastNow, Crash, Active
  <2>4. CASE Advance
    BY <2>4 DEF PastNow, Advance, Active, TypeOK
  <2>5. CASE Terminated \/ UNCHANGED vars
    BY <2>5 DEF PastNow, Terminated, Active, vars
  <2> QED
    BY <2>1, <2>2, <2>3, <2>4, <2>5 DEF Next
<1>3. TypeOK /\ PastNow /\ Next => \A j \in Jobs : OnlyHolderTouches(j)
  <2> SUFFICES ASSUME TypeOK, PastNow, Next, NEW j \in Jobs,
                      row[j] # NoRow, row'[j] # row[j]
               PROVE  OnlyHolderTouches(j)
    BY DEF OnlyHolderTouches
  <2>1. ASSUME NEW q \in Runs, Upsert(q) PROVE OnlyHolderTouches(j)
    <3>1. MayTake(q) /\ j = q.job /\ pc[q] = "upsert" /\ pc'[q] = "verify"
      BY <2>1 DEF Upsert, Goto, TypeOK
    <3>2. at[q] <= clock /\ at[q] \in Nat /\ clock \in Nat /\ row[j] \in LockRow
      BY <3>1 DEF PastNow, Active, TypeOK
    <3> QED
      BY <3>1, <3>2 DEF MayTake, OnlyHolderTouches
  <2>2. ASSUME NEW q \in Runs, Release(q) PROVE OnlyHolderTouches(j)
    <3>1. HoldsRow(q) /\ j = q.job /\ pc[q] = "release" /\ pc'[q] = "done"
      BY <2>2 DEF Release, Goto, TypeOK
    <3> QED
      BY <3>1 DEF HoldsRow, OnlyHolderTouches
  <2>3. ASSUME NEW q \in Runs, Finish(q) PROVE OnlyHolderTouches(j)
    BY <2>3 DEF Finish, Expired, OnlyHolderTouches
  <2> QED
    BY <2>1, <2>2, <2>3 DEF Next, Step, Fire, Verify, AcquireError,
       ReleaseError, Crash, Advance, Terminated, vars
<1> QED
  BY <1>1, <1>2, <1>3, TypeCorrect, PTL DEF Spec, LiveLeaseKept
-----------------------------------------------------------------------------
(* Why a run is skipped.  Every row was written by an invocation that has   *)
(* not released it yet, or cannot any more; one of the same tick serves     *)
(* that tick, and one of an earlier tick must have leaked its lease, since  *)
(* an invocation under way is within its deadline (Timely).                 *)
Begun == \A r \in Runs : pc[r] # "waiting" => r.tick <= at[r] /\ at[r] <= clock

Wrote(r) ==
    /\ row[r.job] = NewRow(r)
    /\ pc[r] \in {"verify", "running", "release", "failed", "crashed"}

RowHasWriter == \A j \in Jobs : row[j] # NoRow => \E w \in Runs : w.job = j /\ Wrote(w)

Serves(s) ==
    \/ pc[s] \in {"running", "release", "done", "failed", "crashed"}
    \/ pc[s] = "verify" /\ HoldsRow(s)

Reason(r) ==
    \E s \in Runs :
       /\ s.job = r.job
       /\ \/ s.tick < r.tick /\ Leaked(s) /\ at[s] + TTL[r.job] >= at[r]
          \/ s.tick = r.tick /\ Serves(s)

Refused(r) == pc[r] = "skipped" \/ (pc[r] = "verify" /\ ~HoldsRow(r))

SkipInv ==
    /\ Begun
    /\ RowHasWriter
    /\ \A r \in Runs : Refused(r) => Reason(r)

(* `now` is read once, and an invocation that ended stays ended.            *)
LEMMA AtKept ==
    ASSUME TypeOK, [Next]_vars, NEW r \in Runs, pc[r] # "waiting"
    PROVE  /\ at'[r] = at[r] /\ pc'[r] # "waiting" /\ clock <= clock'
           /\ Leaked(r) => Leaked(r)'
<1> USE DEF TypeOK, Leaked
<1>1. ASSUME NEW q \in Runs, Fire(q)
      PROVE  /\ at'[r] = at[r] /\ pc'[r] # "waiting" /\ clock <= clock'
             /\ Leaked(r) => Leaked(r)'
  BY <1>1 DEF Fire, Goto
<1>2. ASSUME NEW q \in Runs, Step(q)
      PROVE  /\ at'[r] = at[r] /\ pc'[r] # "waiting" /\ clock <= clock'
             /\ Leaked(r) => Leaked(r)'
  BY <1>2 DEF Step, Upsert, Verify, AcquireError, Finish, Release, ReleaseError, Goto
<1>3. ASSUME NEW i \in Instances, Crash(i)
      PROVE  /\ at'[r] = at[r] /\ pc'[r] # "waiting" /\ clock <= clock'
             /\ Leaked(r) => Leaked(r)'
  BY <1>3 DEF Crash, Active
<1>4. CASE Advance \/ Terminated \/ UNCHANGED vars
  BY <1>4 DEF Advance, Terminated, vars
<1> QED
  BY <1>1, <1>2, <1>3, <1>4 DEF Next

(* Between its upsert and its findUnique nobody takes an invocation's row.  *)
LEMMA HoldStays ==
    ASSUME LockInv, [Next]_vars, NEW r \in Runs, pc[r] = "verify",
           pc'[r] = "verify", HoldsRow(r)
    PROVE  HoldsRow(r)'
<1>0. TypeOK /\ Timely /\ Active(r) /\ row[r.job].expiresAt = at[r] + TTL[r.job]
  BY DEF LockInv, OwnLease, Active
<1>1. clock < row[r.job].expiresAt /\ clock \in Nat /\ row[r.job] \in LockRow
  <2>1. r.tick <= at[r] /\ clock < r.tick + TTL[r.job]
    BY <1>0 DEF Timely, Deadline
  <2>2. r.tick \in Nat /\ at[r] \in Nat /\ clock \in Nat /\ TTL[r.job] \in Nat
    BY <1>0, LockAssumption DEF TypeOK
  <2> QED
    BY <1>0, <2>1, <2>2 DEF HoldsRow, TypeOK
<1>2. ASSUME NEW q \in Runs, Upsert(q) PROVE HoldsRow(r)'
  <2>1. CASE row'[r.job] = row[r.job]
    BY <2>1 DEF HoldsRow
  <2>2. CASE row'[r.job] # row[r.job]
    <3>1. q.job = r.job /\ MayTake(q) /\ row'[r.job] = NewRow(q)
      BY <1>0, <1>2, <2>2 DEF Upsert, TypeOK
    <3>2. at[q] <= clock /\ at[q] \in Nat
      BY <1>0, <1>2 DEF Timely, Active, Upsert, TypeOK
    <3>3. q.inst = r.inst
      BY <1>1, <3>1, <3>2 DEF MayTake, HoldsRow
    <3>4. NewRow(q) \in LockRow
      BY <1>0, LockAssumption DEF NewRow, TypeOK
    <3> QED
      BY <3>1, <3>3, <3>4, NoRowAssumption DEF HoldsRow, NewRow
  <2> QED
    BY <2>1, <2>2
<1>3. ASSUME NEW q \in Runs, Finish(q) PROVE HoldsRow(r)'
  BY <1>1, <1>3 DEF Finish, Expired, HoldsRow
<1>4. ASSUME NEW q \in Runs, Release(q) PROVE HoldsRow(r)'
  <2>1. CASE row'[r.job] = row[r.job]
    BY <2>1 DEF HoldsRow
  <2>2. CASE row'[r.job] # row[r.job]
    <3>1. q.job = r.job /\ HoldsRow(q) /\ pc[q] = "release"
      BY <1>0, <1>4, <2>2 DEF Release, TypeOK
    <3>2. q.inst = r.inst /\ q # r
      BY <3>1 DEF HoldsRow
    <3> QED
      BY <1>0, <3>1, <3>2, NoOverlap DEF Active
  <2> QED
    BY <2>1, <2>2
<1> QED
  BY <1>2, <1>3, <1>4
  DEF HoldsRow, Next, Step, Fire, Verify, AcquireError, ReleaseError, Crash, Advance,
      Terminated, vars

LEMMA ServesStays ==
    ASSUME LockInv, [Next]_vars, NEW r \in Runs, Serves(r)
    PROVE  Serves(r)'
<1>0. TypeOK
  BY DEF LockInv
<1>1. CASE pc'[r] = "verify"
  <2>1. pc[r] = "verify"
    BY <1>0, <1>1 DEF Serves, Next, Step, Fire, Upsert, Verify, AcquireError, Finish,
       Release, ReleaseError, Crash, Advance, Terminated, Goto, vars, TypeOK
  <2> QED
    BY <1>1, <2>1, HoldStays DEF Serves
<1>2. CASE pc'[r] # "verify"
  BY <1>0, <1>2 DEF Serves, Next, Step, Fire, Upsert, Verify, AcquireError, Finish,
     Release, ReleaseError, Crash, Advance, Terminated, Goto, vars, TypeOK
<1> QED
  BY <1>1, <1>2

(* The reason of a refusal lasts.                                           *)
LEMMA ReasonStays ==
    ASSUME LockInv, [Next]_vars, NEW r \in Runs, pc[r] # "waiting", Reason(r)
    PROVE  Reason(r)'
<1>0. TypeOK /\ at'[r] = at[r]
  BY AtKept DEF LockInv
<1>1. PICK s \in Runs :
         /\ s.job = r.job
         /\ \/ s.tick < r.tick /\ Leaked(s) /\ at[s] + TTL[r.job] >= at[r]
            \/ s.tick = r.tick /\ Serves(s)
  BY DEF Reason
<1>2. CASE s.tick < r.tick /\ Leaked(s) /\ at[s] + TTL[r.job] >= at[r]
  <2>1. at'[s] = at[s] /\ Leaked(s)'
    BY <1>0, <1>2, AtKept DEF Leaked
  <2> QED
    BY <1>0, <1>1, <1>2, <2>1 DEF Reason
<1>3. CASE s.tick = r.tick /\ Serves(s)
  BY <1>1, <1>3, ServesStays DEF Reason
<1> QED
  BY <1>1, <1>2, <1>3

LEMMA BegunStep ==
    ASSUME TypeOK, Begun, [Next]_vars
    PROVE  Begun'
<1> SUFFICES ASSUME NEW r \in Runs, pc'[r] # "waiting"
             PROVE  r.tick <= at'[r] /\ at'[r] <= clock'
  BY DEF Begun
<1>1. CASE pc[r] # "waiting"
  <2>1. /\ r.tick <= at[r] /\ at[r] <= clock /\ at'[r] = at[r] /\ clock <= clock'
    BY <1>1, AtKept DEF Begun
  <2>2. at[r] \in Nat /\ clock \in Nat
    BY DEF TypeOK
  <2>3. clock' = clock \/ clock' = clock + 1
    BY DEF Next, Step, Fire, Upsert, Verify, AcquireError, Finish, Release,
       ReleaseError, Crash, Advance, Terminated, vars
  <2> QED
    BY <2>1, <2>2, <2>3
<1>2. CASE pc[r] = "waiting"
  <2>1. ASSUME NEW q \in Runs, Fire(q) PROVE r.tick <= at'[r] /\ at'[r] <= clock'
    <3>1. q = r
      BY <1>2, <2>1 DEF Fire, Goto, TypeOK
    <3> QED
      BY <2>1, <3>1 DEF Fire, TypeOK
  <2>2. ASSUME NEW q \in Runs, Step(q) PROVE FALSE
    BY <1>2, <2>2 DEF Step, Upsert, Verify, AcquireError, Finish, Release,
                      ReleaseError, Goto, TypeOK
  <2> QED
    BY <1>2, <2>1, <2>2 DEF Next, Crash, Active, Advance, Terminated, vars
<1> QED
  BY <1>1, <1>2

(* A row that stays keeps its writer; a row that is new has the invocation  *)
(* whose upsert wrote it.                                                   *)
LEMMA WriterStep ==
    ASSUME TypeOK, RowHasWriter, [Next]_vars
    PROVE  RowHasWriter'
<1> SUFFICES ASSUME NEW j \in Jobs, row'[j] # NoRow
             PROVE  \E w \in Runs : w.job = j /\ Wrote(w)'
  BY DEF RowHasWriter
<1>1. ASSUME row'[j] # row[j] PROVE \E w \in Runs : w.job = j /\ Wrote(w)'
  <2>1. ASSUME NEW q \in Runs, Fire(q) \/ Step(q) PROVE Upsert(q)
    <3>1. CASE Finish(q)
      BY <1>1, <3>1 DEF Finish, TypeOK
    <3>2. CASE Release(q)
      BY <1>1, <3>2 DEF Release, TypeOK
    <3> QED
      BY <1>1, <2>1, <3>1, <3>2 DEF Step, Fire, Verify, AcquireError, ReleaseError
  <2>2. PICK q \in Runs : Upsert(q)
    BY <1>1, <2>1 DEF Next, Crash, Advance, Terminated, vars
  <2>3. q.job = j /\ row'[j] = NewRow(q) /\ pc'[q] = "verify" /\ at' = at
    BY <1>1, <2>2 DEF Upsert, Goto, TypeOK
  <2> QED
    BY <2>3 DEF Wrote, NewRow
<1>2. ASSUME row'[j] = row[j] PROVE \E w \in Runs : w.job = j /\ Wrote(w)'
  <2>1. PICK w \in Runs : w.job = j /\ Wrote(w)
    BY <1>2 DEF RowHasWriter
  <2>2. at'[w] = at[w]
    BY <2>1, AtKept DEF Wrote
  <2>3. HoldsRow(w)
    BY <1>2, <2>1 DEF Wrote, HoldsRow, NewRow
  <2>4. pc'[w] \in {"verify", "running", "release", "failed", "crashed"}
    <3>1. ASSUME NEW q \in Runs, Fire(q) \/ Step(q)
               PROVE pc'[w] \in {"verify", "running", "release", "failed", "crashed"}
      <4>1. CASE q = w
        BY <1>2, <2>1, <2>3, <3>1, <4>1
        DEF Wrote, Step, Fire, Upsert, Verify, AcquireError, Finish, Release,
            ReleaseError, Goto, TypeOK
      <4>2. CASE q # w
        BY <2>1, <3>1, <4>2
        DEF Wrote, Step, Fire, Upsert, Verify, AcquireError, Finish, Release,
            ReleaseError, Goto, TypeOK
      <4> QED
        BY <4>1, <4>2
    <3>2. ASSUME NEW i \in Instances, Crash(i)
               PROVE pc'[w] \in {"verify", "running", "release", "failed", "crashed"}
      BY <2>1, <3>2 DEF Crash, Wrote
    <3> QED
      BY <2>1, <3>1, <3>2 DEF Next, Advance, Terminated, Wrote, vars
  <2> QED
    BY <1>2, <2>1, <2>2, <2>4 DEF Wrote, NewRow
<1> QED
  BY <1>1, <1>2

(* An upsert is refused by the live lease of another instance.              *)
LEMMA RefusedForAReason ==
    ASSUME LockInv, Begun, RowHasWriter, NEW r \in Runs, pc[r] = "upsert", ~MayTake(r)
    PROVE  \E w \in Runs :
             /\ w.job = r.job
             /\ \/ w.tick < r.tick /\ Leaked(w) /\ at[w] + TTL[r.job] >= at[r]
                \/ w.tick = r.tick /\ Serves(w)
<1>1. PICK w \in Runs : w.job = r.job /\ Wrote(w)
  BY DEF MayTake, RowHasWriter
<1>2. /\ HoldsRow(w) /\ ~(at[w] + TTL[r.job] < at[r])
  BY <1>1 DEF MayTake, Wrote, NewRow, HoldsRow
<1>3. /\ w.tick \in Ticks[r.job] /\ r.tick \in Ticks[r.job] /\ r.job \in Jobs
      /\ w.tick \in Nat /\ r.tick \in Nat /\ at[w] \in Nat /\ at[r] \in Nat
      /\ clock \in Nat /\ TTL[r.job] \in Nat
  BY <1>1, LockAssumption DEF LockInv, TypeOK
<1>4. /\ r.tick <= at[r] /\ at[r] <= clock /\ clock < r.tick + TTL[r.job]
  BY DEF LockInv, Timely, Active, Deadline
<1>5. w.tick <= at[w] /\ at[w] <= clock
  BY <1>1 DEF Begun, Wrote
<1>6. ~(r.tick < w.tick)
  <2>1. r.tick < w.tick => r.tick + TTL[r.job] <= w.tick
    BY <1>3, LockAssumption
  <2> QED
    BY <1>3, <1>4, <1>5, <2>1
<1>7. CASE w.tick = r.tick
  BY <1>1, <1>2, <1>7 DEF Wrote, Serves
<1>8. CASE w.tick < r.tick
  <2>1. w.tick + TTL[r.job] <= r.tick
    BY <1>3, <1>8, LockAssumption
  <2>2. ~Active(w)
    <3>1. Active(w) => clock < w.tick + TTL[r.job]
      BY <1>1 DEF LockInv, Timely, Deadline
    <3> QED
      BY <1>3, <1>4, <2>1, <3>1
  <2>3. Leaked(w)
    BY <1>1, <2>2 DEF Wrote, Active, Leaked
  <2>4. at[w] + TTL[r.job] >= at[r]
    BY <1>2, <1>3
  <2> QED
    BY <1>1, <1>8, <2>3, <2>4
<1> QED
  BY <1>3, <1>6, <1>7, <1>8

LEMMA SkipInvStep ==
    ASSUME LockInv, SkipInv, [Next]_vars
    PROVE  SkipInv'
<1>0. TypeOK
  BY DEF LockInv
<1>1. Begun' /\ RowHasWriter'
  BY <1>0, BegunStep, WriterStep DEF SkipInv
<1>2. ASSUME NEW r \in Runs, Refused(r)' PROVE Reason(r)'
  <2>1. CASE Refused(r)
    BY <2>1, ReasonStays DEF SkipInv, Refused
  <2>2. CASE ~Refused(r)
    <3>1. CASE pc[r] = "verify"
      <4>1. pc'[r] = "skipped" => ~HoldsRow(r)
        BY <1>0, <3>1 DEF Next, Step, Fire, Upsert, Verify, AcquireError, Finish,
           Release, ReleaseError, Crash, Advance, Terminated, Goto, vars, TypeOK
      <4> QED
        BY <1>2, <2>2, <3>1, <4>1, HoldStays DEF Refused
    <3>2. CASE pc[r] # "verify"
      <4>1. pc[r] = "upsert" /\ Upsert(r)
        BY <1>0, <1>2, <2>2, <3>2
        DEF Refused, Next, Step, Fire, Upsert, Verify, AcquireError, Finish, Release,
            ReleaseError, Crash, Advance, Terminated, Goto, vars, TypeOK
      <4>2. ~MayTake(r)
        <5>1. MayTake(r) => HoldsRow(r)'
          <6>1. NewRow(r) \in LockRow
            BY <1>0, LockAssumption DEF NewRow, TypeOK
          <6> QED
            BY <1>0, <4>1, <6>1, NoRowAssumption DEF Upsert, HoldsRow, NewRow, TypeOK
        <5>2. pc'[r] = "verify"
          BY <1>0, <4>1 DEF Upsert, Goto, TypeOK
        <5> QED
          BY <1>2, <5>1, <5>2 DEF Refused
      <4>3. Reason(r)
        BY <4>1, <4>2, RefusedForAReason DEF SkipInv, Reason
      <4> QED
        BY <4>1, <4>3, ReasonStays
    <3> QED
      BY <3>1, <3>2
  <2> QED
    BY <2>1, <2>2
<1> QED
  BY <1>1, <1>2 DEF SkipInv

(* A tick that every live replica skipped is owed to an earlier lease, not  *)
(* yet expired, that a crash or a database error left behind.               *)
THEOREM SkipsExplained == ~Overrun /\ Spec => []SkippedForAReason
<1> SUFFICES ASSUME ~Overrun PROVE Spec => []SkippedForAReason
  OBVIOUS
<1>1. Init => SkipInv
  BY DEF Init, SkipInv, Begun, RowHasWriter, Refused
<1>2. LockInv /\ SkipInv /\ [Next]_vars => SkipInv'
  BY SkipInvStep
<1>3. SkipInv => SkippedForAReason
  <2> SUFFICES ASSUME SkipInv, NEW r \in Runs, Unserved(r)
               PROVE  \E s \in Runs :
                        /\ s.job = r.job /\ s.tick < r.tick /\ Leaked(s)
                        /\ at[s] + TTL[r.job] >= at[r]
    BY DEF SkippedForAReason
  <2>1. PICK s \in Runs :
           /\ s.job = r.job
           /\ \/ s.tick < r.tick /\ Leaked(s) /\ at[s] + TTL[r.job] >= at[r]
              \/ s.tick = r.tick /\ Serves(s)
    BY DEF SkipInv, Refused, Reason, Unserved
  <2>2. s.tick = r.tick => ~Serves(s)
    BY <2>1 DEF Unserved, Serves
  <2> QED
    BY <2>1, <2>2
<1> QED
  BY <1>1, <1>2, <1>3, LockInvariant, PTL DEF Spec
=============================================================================
