-------------------------- MODULE MCDistributedLock --------------------------
(* A small instance of DistributedLock for TLC: a job whose TTL equals its  *)
(* period (as four of the five jobs have) and the cleanup job.              *)
EXTENDS DistributedLock, TLC

CONSTANTS i1, i2, renewals, cleanup

MCInstances == {i1, i2}
MCJobs == {renewals, cleanup}
MCTTL == renewals :> 3 @@ cleanup :> 1
Symm == Permutations({i1, i2})
MCTicks == renewals :> {0, 3} @@ cleanup :> {4}
=============================================================================
