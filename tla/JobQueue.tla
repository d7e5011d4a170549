------------------------------- MODULE JobQueue -------------------------------
(***************************************************************************)
(* The job queue of notification-service: QueueService over three Redis    *)
(* lists, QueueProcessor, and NotificationService as its producer and      *)
(* handler.                                                                *)
(*                                                                         *)
(* A job is pushed at the left of `queue`.  The process loop pops it at    *)
(* the right into `processing`, runs the handler, removes it and, if the   *)
(* handler threw, pushes it to `queue` or `failed`: four commands, each of *)
(* which may fail, with or without effect, and a process that may die      *)
(* between them.  Administrators retry and clear the failed jobs meanwhile.*)
(* The process has two connections: `subscriber` pops, `publisher` does    *)
(* the rest.  One that cannot be restored in three tries stays closed      *)
(* until the next start, and every command on it throws at once.           *)
(*                                                                         *)
(* A handler run has no effect on the lists, so it is one step, with every *)
(* outcome its statements can have.  The email stands for the channels.    *)
(***************************************************************************)
EXTENDS Integers, Sequences, SequencesExt

CONSTANTS
    Jobs,          \* calls of notify, each with the job it creates
    MaxAttempts,   \* QUEUE_MAX_ATTEMPTS
    MaxRetries,    \* bound: jobs an administrator moves back to the queue
    MaxFaults,     \* bound: failing commands, lost connections, deaths
    None           \* no job in hand

ASSUME JobQueueAssumption ==
    /\ MaxAttempts \in Nat \ {0}
    /\ MaxRetries \in Nat
    /\ MaxFaults \in Nat

(* A job as it is stored; the other fields never change. *)
Entries == [id : Jobs, attempts : 0..(MaxAttempts + MaxRetries)]

(* The job of the process loop, and how far it has come. *)
Held == [at : {"handling", "succeeded", "failing", "removed"}, entry : Entries]

ASSUME NoneAssumption == None \notin Entries \cup Held

Clients == {"publisher", "subscriber"}

VARIABLES
    request,       \* request[j]: how far notify has come
    queue,         \* notification:queue, the left end first
    processing,    \* notification:processing; its order is never used
    failed,        \* notification:failed
    hand,          \* the job of the process loop, and how far it has come
    retrying,      \* the job retryFailedJobs has moved, or None
    retries, faults,
    online,        \* the connections to Redis that are not closed for good
    mails,         \* mails[j]: emails the provider accepted for job j
    completed,     \* history: jobs a handler run has completed
    doubtful,      \* history: jobs a failure may have repeated
    dropped        \* history: jobs lost on their way to another list

vars == <<request, queue, processing, failed, hand, retrying, retries, faults,
          online, mails, completed, doubtful, dropped>>

lists == <<queue, processing, failed>>

effects == <<mails, completed>>

history == <<doubtful, dropped>>

TypeOK ==
    /\ request \in [Jobs -> {"idle", "queued", "sync", "done"}]
    /\ queue \in Seq(Entries)
    /\ processing \in [Entries -> Nat]
    /\ failed \in Seq(Entries)
    /\ hand \in Held \cup {None}
    /\ retrying \in Entries \cup {None}
    /\ retries \in 0..MaxRetries
    /\ faults \in 0..MaxFaults
    /\ online \subseteq Clients
    /\ mails \in [Jobs -> Nat]
    /\ completed \subseteq Jobs
    /\ doubtful \subseteq Jobs
    /\ dropped \subseteq Jobs

(* A start whose ping fails leaves no connection, and the loop stopped. *)
Init ==
    /\ request = [j \in Jobs |-> "idle"]
    /\ queue = <<>>
    /\ processing = [e \in Entries |-> 0]
    /\ failed = <<>>
    /\ hand = None
    /\ retrying = None
    /\ retries = 0
    /\ faults = 0
    /\ online \in {Clients, {}}
    /\ mails = [j \in Jobs |-> 0]
    /\ completed = {}
    /\ doubtful = {}
    /\ dropped = {}

-----------------------------------------------------------------------------
LPush(e, list) == <<e>> \o list

LRem(e) ==
    processing' = [processing EXCEPT ![e] = IF @ > 0 THEN @ - 1 ELSE 0]

Fault == faults < MaxFaults /\ faults' = faults + 1

(* A command that throws: its outcome is lost, or its connection is closed *)
(* and it had none.                                                        *)
Fails(client) == client \in online /\ Fault

Closed(client) == client \notin online /\ UNCHANGED faults

(* processNotificationSync.  An email that is refused is a FAILED result,  *)
(* not an exception; the handler throws when its log row cannot be         *)
(* created, before the email, or updated, after it.                        *)
Run(j, completes) ==
    \E mailed \in BOOLEAN :
        /\ mails' = [mails EXCEPT ![j] = IF mailed THEN @ + 1 ELSE @]
        /\ completed' = IF completes THEN completed \cup {j} ELSE completed
        /\ doubtful' = IF mailed /\ ~completes THEN doubtful \cup {j} ELSE doubtful

-----------------------------------------------------------------------------
(* notify and addJob *)

Fresh(j) == [id |-> j, attempts |-> 0]

(* A mutant of Enqueue: notify goes on to the synchronous processing. *)
EnqueueAndRun(j) ==
    /\ request[j] = "idle"
    /\ "publisher" \in online
    /\ queue' = LPush(Fresh(j), queue)
    /\ request' = [request EXCEPT ![j] = "sync"]
    /\ UNCHANGED <<processing, failed, hand, retrying, retries, faults, online, effects, history>>

Enqueue(j) ==
    /\ request[j] = "idle"
    /\ "publisher" \in online
    /\ queue' = LPush(Fresh(j), queue)
    /\ request' = [request EXCEPT ![j] = "queued"]
    /\ UNCHANGED <<processing, failed, hand, retrying, retries, faults, online, effects, history>>

(* No Redis, or an error: the notification is processed synchronously,     *)
(* although the job may have been pushed.                                  *)
EnqueueFails(j) ==
    /\ request[j] = "idle"
    /\ \/ /\ Fails("publisher") \/ Closed("publisher")
          /\ UNCHANGED <<queue, doubtful>>
       \/ /\ Fails("publisher")
          /\ queue' = LPush(Fresh(j), queue)
          /\ doubtful' = doubtful \cup {j}
    /\ request' = [request EXCEPT ![j] = "sync"]
    /\ UNCHANGED <<processing, failed, hand, retrying, retries, online, effects, dropped>>

ProcessSync(j) ==
    /\ request[j] = "sync"
    /\ \E completes \in BOOLEAN : Run(j, completes)
    /\ request' = [request EXCEPT ![j] = "done"]
    /\ UNCHANGED <<lists, hand, retrying, retries, faults, online, dropped>>

-----------------------------------------------------------------------------
(* processLoop and processJob *)

(* brpoplpush; the answer may be lost, and the next iteration goes on      *)
(* without the job.                                                        *)
Pop ==
    /\ "subscriber" \in online
    /\ hand = None
    /\ queue # <<>>
    /\ queue' = Front(queue)
    /\ processing' = [processing EXCEPT ![Last(queue)] = @ + 1]
    /\ \/ hand' = [at |-> "handling", entry |-> Last(queue)] /\ UNCHANGED faults
       \/ Fails("subscriber") /\ UNCHANGED hand
    /\ UNCHANGED <<request, failed, retrying, retries, online, effects, history>>

Goto(label) == hand' = [hand EXCEPT !.at = label]

InHand(label) == hand # None /\ hand.at = label

Handle ==
    /\ InHand("handling")
    /\ \E completes \in BOOLEAN :
          /\ Run(hand.entry.id, completes)
          /\ Goto(IF completes THEN "succeeded" ELSE "failing")
    /\ UNCHANGED <<request, lists, retrying, retries, faults, online, dropped>>

(* lrem after a success.  If it fails, the catch block treats the job as   *)
(* failed.                                                                 *)
Acknowledge ==
    /\ InHand("succeeded")
    /\ \/ /\ "publisher" \in online
          /\ LRem(hand.entry)
          /\ hand' = None
          /\ UNCHANGED <<faults, doubtful>>
       \/ /\ Fails("publisher")
          /\ LRem(hand.entry) \/ UNCHANGED processing
          /\ Goto("failing")
          /\ doubtful' = doubtful \cup {hand.entry.id}
       \/ Closed("publisher") /\ Goto("failing") /\ UNCHANGED <<processing, doubtful>>
    /\ UNCHANGED <<request, queue, failed, retrying, retries, online, effects, dropped>>

(* lrem in the catch block.  If it fails, the loop goes on without the job. *)
RemoveFailed ==
    /\ InHand("failing")
    /\ \/ /\ "publisher" \in online
          /\ LRem(hand.entry)
          /\ Goto("removed")
          /\ UNCHANGED <<faults, dropped>>
       \/ /\ Fails("publisher")
          /\ LRem(hand.entry)
          /\ dropped' = dropped \cup {hand.entry.id}
          /\ hand' = None
       \/ /\ Fails("publisher") \/ Closed("publisher")
          /\ hand' = None
          /\ UNCHANGED <<processing, dropped>>
    /\ UNCHANGED <<request, queue, failed, retrying, retries, online, effects, doubtful>>

Tried(e) == [e EXCEPT !.attempts = @ + 1]

(* A mutant of Requeue: every failure is queued again. *)
RequeueAlways(e) ==
    queue' = LPush(Tried(e), queue) /\ UNCHANGED failed

(* Another: the attempt is not counted. *)
RequeueUncounted(e) == queue' = LPush(e, queue) /\ UNCHANGED failed

(* Another: a job is dropped after its last attempt.                       *)
RequeueOrDrop(e) ==
    IF e.attempts + 1 < MaxAttempts THEN queue' = LPush(Tried(e), queue) /\ UNCHANGED failed
    ELSE UNCHANGED <<queue, failed>>

Requeue(e) ==
    IF e.attempts + 1 < MaxAttempts THEN queue' = LPush(Tried(e), queue) /\ UNCHANGED failed
    ELSE failed' = LPush(Tried(e), failed) /\ UNCHANGED queue

(* lpush to the queue or to the failed jobs. *)
Return ==
    /\ InHand("removed")
    /\ hand' = None
    /\ \/ /\ "publisher" \in online
          /\ UNCHANGED faults \/ Fault
          /\ Requeue(hand.entry)
          /\ UNCHANGED dropped
       \/ /\ Fails("publisher") \/ Closed("publisher")
          /\ dropped' = dropped \cup {hand.entry.id}
          /\ UNCHANGED <<queue, failed>>
    /\ UNCHANGED <<request, processing, retrying, retries, online, effects, doubtful>>

(* retryStrategy gives up: an outage, or a network, of more than three     *)
(* tries ends one connection or both.                                      *)
Disconnect ==
    /\ Fault
    /\ online' \in SUBSET online \ {online}
    /\ UNCHANGED <<request, lists, hand, retrying, retries, effects, history>>

(* The process dies with everything it has in hand, or is restarted for    *)
(* its closed connections, and pings Redis again.  Nothing reads           *)
(* `processing` then.                                                      *)
Restart ==
    /\ \/ Fault /\ (hand # None \/ retrying # None \/ \E j \in Jobs : request[j] = "sync")
       \/ online # Clients /\ UNCHANGED faults
    /\ online' \in {Clients, {}}
    /\ dropped' = IF InHand("removed") THEN dropped \cup {hand.entry.id} ELSE dropped
    /\ hand' = None
    /\ retrying' = None
    /\ request' = [j \in Jobs |-> IF request[j] = "sync" THEN "done" ELSE request[j]]
    /\ UNCHANGED <<lists, retries, effects, doubtful>>

-----------------------------------------------------------------------------
(* retryFailedJobs and clearFailedJobs *)

(* rpoplpush; the call ends if its answer is lost.  MaxRetries also bounds *)
(* the calls of retryFailedJobs, which come one at a time.                 *)
Retry ==
    /\ "publisher" \in online
    /\ retrying = None
    /\ failed # <<>>
    /\ retries < MaxRetries
    /\ queue' = LPush(Last(failed), queue)
    /\ failed' = Front(failed)
    /\ \/ retrying' = Last(failed) /\ UNCHANGED faults
       \/ Fault /\ UNCHANGED retrying
    /\ retries' = retries + 1
    /\ UNCHANGED <<request, processing, hand, online, effects, history>>

(* The job that lset replaces, if another one has come to the left end     *)
(* since; the retried job then exists twice.                               *)
Overwritten(e) == IF queue[1] = e THEN {} ELSE {queue[1].id}

(* lset of index 0, whatever has been pushed or popped since.  It fails on *)
(* an empty queue, and where any command fails, and ends the call.         *)
Reset ==
    /\ retrying # None
    /\ \/ /\ "publisher" \in online
          /\ queue # <<>>
          /\ queue' = [queue EXCEPT ![1] = Fresh(retrying.id)]
          /\ dropped' = dropped \cup Overwritten(retrying)
          /\ doubtful' = IF Overwritten(retrying) = {} THEN doubtful
                         ELSE doubtful \cup {retrying.id}
          /\ UNCHANGED faults
       \/ /\ Fails("publisher") \/ Closed("publisher") \/ (queue = <<>> /\ UNCHANGED faults)
          /\ UNCHANGED <<queue, dropped, doubtful>>
    /\ retrying' = None
    /\ UNCHANGED <<request, processing, failed, hand, retries, online, effects>>

Clear ==
    /\ "publisher" \in online
    /\ failed # <<>>
    /\ failed' = <<>>
    /\ dropped' = dropped \cup {failed[i].id : i \in 1..Len(failed)}
    /\ UNCHANGED <<request, queue, processing, hand, retrying, retries, faults,
                   online, effects, doubtful>>

-----------------------------------------------------------------------------
Loop == Pop \/ Handle \/ Acknowledge \/ RemoveFailed \/ Return

Terminated ==
    /\ \A j \in Jobs : request[j] \in {"queued", "done"}
    /\ queue = <<>> /\ failed = <<>> /\ hand = None /\ retrying = None
    /\ UNCHANGED vars

Next ==
    \/ \E j \in Jobs : Enqueue(j) \/ EnqueueFails(j) \/ ProcessSync(j)
    \/ Loop \/ Disconnect \/ Restart
    \/ Retry \/ Reset \/ Clear
    \/ Terminated

Spec == Init /\ [][Next]_vars

(* The process loop runs on after every error, as long as `subscriber` has *)
(* a connection: Pop is not enabled without it.  A handler run ends.       *)
FairSpec == Spec /\ WF_vars(Loop)

-----------------------------------------------------------------------------
(* In `processing` whether or not it is in hand: a job is there until it   *)
(* is removed, and between removal and return it is only in hand.          *)
Present(j) ==
    \/ \E i \in 1..Len(queue) : queue[i].id = j
    \/ \E i \in 1..Len(failed) : failed[i].id = j
    \/ \E e \in Entries : e.id = j /\ processing[e] > 0
    \/ hand # None /\ hand.entry.id = j

(* A notification answered with `queued` is processed, or its job is still *)
(* in a list, or it was lost in one of the ways this code has: an error or *)
(* a death between two lists, an lset that hit another job, a Clear.       *)
NothingLost ==
    \A j \in Jobs :
        request[j] = "queued" => j \in completed \/ Present(j) \/ j \in dropped

(* An email is sent once, unless a failure made the service repeat it:     *)
(* whatever is retried, by the loop or by an administrator.                *)
MailedOnce == \A j \in Jobs : mails[j] > 1 => j \in doubtful

(* The loop gives a job up after MaxAttempts: jobs that keep failing do    *)
(* not keep it busy for ever.  It needs only the connection it pops with,  *)
(* whatever becomes of the other, and that for good: nothing in the        *)
(* process restores a connection that was closed.                          *)
QueueDrains ==
    <>[]("subscriber" \in online) => <>[](queue = <<>> /\ hand = None)

(* What one would wish: an outage that is over delays jobs and no more. *)
OutageSurvived == <>[](queue = <<>> /\ hand = None)

(* `Use BRPOPLPUSH for reliable queue processing`: a job the loop has      *)
(* taken does not stay in `processing`.                                    *)
ReliableProcessing ==
    \A j \in Jobs :
        (\E e \in Entries : e.id = j /\ processing[e] > 0) ~>
            (\A e \in Entries : e.id = j => processing[e] = 0)
=============================================================================
