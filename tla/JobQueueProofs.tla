---------------------------- MODULE JobQueueProofs ----------------------------
(***************************************************************************)
(* Proofs about JobQueue, for any jobs and any number of attempts, retries *)
(* and faults: types, that no queued notification disappears without one   *)
(* of the causes the module names, and that an email is sent once.         *)
(***************************************************************************)
EXTENDS JobQueue, SequenceTheorems, TLAPS

USE JobQueueAssumption, NoneAssumption

(* What the proofs see of a list: whether it holds a job, whether it holds *)
(* it once, and how often its jobs have been tried.                        *)
Holds(list, j) == \E i \in 1..Len(list) : list[i].id = j

Single(list, j) ==
    \A a, b \in 1..Len(list) : list[a].id = j /\ list[b].id = j => a = b

UpTo(list, n) == \A i \in 1..Len(list) : list[i].attempts <= n

(* A push on the left, a pop from the right, and a write at index 0.       *)
LEMMA PushFacts ==
    ASSUME NEW list \in Seq(Entries), NEW e \in Entries
    PROVE  /\ LPush(e, list) \in Seq(Entries)
           /\ \A j \in Jobs : Holds(LPush(e, list), j) <=> e.id = j \/ Holds(list, j)
           /\ \A j \in Jobs :
                Single(list, j) /\ (e.id = j => ~Holds(list, j)) => Single(LPush(e, list), j)
           /\ \A n \in Nat : UpTo(list, n) /\ e.attempts <= n => UpTo(LPush(e, list), n)
<1> DEFINE new == LPush(e, list)
<1>1. /\ new \in Seq(Entries)
      /\ Len(new) = Len(list) + 1
      /\ new[1] = e
      /\ \A i \in 1..Len(new) : i # 1 => i - 1 \in 1..Len(list) /\ new[i] = list[i - 1]
      /\ \A i \in 1..Len(list) : i + 1 \in 1..Len(new) /\ new[i + 1] = list[i]
      /\ Len(list) \in Nat
  BY DEF LPush
<1> HIDE DEF new
<1>2. \A j \in Jobs : Holds(new, j) <=> e.id = j \/ Holds(list, j)
  <2> SUFFICES ASSUME NEW j \in Jobs
               PROVE  Holds(new, j) <=> e.id = j \/ Holds(list, j)
    OBVIOUS
  <2>1. ASSUME NEW i \in 1..Len(new), new[i].id = j PROVE e.id = j \/ Holds(list, j)
    BY <1>1, <2>1 DEF Holds
  <2>2. ASSUME NEW i \in 1..Len(list), list[i].id = j PROVE Holds(new, j)
    BY <1>1, <2>2 DEF Holds
  <2>3. e.id = j => Holds(new, j)
    BY <1>1 DEF Holds
  <2> QED
    BY <2>1, <2>2, <2>3 DEF Holds
<1>3. \A j \in Jobs : Single(list, j) /\ (e.id = j => ~Holds(list, j)) => Single(new, j)
  <2> SUFFICES ASSUME NEW j \in Jobs, Single(list, j), e.id = j => ~Holds(list, j),
                      NEW a \in 1..Len(new), NEW b \in 1..Len(new),
                      new[a].id = j, new[b].id = j
               PROVE  a = b
    BY DEF Single
  <2>1. CASE a = 1 \/ b = 1
    BY <1>1, <2>1 DEF Holds
  <2>2. CASE a # 1 /\ b # 1
    <3>1. a - 1 = b - 1
      BY <1>1, <2>2 DEF Single
    <3> QED
      BY <3>1, <1>1
  <2> QED
    BY <2>1, <2>2
<1>4. \A n \in Nat : UpTo(list, n) /\ e.attempts <= n => UpTo(new, n)
  BY <1>1 DEF UpTo
<1> QED
  BY <1>1, <1>2, <1>3, <1>4 DEF new

LEMMA PopFacts ==
    ASSUME NEW list \in Seq(Entries), list # <<>>
    PROVE  /\ Front(list) \in Seq(Entries)
           /\ Last(list) \in Entries
           /\ \A j \in Jobs : Holds(list, j) <=> Last(list).id = j \/ Holds(Front(list), j)
           /\ \A j \in Jobs : Single(list, j) =>
                Single(Front(list), j) /\ ~(Last(list).id = j /\ Holds(Front(list), j))
           /\ \A n \in Nat : UpTo(list, n) => UpTo(Front(list), n) /\ Last(list).attempts <= n
<1> DEFINE new == Front(list)
           last == Last(list)
           len == Len(list)
<1>1. /\ new \in Seq(Entries)
      /\ len \in Nat /\ len \in 1..len
      /\ last = list[len] /\ last \in Entries
      /\ Len(new) = len - 1
      /\ \A i \in 1..Len(new) : i \in 1..len /\ i # len /\ new[i] = list[i]
      /\ \A i \in 1..len : i # len => i \in 1..Len(new)
  <2>1. len \in Nat /\ len \in 1..len /\ last = list[len] /\ last \in Entries
    BY DEF Last
  <2>2. Len(new) = len - 1 /\ \A i \in 1..(len - 1) : new[i] = list[i]
    <3>1. len - 1 \in Int /\ \A i \in 1..(len - 1) : list[i] \in Entries
      BY <2>1
    <3> HIDE DEF len
    <3>2. /\ Len(SubSeq(list, 1, len - 1)) = IF 1 <= len - 1 THEN len - 1 - 1 + 1 ELSE 0
          /\ \A i \in 1..(len - 1 - 1 + 1) : SubSeq(list, 1, len - 1)[i] = list[1 + i - 1]
      BY <3>1, SubSeqProperties
    <3>3. new = SubSeq(list, 1, len - 1)
      BY DEF Front, len
    <3> HIDE DEF new
    <3> QED
      BY <2>1, <3>2, <3>3
  <2>3. new \in Seq(Entries)
    BY <2>1 DEF Front
  <2> HIDE DEF new, len, last
  <2> QED
    BY <2>1, <2>2, <2>3
<1> HIDE DEF new, last, len
<1>2. \A j \in Jobs : Holds(list, j) <=> last.id = j \/ Holds(new, j)
  <2> SUFFICES ASSUME NEW j \in Jobs
               PROVE  Holds(list, j) <=> last.id = j \/ Holds(new, j)
    OBVIOUS
  <2>1. ASSUME NEW i \in 1..len, list[i].id = j PROVE last.id = j \/ Holds(new, j)
    BY <1>1, <2>1 DEF Holds
  <2>2. ASSUME NEW i \in 1..Len(new), new[i].id = j PROVE Holds(list, j)
    BY <1>1, <2>2 DEF Holds, len
  <2>3. last.id = j => Holds(list, j)
    BY <1>1 DEF Holds, len
  <2> QED
    BY <2>1, <2>2, <2>3 DEF Holds, len
<1>3. \A j \in Jobs : Single(list, j) =>
         Single(new, j) /\ ~(last.id = j /\ Holds(new, j))
  BY <1>1 DEF Single, Holds, len
<1>4. \A n \in Nat : UpTo(list, n) => UpTo(new, n) /\ last.attempts <= n
  BY <1>1 DEF UpTo, len
<1> QED
  BY <1>1, <1>2, <1>3, <1>4 DEF new, last

LEMMA SetFacts ==
    ASSUME NEW list \in Seq(Entries), list # <<>>, NEW e \in Entries
    PROVE  LET new == [list EXCEPT ![1] = e] IN
           /\ new \in Seq(Entries)
           /\ list[1] \in Entries
           /\ \A j \in Jobs : Holds(new, j) => e.id = j \/ Holds(list, j)
           /\ \A j \in Jobs : Holds(list, j) => list[1].id = j \/ Holds(new, j)
           /\ \A j \in Jobs : list[1].id = j => Holds(list, j)
           /\ Holds(new, e.id)
           /\ \A j \in Jobs : (e.id = j => list[1].id = j) /\ Single(list, j) => Single(new, j)
           /\ \A n \in Nat : UpTo(list, n) /\ e.attempts <= n => UpTo(new, n)
<1> DEFINE new == [list EXCEPT ![1] = e]
<1>1. /\ new \in Seq(Entries)
      /\ Len(new) = Len(list) /\ 1 \in 1..Len(list)
      /\ new[1] = e /\ list[1] \in Entries
      /\ \A i \in 1..Len(list) : i # 1 => new[i] = list[i]
  OBVIOUS
<1> HIDE DEF new
<1>2. /\ \A j \in Jobs : Holds(new, j) => e.id = j \/ Holds(list, j)
      /\ \A j \in Jobs : Holds(list, j) => list[1].id = j \/ Holds(new, j)
      /\ \A j \in Jobs : list[1].id = j => Holds(list, j)
      /\ Holds(new, e.id)
  BY <1>1 DEF Holds
<1>3. \A j \in Jobs : (e.id = j => list[1].id = j) /\ Single(list, j) => Single(new, j)
  BY <1>1 DEF Single
<1>4. \A n \in Nat : UpTo(list, n) /\ e.attempts <= n => UpTo(new, n)
  BY <1>1 DEF UpTo
<1> QED
  BY <1>1, <1>2, <1>3, <1>4 DEF new

-----------------------------------------------------------------------------
(* An entry has been tried less than MaxAttempts times before it waits, and *)
(* at most MaxAttempts times before it has failed, but for the retries of   *)
(* an administrator: each may return a job untouched to the queue once.     *)
Attempts ==
    /\ UpTo(queue, MaxAttempts + retries - 1)
    /\ UpTo(failed, MaxAttempts + retries)
    /\ hand # None => hand.entry.attempts <= MaxAttempts + retries - 1

TypeInv == TypeOK /\ Attempts

(* The job in hand is in `processing` until it is removed, or has been      *)
(* completed.                                                               *)
HandKept ==
    hand # None =>
        /\ hand.at \in {"handling", "failing"} =>
             processing[hand.entry] > 0 \/ hand.entry.id \in completed
        /\ hand.at = "succeeded" => hand.entry.id \in completed

LostInv == TypeInv /\ HandKept /\ NothingLost

(* A job that no failure has repeated waits, is in hand or has failed in    *)
(* one place only.  Once its email is sent it is in none, or in hand: about *)
(* to be removed, or stuck there without the connection to put it back.     *)
Waits(j) == Holds(queue, j) \/ Holds(failed, j)

InHandIs(j) == hand # None /\ hand.entry.id = j

OnePlace(j) ==
    /\ mails[j] <= 1
    /\ Single(queue, j) /\ Single(failed, j)
    /\ ~(Holds(queue, j) /\ Holds(failed, j))
    /\ InHandIs(j) => ~Waits(j)
    /\ request[j] \in {"idle", "sync"} => ~Waits(j) /\ ~InHandIs(j) /\ mails[j] = 0
    /\ mails[j] = 1 =>
         /\ ~Waits(j)
         /\ InHandIs(j) => \/ hand.at = "succeeded"
                           \/ hand.at = "failing" /\ "publisher" \notin online

MailInv == TypeInv /\ \A j \in Jobs : j \notin doubtful => OnePlace(j)

-----------------------------------------------------------------------------
LEMMA TypeInit ==
    ASSUME Init
    PROVE  TypeInv
<1>1. <<>> \in Seq(Entries) /\ Len(<<>>) = 0
  OBVIOUS
<1> QED
  BY <1>1 DEF Init, TypeInv, TypeOK, Attempts, UpTo

LEMMA FreshFacts ==
    ASSUME NEW j \in Jobs
    PROVE  Fresh(j) \in Entries /\ Fresh(j).id = j /\ Fresh(j).attempts = 0
  BY DEF Entries, Fresh

LEMMA EntryFacts ==
    ASSUME NEW e \in Entries
    PROVE  /\ e.id \in Jobs /\ e.attempts \in Nat
           /\ e.attempts < MaxAttempts + MaxRetries =>
                /\ Tried(e) \in Entries /\ Tried(e).id = e.id
                /\ Tried(e).attempts = e.attempts + 1
  BY DEF Entries, Tried

(* What a return of the job in hand does to the two lists. *)
LEMMA RequeueFacts ==
    ASSUME TypeInv, InHand("removed"), Requeue(hand.entry)
    PROVE  \E e \in Entries :
             /\ e.id = hand.entry.id
             /\ \/ /\ queue' = LPush(e, queue) /\ failed' = failed
                   /\ e.attempts <= MaxAttempts + retries - 1
                \/ /\ failed' = LPush(e, failed) /\ queue' = queue
                   /\ e.attempts <= MaxAttempts + retries
<1> DEFINE h == hand.entry
<1>1. /\ h \in Entries /\ h.attempts <= MaxAttempts + retries - 1
      /\ retries \in 0..MaxRetries /\ h.attempts \in Nat /\ h.id \in Jobs
  BY EntryFacts DEF TypeInv, TypeOK, Attempts, InHand, Held, Entries
<1> HIDE DEF h
<1>2. Tried(h) \in Entries /\ Tried(h).id = h.id /\ Tried(h).attempts = h.attempts + 1
  <2>1. h.attempts < MaxAttempts + MaxRetries
    BY <1>1
  <2> QED
    BY <1>1, <2>1, EntryFacts
<1>3. \/ /\ queue' = LPush(Tried(h), queue) /\ failed' = failed
         /\ h.attempts + 1 < MaxAttempts
      \/ failed' = LPush(Tried(h), failed) /\ queue' = queue
  BY DEF Requeue, h
<1>4. /\ h.attempts + 1 < MaxAttempts => h.attempts + 1 <= MaxAttempts + retries - 1
      /\ h.attempts + 1 <= MaxAttempts + retries
  BY <1>1
<1> QED
  BY <1>2, <1>3, <1>4 DEF h

LEMMA RunType ==
    ASSUME TypeOK, NEW j \in Jobs, NEW completes \in BOOLEAN, Run(j, completes)
    PROVE  /\ mails' \in [Jobs -> Nat] /\ completed' \subseteq Jobs
           /\ doubtful' \subseteq Jobs
  BY DEF TypeOK, Run

LEMMA RemType ==
    ASSUME TypeOK, NEW e \in Entries, LRem(e)
    PROVE  processing' \in [Entries -> Nat]
<1>1. processing[e] \in Nat
  BY DEF TypeOK
<1>2. (IF processing[e] > 0 THEN processing[e] - 1 ELSE 0) \in Nat
  BY <1>1
<1> QED
  BY <1>2 DEF LRem, TypeOK

LEMMA FaultType ==
    ASSUME TypeOK, UNCHANGED faults \/ Fault
    PROVE  faults' \in 0..MaxFaults
  BY DEF TypeOK, Fault

(* The job in hand only ever moves on.                                     *)
LEMMA HandFacts ==
    ASSUME TypeOK, hand # None
    PROVE  /\ hand.entry \in Entries /\ hand.entry.id \in Jobs
           /\ \A at \in {"succeeded", "failing", "removed"} :
                hand' = [hand EXCEPT !.at = at] =>
                    hand' \in Held /\ hand'.at = at /\ hand'.entry = hand.entry
  BY DEF TypeOK, Held, Entries

(* What a list holds is typed, and was tried no oftener than the list.    *)
LEMMA ListFacts ==
    ASSUME NEW list \in Seq(Entries)
    PROVE  /\ \A i \in 1..Len(list) : list[i] \in Entries /\ list[i].id \in Jobs
           /\ list # <<>> => 1 \in 1..Len(list)
           /\ \A m, n \in Int : m <= n /\ UpTo(list, m) => UpTo(list, n)
<1>1. \A i \in 1..Len(list) : list[i] \in Entries
  OBVIOUS
<1>2. \A e \in Entries : e.id \in Jobs /\ e.attempts \in Int
  BY DEF Entries
<1>3. list # <<>> => 1 \in 1..Len(list)
  OBVIOUS
<1> QED
  BY <1>1, <1>2, <1>3 DEF UpTo

LEMMA TypeStep ==
    ASSUME TypeInv, [Next]_vars
    PROVE  TypeInv'
<1> USE DEF lists, effects, history, Fails, Closed
<1>0. /\ TypeOK /\ Attempts /\ retries \in Nat /\ MaxAttempts \in Nat \ {0}
      /\ MaxAttempts + retries - 1 \in Nat /\ MaxAttempts + retries \in Nat
  BY DEF TypeInv, TypeOK
<1>1. ASSUME NEW j \in Jobs, Enqueue(j) \/ EnqueueFails(j) PROVE TypeInv'
  <2>1. Fresh(j) \in Entries /\ Fresh(j).attempts <= MaxAttempts + retries - 1
    BY <1>0, FreshFacts
  <2>2. queue' = queue \/ queue' = LPush(Fresh(j), queue)
    BY <1>1 DEF Enqueue, EnqueueFails
  <2>3. queue' \in Seq(Entries) /\ UpTo(queue', MaxAttempts + retries - 1)
    BY <1>0, <2>1, <2>2, PushFacts DEF TypeOK, Attempts
  <2> QED
    BY <1>0, <1>1, <2>3, FaultType DEF Enqueue, EnqueueFails, TypeInv, TypeOK, Attempts
<1>2. ASSUME NEW j \in Jobs, ProcessSync(j) PROVE TypeInv'
  BY <1>0, <1>2, RunType DEF ProcessSync, TypeInv, TypeOK, Attempts
<1>3. CASE Pop
  <2>1. /\ queue' \in Seq(Entries) /\ Last(queue) \in Entries
        /\ UpTo(queue', MaxAttempts + retries - 1)
        /\ Last(queue).attempts <= MaxAttempts + retries - 1
    BY <1>0, <1>3, PopFacts DEF Pop, TypeOK, Attempts
  <2>2. processing' \in [Entries -> Nat]
    BY <1>0, <1>3, <2>1 DEF Pop, TypeOK
  <2> QED
    <3>1. \/ hand' = hand /\ faults' \in 0..MaxFaults
          \/ /\ hand' \in Held /\ hand'.entry = Last(queue) /\ faults' = faults
      BY <1>0, <1>3, <2>1, FaultType DEF Pop, Held
    <3> QED
      BY <1>0, <1>3, <2>1, <2>2, <3>1 DEF Pop, TypeInv, TypeOK, Attempts
<1>4. CASE Handle
  <2>1. hand.entry.id \in Jobs /\ hand' \in Held /\ hand'.entry = hand.entry
    BY <1>0, <1>4, EntryFacts DEF Handle, InHand, Goto, TypeOK, Held, Entries
  <2> QED
    BY <1>0, <1>4, <2>1, RunType DEF Handle, InHand, TypeInv, TypeOK, Attempts
<1>5. CASE Acknowledge
  <2>1. /\ hand.entry \in Entries /\ hand.entry.id \in Jobs
        /\ hand' = None \/ (hand' \in Held /\ hand'.entry = hand.entry)
    <3>1. /\ hand # None
          /\ hand' = None \/ \E at \in {"failing", "removed"} : hand' = [hand EXCEPT !.at = at]
      BY <1>5 DEF Acknowledge, InHand, Goto
    <3>2. /\ hand.entry \in Entries /\ hand.entry.id \in Jobs
      BY <1>0, <3>1, HandFacts
    <3>3. ASSUME NEW at \in {"failing", "removed"}, hand' = [hand EXCEPT !.at = at]
          PROVE  hand' \in Held /\ hand'.entry = hand.entry
      BY <1>0, <3>1, <3>3, HandFacts
    <3> QED
      BY <3>1, <3>2, <3>3
  <2>2. processing' \in [Entries -> Nat]
    BY <1>0, <1>5, <2>1, RemType DEF Acknowledge, TypeOK
  <2> QED
    BY <1>0, <1>5, <2>1, <2>2, FaultType DEF Acknowledge, InHand, TypeInv, TypeOK, Attempts
<1>6. CASE RemoveFailed
  <2>1. /\ hand.entry \in Entries /\ hand.entry.id \in Jobs
        /\ hand' = None \/ (hand' \in Held /\ hand'.entry = hand.entry)
    <3>1. /\ hand # None
          /\ hand' = None \/ \E at \in {"failing", "removed"} : hand' = [hand EXCEPT !.at = at]
      BY <1>6 DEF RemoveFailed, InHand, Goto
    <3>2. /\ hand.entry \in Entries /\ hand.entry.id \in Jobs
      BY <1>0, <3>1, HandFacts
    <3>3. ASSUME NEW at \in {"failing", "removed"}, hand' = [hand EXCEPT !.at = at]
          PROVE  hand' \in Held /\ hand'.entry = hand.entry
      BY <1>0, <3>1, <3>3, HandFacts
    <3> QED
      BY <3>1, <3>2, <3>3
  <2>2. processing' \in [Entries -> Nat]
    BY <1>0, <1>6, <2>1, RemType DEF RemoveFailed, TypeOK
  <2> QED
    BY <1>0, <1>6, <2>1, <2>2, FaultType DEF RemoveFailed, InHand, TypeInv, TypeOK, Attempts
<1>7. CASE Return
  <2>1. hand.entry.id \in Jobs
    BY <1>0, <1>7 DEF Return, InHand, TypeOK, Held, Entries
  <2>2. /\ queue' \in Seq(Entries) /\ UpTo(queue', MaxAttempts + retries - 1)
        /\ failed' \in Seq(Entries) /\ UpTo(failed', MaxAttempts + retries)
    <3>1. CASE Requeue(hand.entry)
      <4>1. InHand("removed")
        BY <1>7 DEF Return
      <4> QED
        BY <1>0, <3>1, <4>1, RequeueFacts, PushFacts DEF TypeOK, Attempts
    <3>2. CASE UNCHANGED <<queue, failed>>
      BY <1>0, <3>2 DEF TypeOK, Attempts
    <3> QED
      BY <1>7, <3>1, <3>2 DEF Return
  <2> QED
    BY <1>0, <1>7, <2>1, <2>2, FaultType DEF Return, TypeInv, TypeOK, Attempts
<1>8. CASE Restart
  <2>1. InHand("removed") => hand.entry.id \in Jobs
    BY <1>0 DEF InHand, TypeOK, Held, Entries
  <2> QED
    BY <1>0, <1>8, <2>1, FaultType DEF Restart, TypeInv, TypeOK, Attempts
<1>9. CASE Retry
  <2>1. /\ failed' \in Seq(Entries) /\ UpTo(failed', MaxAttempts + retries)
        /\ Last(failed) \in Entries /\ Last(failed).attempts <= MaxAttempts + retries
    BY <1>0, <1>9, PopFacts DEF Retry, TypeOK, Attempts
  <2>2. retries' = retries + 1 /\ retries' \in 0..MaxRetries
    BY <1>0, <1>9 DEF Retry
  <2>3. UpTo(queue, MaxAttempts + retries)
    BY <1>0, ListFacts DEF Attempts, TypeOK
  <2>4. queue' \in Seq(Entries) /\ UpTo(queue', MaxAttempts + retries)
    BY <1>0, <1>9, <2>1, <2>3, PushFacts DEF Retry, TypeOK
  <2>5. UpTo(failed', MaxAttempts + retries')
    <3>1. MaxAttempts + retries <= MaxAttempts + retries'
      BY <1>0, <2>2
    <3> QED
      BY <1>0, <2>1, <2>2, <3>1, ListFacts
  <2>6. MaxAttempts + retries' - 1 = MaxAttempts + retries
    BY <1>0, <2>2
  <2>7. hand # None => hand.entry.attempts <= MaxAttempts + retries
    BY <1>0 DEF Attempts, TypeOK, Held, Entries
  <2> QED
    BY <1>0, <1>9, <2>1, <2>2, <2>4, <2>5, <2>6, <2>7, FaultType DEF Retry, TypeInv, TypeOK, Attempts
<1>10. CASE Reset
  <2>1. /\ retrying \in Entries /\ retrying.id \in Jobs
        /\ queue # <<>> => queue[1] \in Entries /\ queue[1].id \in Jobs
    BY <1>0, <1>10, ListFacts DEF Reset, TypeOK, Entries
  <2>0. /\ Fresh(retrying.id) \in Entries
        /\ Fresh(retrying.id).attempts <= MaxAttempts + retries - 1
    BY <1>0, <2>1, FreshFacts
  <2>2. queue' \in Seq(Entries) /\ UpTo(queue', MaxAttempts + retries - 1)
    <3>1. CASE queue' = queue
      BY <1>0, <1>10, <3>1 DEF Reset, TypeOK, Attempts
    <3>2. CASE queue # <<>> /\ queue' = [queue EXCEPT ![1] = Fresh(retrying.id)]
      <4>1. /\ queue \in Seq(Entries) /\ queue # <<>>
            /\ queue' = [queue EXCEPT ![1] = Fresh(retrying.id)]
        BY <1>0, <3>2 DEF TypeOK
      <4>2. /\ queue' \in Seq(Entries)
            /\ \A n \in Nat : UpTo(queue, n) /\ Fresh(retrying.id).attempts <= n => UpTo(queue', n)
        BY ONLY <2>0, <4>1, SetFacts
      <4> QED
        BY <1>0, <2>0, <4>2 DEF Attempts
    <3> QED
      BY <1>10, <3>1, <3>2 DEF Reset
  <2> QED
    BY <1>0, <1>10, <2>1, <2>2, FaultType DEF Reset, Overwritten, TypeInv, TypeOK, Attempts
<1>11. CASE Clear
  <2>1. {failed[i].id : i \in 1..Len(failed)} \subseteq Jobs
    BY <1>0, ListFacts DEF TypeOK
  <2>2. failed' \in Seq(Entries) /\ UpTo(failed', MaxAttempts + retries)
    BY <1>11 DEF Clear, UpTo
  <2> QED
    BY <1>0, <1>11, <2>1, <2>2 DEF Clear, TypeInv, TypeOK, Attempts
<1>12. CASE Disconnect
  BY <1>0, <1>12, FaultType DEF Disconnect, TypeInv, TypeOK, Attempts
<1>13. CASE UNCHANGED vars
  BY <1>0, <1>13 DEF vars, TypeInv, TypeOK, Attempts
<1> QED
  BY <1>1, <1>2, <1>3, <1>4, <1>5, <1>6, <1>7, <1>8, <1>9, <1>10, <1>11, <1>12, <1>13
  DEF Next, Loop, Terminated

-----------------------------------------------------------------------------
(* In `processing`, by pop or as what a failure has left there.            *)
Left(j) == \E e \in Entries : e.id = j /\ processing[e] > 0

(* Where a job may be, when it is neither completed nor lost. *)
Somewhere(j) ==
    Holds(queue, j) \/ Holds(failed, j) \/ Left(j) \/ InHandIs(j)

LEMMA PresentSomewhere ==
    ASSUME NEW j \in Jobs
    PROVE  Present(j) <=> Somewhere(j)
  BY DEF Present, Somewhere, Holds, Left, InHandIs

(* lrem takes away no job but the one in hand. *)
LEMMA RemKeeps ==
    ASSUME TypeOK, NEW e \in Entries, LRem(e), NEW j \in Jobs, e.id # j, Left(j)
    PROVE  Left(j)'
  BY DEF TypeOK, LRem, Left

LEMMA LostStep ==
    ASSUME LostInv, [Next]_vars
    PROVE  LostInv'
<1> USE DEF lists, effects, history, Fails, Closed
<1> DEFINE Safe(j) == j \in completed \/ Somewhere(j) \/ j \in dropped
<1>0. /\ TypeInv /\ TypeInv' /\ TypeOK /\ HandKept
      /\ \A j \in Jobs : request[j] = "queued" => Safe(j)
  BY TypeStep, PresentSomewhere DEF LostInv, TypeInv, NothingLost
<1> SUFFICES HandKept' /\ \A j \in Jobs : request'[j] = "queued" => Safe(j)'
  BY <1>0, PresentSomewhere DEF LostInv, NothingLost, Present, Somewhere, Holds, Left, InHandIs
<1>1. ASSUME NEW k \in Jobs, Enqueue(k) \/ EnqueueFails(k)
      PROVE  HandKept' /\ \A j \in Jobs : request'[j] = "queued" => Safe(j)'
  <2>1. UNCHANGED <<processing, failed, hand, completed, dropped>>
    BY <1>1 DEF Enqueue, EnqueueFails
  <2>2. \A j \in Jobs : Holds(queue, j) => Holds(queue', j)
    <3>1. queue' = queue \/ queue' = LPush(Fresh(k), queue)
      BY <1>1 DEF Enqueue, EnqueueFails
    <3>2. queue \in Seq(Entries) /\ Fresh(k) \in Entries
      BY <1>0, FreshFacts DEF TypeOK
    <3> QED
      BY <3>1, <3>2, PushFacts
  <2>3. request'[k] = "queued" => Holds(queue', k)
    BY <1>0, <1>1, FreshFacts, PushFacts DEF Enqueue, EnqueueFails, TypeOK
  <2>4. \A j \in Jobs : j # k => request'[j] = request[j]
    BY <1>0, <1>1 DEF Enqueue, EnqueueFails, TypeOK
  <2> QED
    BY <1>0, <2>1, <2>2, <2>3, <2>4 DEF HandKept, Somewhere, Left, InHandIs
<1>2. ASSUME NEW k \in Jobs, ProcessSync(k)
      PROVE  HandKept' /\ \A j \in Jobs : request'[j] = "queued" => Safe(j)'
  BY <1>0, <1>2 DEF ProcessSync, Run, HandKept, Somewhere, Left, InHandIs, TypeOK
<1>3. ASSUME Pop
      PROVE  HandKept' /\ \A j \in Jobs : request'[j] = "queued" => Safe(j)'
  <2>1. /\ Last(queue) \in Entries /\ Last(queue).id \in Jobs
        /\ \A j \in Jobs : Holds(queue, j) <=> Last(queue).id = j \/ Holds(queue', j)
    <3>1. queue \in Seq(Entries) /\ queue # <<>> /\ queue' = Front(queue)
      BY <1>0, <1>3 DEF Pop, TypeOK
    <3>2. /\ Last(queue) \in Entries
          /\ \A j \in Jobs : Holds(queue, j) <=> Last(queue).id = j \/ Holds(queue', j)
      BY ONLY <3>1, PopFacts
    <3> QED
      BY <3>2, EntryFacts
  <2>2. /\ processing'[Last(queue)] > 0
        /\ \A e \in Entries : processing[e] > 0 => processing'[e] > 0
    BY <1>0, <1>3, <2>1 DEF Pop, TypeOK
  <2>3. \/ hand' = None
        \/ hand' = [at |-> "handling", entry |-> Last(queue)]
    BY <1>3 DEF Pop
  <2>4. HandKept'
    BY <1>3, <2>2, <2>3 DEF HandKept
  <2>5. \A j \in Jobs : Somewhere(j) => Somewhere(j)'
    BY <1>3, <2>1, <2>2 DEF Pop, Somewhere, Left, InHandIs
  <2> QED
    BY <1>0, <1>3, <2>4, <2>5 DEF Pop
<1>4. ASSUME Handle
      PROVE  HandKept' /\ \A j \in Jobs : request'[j] = "queued" => Safe(j)'
  <2>1. /\ hand # None /\ hand.at = "handling" /\ hand.entry \in Entries
        /\ hand'.entry = hand.entry
        /\ \/ hand'.at = "failing" /\ completed' = completed
           \/ hand'.at = "succeeded" /\ completed' = completed \cup {hand.entry.id}
    BY <1>0, <1>4 DEF Handle, InHand, Goto, Run, TypeOK, Held
  <2>2. hand' # None
    BY <1>0, <1>4, HandFacts DEF Handle, InHand, Goto
  <2>3. HandKept'
    BY <1>0, <1>4, <2>1 DEF Handle, HandKept
  <2> QED
    BY <1>0, <1>4, <2>1, <2>2, <2>3 DEF Handle, Somewhere, Left, InHandIs
<1>5. ASSUME Acknowledge
      PROVE  HandKept' /\ \A j \in Jobs : request'[j] = "queued" => Safe(j)'
  <2>1. /\ hand # None /\ hand.at = "succeeded" /\ hand.entry \in Entries
        /\ hand.entry.id \in completed
        /\ hand' = None \/ hand'.entry = hand.entry
    BY <1>0, <1>5, HandFacts DEF Acknowledge, InHand, Goto, HandKept, TypeOK, Held
  <2>2. HandKept'
    BY <1>5, <2>1 DEF Acknowledge, HandKept
  <2>3. \A j \in Jobs : j # hand.entry.id /\ Left(j) => Left(j)'
    BY <1>0, <1>5, <2>1, RemKeeps DEF Acknowledge, Left
  <2>4. \A j \in Jobs : j # hand.entry.id /\ Somewhere(j) => Somewhere(j)'
    BY <1>5, <2>3 DEF Acknowledge, Somewhere, InHandIs
  <2> QED
    BY <1>0, <1>5, <2>1, <2>2, <2>4 DEF Acknowledge
<1>6. ASSUME RemoveFailed
      PROVE  HandKept' /\ \A j \in Jobs : request'[j] = "queued" => Safe(j)'
  <2>1. /\ hand # None /\ hand.at = "failing" /\ hand.entry \in Entries
        /\ hand.entry.id \in Jobs
        /\ processing[hand.entry] > 0 \/ hand.entry.id \in completed
    BY <1>0, <1>6, HandFacts DEF RemoveFailed, InHand, HandKept
  <2>2. \/ hand' = None
        \/ hand' \in Held /\ hand'.at = "removed" /\ hand'.entry = hand.entry
    BY <1>0, <1>6, <2>1, HandFacts DEF RemoveFailed, Goto
  <2>3. HandKept'
    BY <2>2 DEF HandKept
  <2>4. \A j \in Jobs : j # hand.entry.id /\ Somewhere(j) => Somewhere(j)'
    BY <1>0, <1>6, <2>1, RemKeeps DEF RemoveFailed, Somewhere, Left, InHandIs
  <2>5. ASSUME NEW j \in Jobs, j = hand.entry.id PROVE Safe(j)'
    <3>1. CASE hand' # None
      BY <2>2, <2>5, <3>1 DEF Somewhere, InHandIs
    <3>2. CASE UNCHANGED processing
      BY <1>6, <2>1, <2>5, <3>2 DEF RemoveFailed, Somewhere, Left
    <3>3. CASE Goto("removed")
      <4>1. hand' \in Held
        BY <1>0, <2>1, <3>3, HandFacts DEF Goto
      <4> QED
        BY <3>1, <4>1
    <3> QED
      BY <1>6, <2>5, <3>2, <3>3 DEF RemoveFailed
  <2>6. UNCHANGED <<request, completed>> /\ dropped \subseteq dropped'
    BY <1>6 DEF RemoveFailed
  <2> QED
    BY <1>0, <2>3, <2>4, <2>5, <2>6
<1>7. ASSUME Return
      PROVE  HandKept' /\ \A j \in Jobs : request'[j] = "queued" => Safe(j)'
  <2>1. hand # None /\ InHand("removed") /\ hand' = None /\ hand.entry.id \in Jobs
    BY <1>0, <1>7, HandFacts DEF Return, InHand
  <2>2. \A j \in Jobs : Waits(j) => Waits(j)'
    <3>1. CASE Requeue(hand.entry)
      BY <1>0, <2>1, <3>1, RequeueFacts, PushFacts DEF Waits, TypeOK
    <3>2. CASE UNCHANGED <<queue, failed>>
      BY <3>2 DEF Waits
    <3> QED
      BY <1>7, <3>1, <3>2 DEF Return
  <2>3. Holds(queue', hand.entry.id) \/ Holds(failed', hand.entry.id) \/ hand.entry.id \in dropped'
    <3>1. CASE Requeue(hand.entry)
      <4>1. PICK e \in Entries :
               /\ e.id = hand.entry.id
               /\ \/ queue' = LPush(e, queue) \/ failed' = LPush(e, failed)
        BY <1>0, <2>1, <3>1, RequeueFacts
      <4>2. queue \in Seq(Entries) /\ failed \in Seq(Entries)
        BY <1>0 DEF TypeOK
      <4>3. /\ Holds(LPush(e, queue), e.id) /\ Holds(LPush(e, failed), e.id)
        BY <2>1, <4>1, <4>2, PushFacts
      <4> QED
        BY <4>1, <4>3
    <3> QED
      BY <1>7, <3>1 DEF Return
  <2> QED
    BY <1>0, <1>7, <2>1, <2>2, <2>3 DEF Return, HandKept, Waits, Somewhere, Left, InHandIs
<1>8. ASSUME Restart
      PROVE  HandKept' /\ \A j \in Jobs : request'[j] = "queued" => Safe(j)'
  <2>1. \A j \in Jobs : request'[j] = "queued" => request[j] = "queued"
    BY <1>0, <1>8 DEF Restart, TypeOK
  <2>2. ASSUME NEW j \in Jobs, InHandIs(j) PROVE Safe(j)'
    <3>1. hand \in Held /\ hand.entry \in Entries
      BY <1>0, <2>2 DEF InHandIs, TypeOK, Held
    <3>2. CASE hand.at = "removed"
      BY <1>8, <2>2, <3>2 DEF Restart, InHand, InHandIs
    <3>3. CASE hand.at # "removed"
      BY <1>0, <1>8, <2>2, <3>1, <3>3 DEF Restart, HandKept, InHandIs, Held, Somewhere, Left
    <3> QED
      BY <3>2, <3>3
  <2> QED
    BY <1>0, <1>8, <2>1, <2>2 DEF Restart, HandKept, Somewhere, Left, InHandIs
<1>9. ASSUME Retry
      PROVE  HandKept' /\ \A j \in Jobs : request'[j] = "queued" => Safe(j)'
  <2>1. \A j \in Jobs : Waits(j) => Waits(j)'
    BY <1>0, <1>9, PopFacts, PushFacts DEF Retry, Waits, TypeOK
  <2> QED
    BY <1>0, <1>9, <2>1 DEF Retry, HandKept, Waits, Somewhere, Left, InHandIs
<1>10. ASSUME Reset
      PROVE  HandKept' /\ \A j \in Jobs : request'[j] = "queued" => Safe(j)'
  <2>1. \A j \in Jobs : Holds(queue, j) => Holds(queue', j) \/ j \in dropped'
    <3>1. CASE queue # <<>> /\ queue' # queue
      <4>1. retrying \in Entries
        BY <1>0, <1>10 DEF Reset, TypeOK
      <4>2. /\ Fresh(retrying.id) \in Entries /\ Fresh(retrying.id).id = retrying.id
            /\ queue \in Seq(Entries) /\ queue' = [queue EXCEPT ![1] = Fresh(retrying.id)]
        <5>1. /\ Fresh(retrying.id) \in Entries /\ Fresh(retrying.id).id = retrying.id
          BY <4>1, FreshFacts, EntryFacts
        <5> QED
          BY <1>0, <1>10, <3>1, <5>1 DEF Reset, TypeOK
      <4>3. ASSUME NEW j \in Jobs, Holds(queue, j)
            PROVE  queue[1].id = j \/ Holds(queue', j)
        BY <3>1, <4>2, <4>3, SetFacts
      <4>4. Holds(queue', retrying.id)
        BY ONLY <3>1, <4>2, SetFacts
      <4>5. queue[1].id = retrying.id \/ queue[1].id \in dropped'
        BY <1>10, <3>1 DEF Reset, Overwritten
      <4> QED
        BY <4>3, <4>4, <4>5
    <3> QED
      BY <1>10, <3>1 DEF Reset
  <2>2. dropped \subseteq dropped'
    BY <1>10 DEF Reset
  <2> QED
    BY <1>0, <1>10, <2>1, <2>2 DEF Reset, HandKept, Somewhere, Left, InHandIs
<1>11. ASSUME Clear
      PROVE  HandKept' /\ \A j \in Jobs : request'[j] = "queued" => Safe(j)'
  <2>1. \A j \in Jobs : Holds(failed, j) => j \in dropped'
    BY <1>11 DEF Clear, Holds
  <2> QED
    BY <1>0, <1>11, <2>1 DEF Clear, HandKept, Somewhere, Left, InHandIs
<1>12. ASSUME Disconnect
      PROVE  HandKept' /\ \A j \in Jobs : request'[j] = "queued" => Safe(j)'
  BY <1>0, <1>12 DEF Disconnect, HandKept, Somewhere, Left, InHandIs
<1>13. ASSUME UNCHANGED vars
      PROVE  HandKept' /\ \A j \in Jobs : request'[j] = "queued" => Safe(j)'
  BY <1>0, <1>13 DEF vars, HandKept, Somewhere, Left, InHandIs
<1> QED
  BY <1>1, <1>2, <1>3, <1>4, <1>5, <1>6, <1>7, <1>8, <1>9, <1>10, <1>11, <1>12, <1>13
  DEF Next, Loop, Terminated

-----------------------------------------------------------------------------
(* A handler run mails its own job only; one that throws behind the email  *)
(* makes it doubtful.                                                      *)
LEMMA RunMails ==
    ASSUME TypeOK, NEW k \in Jobs, NEW completes \in BOOLEAN, Run(k, completes)
    PROVE  /\ \A j \in Jobs : j # k => mails'[j] = mails[j]
           /\ mails'[k] \in {mails[k], mails[k] + 1}
           /\ mails'[k] = mails[k] + 1 /\ ~completes => k \in doubtful'
           /\ doubtful \subseteq doubtful'
<1>1. mails[k] \in Nat
  BY DEF TypeOK
<1> QED
  BY <1>1 DEF TypeOK, Run

LEMMA MailStep ==
    ASSUME MailInv, [Next]_vars
    PROVE  MailInv'
<1> USE DEF lists, effects, history, Fails, Closed
<1>0. /\ TypeInv /\ TypeInv' /\ TypeOK
      /\ \A j \in Jobs : mails[j] \in Nat
      /\ queue \in Seq(Entries) /\ failed \in Seq(Entries)
      /\ \A j \in Jobs : j \notin doubtful => OnePlace(j)
  BY TypeStep DEF MailInv, TypeInv, TypeOK
<1> SUFFICES ASSUME NEW j \in Jobs, j \notin doubtful' PROVE OnePlace(j)'
  BY <1>0 DEF MailInv
<1>1. ASSUME NEW k \in Jobs, Enqueue(k) PROVE OnePlace(j)'
  <2>1. /\ OnePlace(j) /\ UNCHANGED <<failed, hand, mails, online>>
        /\ queue' = LPush(Fresh(k), queue)
        /\ j # k => request'[j] = request[j]
        /\ j = k => request[j] = "idle" /\ request'[j] = "queued"
    BY <1>0, <1>1 DEF Enqueue, TypeOK
  <2>2. /\ Holds(queue', j) <=> k = j \/ Holds(queue, j)
        /\ Single(queue, j) /\ (k = j => ~Holds(queue, j)) => Single(queue', j)
    <3>1. Fresh(k) \in Entries /\ Fresh(k).id = k
      BY FreshFacts
    <3>2. /\ Holds(LPush(Fresh(k), queue), j) <=> k = j \/ Holds(queue, j)
          /\ Single(queue, j) /\ (k = j => ~Holds(queue, j)) => Single(LPush(Fresh(k), queue), j)
      BY <1>0, <3>1, PushFacts
    <3> QED
      BY <2>1, <3>2
  <2> QED
    BY <2>1, <2>2 DEF OnePlace, Waits, InHandIs
<1>2. ASSUME NEW k \in Jobs, EnqueueFails(k) PROVE OnePlace(j)'
  <2>1. /\ OnePlace(j) /\ UNCHANGED <<failed, hand, mails, online>>
        /\ j # k => request'[j] = request[j]
        /\ j = k => request[j] = "idle" /\ request'[j] = "sync" /\ queue' = queue
        /\ queue' = queue \/ queue' = LPush(Fresh(k), queue)
    BY <1>0, <1>2 DEF EnqueueFails, TypeOK
  <2>2. j # k => (Holds(queue', j) <=> Holds(queue, j)) /\ (Single(queue, j) => Single(queue', j))
    <3>1. Fresh(k) \in Entries /\ Fresh(k).id = k
      BY FreshFacts
    <3>2. /\ Holds(LPush(Fresh(k), queue), j) <=> k = j \/ Holds(queue, j)
          /\ Single(queue, j) /\ (k = j => ~Holds(queue, j)) => Single(LPush(Fresh(k), queue), j)
      BY <1>0, <3>1, PushFacts
    <3> QED
      BY <2>1, <3>2
  <2> QED
    BY <2>1, <2>2 DEF OnePlace, Waits, InHandIs
<1>3. ASSUME NEW k \in Jobs, ProcessSync(k) PROVE OnePlace(j)'
  <2>1. /\ OnePlace(j) /\ UNCHANGED <<queue, failed, hand, online>>
        /\ j # k => request'[j] = request[j] /\ mails'[j] = mails[j]
        /\ j = k => /\ request[j] = "sync" /\ request'[j] = "done"
                   /\ mails'[j] \in {mails[j], mails[j] + 1}
    BY <1>0, <1>3, RunMails DEF ProcessSync, TypeOK
  <2> QED
    BY <1>0, <2>1 DEF OnePlace, Waits, InHandIs
<1>4. CASE Pop
  <2>1. /\ OnePlace(j) /\ UNCHANGED <<failed, mails, request>> /\ hand = None
        /\ queue # <<>> /\ queue' = Front(queue)
        /\ hand' = None \/ hand'.entry = Last(queue)
    BY <1>0, <1>4 DEF Pop
  <2>2. /\ Holds(queue, j) <=> Last(queue).id = j \/ Holds(queue', j)
        /\ Single(queue', j) /\ ~(Last(queue).id = j /\ Holds(queue', j))
    BY <1>0, <2>1, PopFacts DEF OnePlace
  <2> QED
    BY <2>1, <2>2 DEF OnePlace, Waits, InHandIs
<1>5. CASE Handle
  <2>1. /\ OnePlace(j) /\ UNCHANGED <<queue, failed, request>> /\ hand # None
        /\ hand.at = "handling" /\ hand.entry.id \in Jobs
        /\ hand'.entry = hand.entry
    BY <1>0, <1>5, RunMails, HandFacts DEF Handle, InHand, Goto
  <2>2. CASE j # hand.entry.id
    BY <1>0, <1>5, <2>1, <2>2, RunMails DEF Handle, OnePlace, Waits, InHandIs
  <2>3. CASE j = hand.entry.id
    <3>1. InHandIs(j) /\ mails[j] = 0 /\ ~Waits(j) /\ request[j] \notin {"idle", "sync"}
      BY <1>0, <2>1, <2>3 DEF OnePlace, InHandIs
    <3>2. mails'[j] = 0 \/ (mails'[j] = 1 /\ hand'.at = "succeeded")
      BY <1>0, <1>5, <2>1, <2>3, <3>1, RunMails DEF Handle, Goto, TypeOK, Held
    <3> QED
      BY <2>1, <3>1, <3>2 DEF OnePlace, Waits, InHandIs
  <2> QED
    BY <2>2, <2>3
<1>6. CASE Acknowledge
  <2>1. /\ OnePlace(j) /\ UNCHANGED <<queue, failed, request, mails, online>>
        /\ hand # None
        /\ \/ hand' = None
           \/ hand'.entry = hand.entry /\ hand.entry.id # j
           \/ hand'.entry = hand.entry /\ hand'.at = "failing" /\ "publisher" \notin online
    BY <1>0, <1>6, HandFacts DEF Acknowledge, InHand, Goto
  <2> QED
    BY <2>1 DEF OnePlace, Waits, InHandIs
<1>7. CASE RemoveFailed
  <2>1. /\ OnePlace(j) /\ UNCHANGED <<queue, failed, request, mails, online>>
        /\ hand # None /\ hand.at = "failing"
        /\ hand' = None \/ (hand'.entry = hand.entry /\ "publisher" \in online)
    BY <1>0, <1>7, HandFacts DEF RemoveFailed, InHand, Goto
  <2> QED
    BY <2>1 DEF OnePlace, Waits, InHandIs
<1>8. CASE Return
  <2>1. /\ OnePlace(j) /\ UNCHANGED <<request, mails>> /\ InHand("removed")
        /\ hand # None /\ hand.at = "removed" /\ hand' = None
    BY <1>0, <1>8 DEF Return, InHand
  <2>2. CASE UNCHANGED <<queue, failed>>
    BY <2>1, <2>2 DEF OnePlace, Waits, InHandIs
  <2>3. CASE Requeue(hand.entry)
    <3>1. PICK e \in Entries :
             /\ e.id = hand.entry.id
             /\ \/ queue' = LPush(e, queue) /\ failed' = failed
                \/ failed' = LPush(e, failed) /\ queue' = queue
      BY <1>0, <2>1, <2>3, RequeueFacts
    <3>2. CASE queue' = LPush(e, queue) /\ failed' = failed
      <4>1. /\ Holds(queue', j) <=> e.id = j \/ Holds(queue, j)
            /\ Single(queue, j) /\ (e.id = j => ~Holds(queue, j)) => Single(queue', j)
        BY <1>0, <3>2, PushFacts
      <4> QED
        BY <2>1, <3>1, <3>2, <4>1 DEF OnePlace, Waits, InHandIs
    <3>3. CASE failed' = LPush(e, failed) /\ queue' = queue
      <4>1. /\ Holds(failed', j) <=> e.id = j \/ Holds(failed, j)
            /\ Single(failed, j) /\ (e.id = j => ~Holds(failed, j)) => Single(failed', j)
        BY <1>0, <3>3, PushFacts
      <4> QED
        BY <2>1, <3>1, <3>3, <4>1 DEF OnePlace, Waits, InHandIs
    <3> QED
      BY <3>1, <3>2, <3>3
  <2> QED
    BY <1>8, <2>2, <2>3 DEF Return
<1>9. CASE Restart
  BY <1>0, <1>9 DEF Restart, OnePlace, Waits, InHandIs, TypeOK
<1>10. CASE Retry
  <2>1. /\ OnePlace(j) /\ UNCHANGED <<request, mails, hand, online>>
        /\ failed # <<>> /\ failed' = Front(failed) /\ queue' = LPush(Last(failed), queue)
    BY <1>0, <1>10 DEF Retry
  <2>2. /\ Last(failed) \in Entries
        /\ Holds(failed, j) <=> Last(failed).id = j \/ Holds(failed', j)
        /\ Single(failed', j) /\ ~(Last(failed).id = j /\ Holds(failed', j))
    BY <1>0, <2>1, PopFacts DEF OnePlace
  <2>3. /\ Holds(queue', j) <=> Last(failed).id = j \/ Holds(queue, j)
        /\ Single(queue, j) /\ (Last(failed).id = j => ~Holds(queue, j)) => Single(queue', j)
    BY <1>0, <2>1, <2>2, PushFacts
  <2> QED
    BY <2>1, <2>2, <2>3 DEF OnePlace, Waits, InHandIs
<1>11. CASE Reset
  <2>1. OnePlace(j) /\ UNCHANGED <<request, mails, hand, online, failed>>
    BY <1>0, <1>11 DEF Reset
  <2>2. CASE queue' = queue
    BY <1>11, <2>1, <2>2 DEF Reset, OnePlace, Waits, InHandIs
  <2>3. CASE queue # <<>> /\ queue' # queue
    <3>1. retrying \in Entries
      BY <1>0, <1>11 DEF Reset, TypeOK
    <3>2. Fresh(retrying.id) \in Entries /\ Fresh(retrying.id).id = retrying.id
      BY <3>1, FreshFacts, EntryFacts
    <3>3. queue' = [queue EXCEPT ![1] = Fresh(retrying.id)]
      BY <1>11, <2>3 DEF Reset
    <3>4. retrying.id = j => queue[1].id = j
      BY <1>11, <2>3 DEF Reset, Overwritten
    <3>5. /\ Holds(queue', j) => retrying.id = j \/ Holds(queue, j)
          /\ queue[1].id = j => Holds(queue, j)
          /\ (retrying.id = j => queue[1].id = j) /\ Single(queue, j) => Single(queue', j)
      <4>1. /\ Holds(queue', j) => Fresh(retrying.id).id = j \/ Holds(queue, j)
            /\ queue[1].id = j => Holds(queue, j)
        BY <1>0, <2>3, <3>2, <3>3, SetFacts
      <4>2. (Fresh(retrying.id).id = j => queue[1].id = j) /\ Single(queue, j) => Single(queue', j)
        BY <1>0, <2>3, <3>2, <3>3, SetFacts
      <4> QED
        BY <3>2, <4>1, <4>2
    <3> QED
      BY <2>1, <3>4, <3>5 DEF OnePlace, Waits, InHandIs
  <2> QED
    BY <1>11, <2>2, <2>3 DEF Reset
<1>12. CASE Clear
  <2>1. OnePlace(j) /\ UNCHANGED <<request, mails, hand, online, queue>> /\ failed' = <<>>
    BY <1>0, <1>12 DEF Clear
  <2>2. ~Holds(failed', j) /\ Single(failed', j)
    BY <2>1 DEF Holds, Single
  <2> QED
    BY <2>1, <2>2 DEF OnePlace, Waits, InHandIs
<1>13. CASE Disconnect
  BY <1>0, <1>13 DEF Disconnect, OnePlace, Waits, InHandIs
<1>14. CASE UNCHANGED vars
  BY <1>0, <1>14 DEF vars, OnePlace, Waits, InHandIs
<1> QED
  BY <1>1, <1>2, <1>3, <1>4, <1>5, <1>6, <1>7, <1>8, <1>9, <1>10, <1>11, <1>12, <1>13, <1>14
  DEF Next, Loop, Terminated

-----------------------------------------------------------------------------
(* The lists, the job in hand and what has been sent keep their types.     *)
THEOREM QueueTypes == Spec => []TypeOK
<1>1. TypeInv => TypeOK
  BY DEF TypeInv
<1> QED
  BY <1>1, TypeInit, TypeStep, PTL DEF Spec

(* A job that keeps failing is given up: it waits, or is in hand, with less *)
(* than MaxAttempts attempts behind it, not counting one for every retry of *)
(* an administrator.                                                       *)
THEOREM AttemptsBounded == Spec => []Attempts
<1>1. TypeInv => Attempts
  BY DEF TypeInv
<1> QED
  BY <1>1, TypeInit, TypeStep, PTL DEF Spec

(* A notification that notify answered with `queued` is handled, still in  *)
(* a list or in hand, or was lost in one of the ways dropped records: no   *)
(* interleaving of pops, acknowledgements, returns and retries loses it.   *)
THEOREM JobsKept == Spec => []NothingLost
<1>1. Init => LostInv
  BY TypeInit DEF Init, LostInv, HandKept, NothingLost
<1>2. LostInv => NothingLost
  BY DEF LostInv
<1> QED
  BY <1>1, <1>2, LostStep, PTL DEF Spec

(* An email is repeated only for a job that a failure, or an lset that hit *)
(* another job, has doubled: retries alone never repeat it.                *)
THEOREM MailsOnce == Spec => []MailedOnce
<1>1. Init => MailInv
  <2>1. Init => \A j \in Jobs : ~Holds(queue, j) /\ ~Holds(failed, j)
                              /\ Single(queue, j) /\ Single(failed, j)
    BY DEF Init, Holds, Single
  <2> QED
    BY <2>1, TypeInit DEF Init, MailInv, OnePlace, Waits, InHandIs
<1>2. MailInv => MailedOnce
  BY DEF MailInv, OnePlace, MailedOnce, TypeInv, TypeOK
<1> QED
  BY <1>1, <1>2, MailStep, PTL DEF Spec
=============================================================================
