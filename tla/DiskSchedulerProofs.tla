------------------------- MODULE DiskSchedulerProofs -------------------------
(***************************************************************************)
(* Theorems about DiskScheduler, for every set of tasks, every assignment  *)
(* of buses and types and every size of the pool.                          *)
(***************************************************************************)
EXTENDS DiskScheduler, FiniteSetTheorems, SequenceTheorems, TLAPS

-----------------------------------------------------------------------------
(* What splice(i, 1) of an array leaves: the other elements in their order.*)
LEMMA RemoveAtProperties ==
    ASSUME NEW S, NEW s \in Seq(S), NEW i \in DOMAIN s
    PROVE  /\ RemoveAt(s, i) \in Seq(S)
           /\ Len(RemoveAt(s, i)) = Len(s) - 1
           /\ \A k \in 1 .. Len(s) - 1 :
                RemoveAt(s, i)[k] = IF k < i THEN s[k] ELSE s[k + 1]
<1> DEFINE l == SubSeq(s, 1, i - 1)
           r == SubSeq(s, i + 1, Len(s))
<1>1. i \in 1 .. Len(s) /\ Len(s) \in Nat
  BY LenProperties
<1>2. l \in Seq(S) /\ Len(l) = i - 1 /\ \A k \in 1 .. i - 1 : l[k] = s[k]
  BY <1>1, SubSeqProperties
<1>3. r \in Seq(S) /\ Len(r) = Len(s) - i
      /\ \A k \in 1 .. Len(s) - i : r[k] = s[i + k]
  BY <1>1
<1>4. RemoveAt(s, i) = l \o r
  BY DEF RemoveAt
<1> HIDE DEF l, r
<1>5. l \o r \in Seq(S) /\ Len(l \o r) = Len(s) - 1
  BY <1>1, <1>2, <1>3, ConcatProperties
<1>6. \A k \in 1 .. Len(l) + Len(r) :
        (l \o r)[k] = IF k <= Len(l) THEN l[k] ELSE r[k - Len(l)]
  BY <1>2, <1>3, ConcatProperties
<1>7. ASSUME NEW k \in 1 .. Len(s) - 1
      PROVE  (l \o r)[k] = IF k < i THEN s[k] ELSE s[k + 1]
  <2>1. CASE k < i
    BY <1>1, <1>2, <1>3, <1>6, <2>1
  <2>2. CASE ~(k < i)
    <3>1. k \in 1 .. Len(l) + Len(r) /\ ~(k <= Len(l))
      BY <1>1, <1>2, <1>3, <2>2
    <3>2. (l \o r)[k] = r[k - Len(l)]
      BY <1>6, <3>1
    <3>3. k - Len(l) \in 1 .. Len(s) - i /\ i + (k - Len(l)) = k + 1
      BY <1>1, <1>2, <2>2
    <3> QED
      BY <1>3, <2>2, <3>2, <3>3
  <2> QED
    BY <2>1, <2>2
<1> QED
  BY <1>4, <1>5, <1>7

-----------------------------------------------------------------------------
(* A sleeping generator owes an answer: it went to sleep inside a next().  *)
SleepingOwesAnswer == gen = "sleeping" => pending_next > 0

TypeInv == TypeOK /\ SleepingOwesAnswer

(* The queue holds no task twice, and none that is in a worker's hands.    *)
QueueDistinct ==
    /\ \A i, j \in DOMAIN disk_queue : disk_queue[i] = disk_queue[j] => i = j
    /\ \A i \in DOMAIN disk_queue : disk_queue[i] \notin running

(* Whatever is queued or running was pushed. *)
Known ==
    /\ \A i \in DOMAIN disk_queue : disk_queue[i] \in ToSet(submitted)
    /\ running \subseteq ToSet(submitted)

(* The strengthening of BusExclusive and WorkerCountExact that is          *)
(* inductive: exclusion holds because the flags are exact, and the count   *)
(* is exact because no queued task is also running.                        *)
IInv ==
    /\ TypeInv
    /\ QueueDistinct
    /\ Known
    /\ BusFlagExact
    /\ BusExclusive
    /\ WorkerCountExact

-----------------------------------------------------------------------------
(* Setting the bus keeps the Map a Map of booleans. *)
LEMMA SetBusType ==
    ASSUME NEW t \in Tasks, NEW b \in BOOLEAN,
           bus_activity \in [Buses -> BOOLEAN], SetBus(t, b)
    PROVE  bus_activity' \in [Buses -> BOOLEAN]
BY SchedulerAssumption DEF SetBus

-----------------------------------------------------------------------------
LEMMA InitTypeInv == Init => TypeInv
BY SchedulerAssumption DEF Init, TypeInv, TypeOK, SleepingOwesAnswer

(* Every step keeps the variables in their types. *)
LEMMA NextTypeInv == TypeInv /\ [Next]_vars => TypeInv'
<1> SUFFICES ASSUME TypeInv, [Next]_vars
             PROVE  TypeInv'
  OBVIOUS
<1> USE SchedulerAssumption DEF TypeInv, TypeOK, SleepingOwesAnswer
<1>1. ASSUME NEW t \in Tasks, Submit(t)
      PROVE  TypeInv'
  BY <1>1 DEF Submit
<1>2. ASSUME NEW t \in Tasks, Release(t)
      PROVE  TypeInv'
  <2>1. bus_activity' \in [Buses -> BOOLEAN]
    BY <1>2, SetBusType DEF Release, FreeSlot
  <2> QED
    BY <1>2, <2>1 DEF Release, FreeSlot
<1>4. CASE CallNext
  BY <1>4 DEF CallNext
<1>5. CASE Dispatch
  <2>1. PICK i \in EligibleIndices :
          /\ disk_queue' = Splice(i)
          /\ SetBus(disk_queue[i], TRUE)
          /\ running' = running \cup {disk_queue[i]}
          /\ yielded' = Append(yielded, disk_queue[i])
    BY <1>5 DEF Dispatch
  <2>2. i \in DOMAIN disk_queue /\ disk_queue[i] \in Tasks
    BY <2>1, ElementOfSeq, LenProperties DEF EligibleIndices
  <2>3. disk_queue' \in Seq(Tasks)
    BY <2>1, <2>2, RemoveAtProperties DEF Splice
  <2>4. bus_activity' \in [Buses -> BOOLEAN]
    BY <2>1, <2>2, SetBusType
  <2>5. pending_next' \in 0 .. MaxPending
    BY <1>5 DEF Dispatch, Resumable, Requested
  <2> QED
    BY <1>5, <2>1, <2>2, <2>3, <2>4, <2>5 DEF Dispatch
<1>6. CASE WaitForSlot
  BY <1>6 DEF WaitForSlot, Resumable, Requested
<1>7. CASE Finish
  BY <1>7 DEF Finish, Resumable, Requested
<1>8. CASE AnswerDone
  BY <1>8 DEF AnswerDone, Requested
<1>9. CASE UNCHANGED vars
  BY <1>9 DEF vars
<1> QED
  BY <1>1, <1>2, <1>4, <1>5, <1>6, <1>7, <1>8, <1>9 DEF Next, Resume

(* The variables keep their types.                                         *)
THEOREM TypeCorrect == Spec => []TypeOK
<1>1. TypeInv => TypeOK
  BY DEF TypeInv
<1> QED
  BY InitTypeInv, NextTypeInv, <1>1, PTL DEF Spec

-----------------------------------------------------------------------------
(* running stays a finite set: it only ever holds tasks.                   *)
LEMMA RunningFinite ==
    ASSUME TypeOK
    PROVE  IsFiniteSet(running) /\ Cardinality(running) \in Nat
BY SchedulerAssumption, FS_Subset, FS_CardinalityType DEF TypeOK

LEMMA PoolSize == max_workers \in Nat \ {0}
BY SchedulerAssumption DEF max_workers

(* Submit, CallNext and the turns of the loop that dispatch nothing leave  *)
(* workers and buses alone.                                                *)
LEMMA IdleStepKeepsIInv ==
    ASSUME IInv, TypeInv',
           UNCHANGED <<active_workers, bus_activity, running>>,
           \/ UNCHANGED <<disk_queue, submitted>>
           \/ \E t \in Tasks : Submit(t)
    PROVE  IInv'
<1>1. (QueueDistinct /\ Known)'
  <2>1. CASE UNCHANGED <<disk_queue, submitted>>
    BY <2>1 DEF IInv, QueueDistinct, Known
  <2>2. ASSUME NEW t \in Tasks, Submit(t)
        PROVE  (QueueDistinct /\ Known)'
    <3>1. \A i \in DOMAIN disk_queue : disk_queue[i] # t
      BY <2>2 DEF Submit, IInv, Known
    <3>2. t \notin running
      BY <2>2 DEF Submit, IInv, Known
    <3>3. /\ Len(disk_queue') = Len(disk_queue) + 1
          /\ disk_queue'[Len(disk_queue) + 1] = t
          /\ \A i \in DOMAIN disk_queue : disk_queue'[i] = disk_queue[i]
          /\ DOMAIN disk_queue' = DOMAIN disk_queue \cup {Len(disk_queue) + 1}
          /\ DOMAIN disk_queue = 1 .. Len(disk_queue)
      BY <2>2 DEF Submit, IInv, TypeInv, TypeOK
    <3>4. ToSet(submitted') = ToSet(submitted) \cup {t}
      <4>1. /\ submitted'[Len(submitted) + 1] = t
            /\ \A i \in DOMAIN submitted : submitted'[i] = submitted[i]
            /\ DOMAIN submitted' = DOMAIN submitted \cup {Len(submitted) + 1}
        BY <2>2 DEF Submit, IInv, TypeInv, TypeOK
      <4> QED
        BY <4>1 DEF ToSet
    <3>5. QueueDistinct'
      BY <3>1, <3>2, <3>3 DEF IInv, QueueDistinct
    <3>6. Known'
      BY <3>3, <3>4 DEF IInv, Known
    <3> QED
      BY <3>5, <3>6
  <2> QED
    BY <2>1, <2>2
<1>2. (BusFlagExact /\ BusExclusive /\ WorkerCountExact)'
  BY DEF IInv, BusFlagExact, BusExclusive, WorkerCountExact, max_workers, IsHdd
<1> QED
  BY <1>1, <1>2 DEF IInv

(* Dispatch takes one task out of the queue and one slot of the pool.      *)
LEMMA DispatchKeepsIInv ==
    ASSUME IInv, TypeInv', Dispatch
    PROVE  IInv'
<1> USE DEF IInv
<1>1. PICK i \in EligibleIndices :
        /\ disk_queue' = Splice(i)
        /\ SetBus(disk_queue[i], TRUE)
        /\ running' = running \cup {disk_queue[i]}
        /\ yielded' = Append(yielded, disk_queue[i])
  BY DEF Dispatch
<1> DEFINE t == disk_queue[i]
<1>2. i \in DOMAIN disk_queue /\ t \in Tasks /\ Eligible(t)
  BY <1>1, ElementOfSeq, LenProperties DEF EligibleIndices, TypeInv, TypeOK
<1>3. t \notin running
  BY <1>2 DEF QueueDistinct
<1>4. /\ DOMAIN disk_queue' = 1 .. Len(disk_queue) - 1
      /\ DOMAIN disk_queue = 1 .. Len(disk_queue)
      /\ Len(disk_queue) \in Nat
      /\ \A k \in 1 .. Len(disk_queue) - 1 :
           disk_queue'[k] = IF k < i THEN disk_queue[k] ELSE disk_queue[k + 1]
  BY <1>1, <1>2, RemoveAtProperties, LenProperties DEF Splice, TypeInv, TypeOK
<1> HIDE DEF t
<1>5. QueueDistinct'
  <2> DEFINE from(k) == IF k < i THEN k ELSE k + 1
  <2>1. \A k \in DOMAIN disk_queue' :
          /\ from(k) \in DOMAIN disk_queue
          /\ from(k) # i
          /\ disk_queue'[k] = disk_queue[from(k)]
    BY <1>2, <1>4
  <2>2. ASSUME NEW k \in DOMAIN disk_queue', NEW n \in DOMAIN disk_queue',
               from(k) = from(n)
        PROVE  k = n
    BY <1>2, <1>4, <2>2
  <2> HIDE DEF from
  <2>3. \A k, n \in DOMAIN disk_queue' :
          disk_queue'[k] = disk_queue'[n] => k = n
    BY <2>1, <2>2 DEF QueueDistinct
  <2>4. \A k \in DOMAIN disk_queue' : disk_queue'[k] \notin running'
    BY <1>1, <1>2, <2>1 DEF QueueDistinct, t
  <2> QED
    BY <2>3, <2>4 DEF QueueDistinct
<1>6. Known'
  BY <1>1, <1>2, <1>4 DEF Dispatch, Known, t
<1>7. BusFlagExact'
  <2>1. CASE IsHdd(t)
    <3>1. bus_activity' = [bus_activity EXCEPT ![BusOf[t]] = TRUE]
      BY <1>1, <2>1 DEF SetBus, t
    <3> QED
      BY <1>1, <1>2, <2>1, <3>1 DEF BusFlagExact, TypeInv, TypeOK, IsHdd, t
  <2>2. CASE ~IsHdd(t)
    <3>1. bus_activity' = bus_activity
      BY <1>1, <2>2 DEF SetBus, t
    <3> QED
      BY <1>1, <2>2, <3>1 DEF BusFlagExact, IsHdd, t
  <2> QED
    BY <2>1, <2>2
<1>8. BusExclusive'
  <2>1. ASSUME NEW u \in running, IsHdd(t), IsHdd(u)
        PROVE  BusOf[t] # BusOf[u]
    <3>1. ~bus_activity[BusOf[t]]
      BY <1>2, <2>1 DEF Eligible
    <3>2. BusOf[t] \in Buses
      BY <1>2, SchedulerAssumption
    <3> QED
      BY <2>1, <3>1, <3>2 DEF BusFlagExact
  <2> QED
    BY <1>1, <2>1 DEF BusExclusive, IsHdd, t
<1>9. WorkerCountExact'
  <2>1. Cardinality(running') = Cardinality(running) + 1
    BY <1>1, <1>3, RunningFinite, FS_AddElement DEF TypeInv, t
  <2>2. active_workers' = active_workers + 1 /\ active_workers < max_workers
    BY DEF Dispatch, SlotFree
  <2> QED
    BY <2>1, <2>2, RunningFinite, PoolSize
    DEF WorkerCountExact, TypeInv, max_workers
<1> QED
  BY <1>5, <1>6, <1>7, <1>8, <1>9

(* Release gives back exactly the slot and the bus its task took.          *)
LEMMA ReleaseKeepsIInv ==
    ASSUME IInv, TypeInv', NEW t \in Tasks, Release(t)
    PROVE  IInv'
<1> USE DEF IInv
<1>1. t \in running /\ running' = running \ {t} /\ SetBus(t, FALSE)
  BY DEF Release, FreeSlot
<1>2. QueueDistinct' /\ Known'
  BY <1>1 DEF Release, QueueDistinct, Known
<1>3. BusExclusive'
  BY <1>1 DEF BusExclusive, IsHdd
<1>4. BusFlagExact'
  <2>1. CASE IsHdd(t)
    <3>1. bus_activity' = [bus_activity EXCEPT ![BusOf[t]] = FALSE]
      BY <1>1, <2>1 DEF SetBus
    <3>2. \A u \in running' : IsHdd(u) => BusOf[u] # BusOf[t]
      BY <1>1, <2>1 DEF BusExclusive
    <3> QED
      BY <1>1, <2>1, <3>1, <3>2 DEF BusFlagExact, TypeInv, TypeOK, IsHdd
  <2>2. CASE ~IsHdd(t)
    <3>1. bus_activity' = bus_activity
      BY <1>1, <2>2 DEF SetBus
    <3> QED
      BY <1>1, <2>2, <3>1 DEF BusFlagExact, IsHdd
  <2> QED
    BY <2>1, <2>2
<1>5. WorkerCountExact'
  <2>1. Cardinality(running') = Cardinality(running) - 1
    BY <1>1, RunningFinite, FS_RemoveElement DEF TypeInv
  <2>2. active_workers' = active_workers - 1
    BY DEF Release, FreeSlot
  <2> QED
    BY <2>1, <2>2, RunningFinite, PoolSize
    DEF WorkerCountExact, TypeInv, TypeOK, max_workers
<1> QED
  BY <1>2, <1>3, <1>4, <1>5

-----------------------------------------------------------------------------
LEMMA InitIInv == Init => IInv
<1> SUFFICES ASSUME Init
             PROVE  IInv
  OBVIOUS
<1>1. TypeInv
  BY InitTypeInv
<1>2. QueueDistinct /\ Known /\ BusFlagExact /\ BusExclusive
  BY DEF Init, QueueDistinct, Known, BusFlagExact, BusExclusive
<1>3. WorkerCountExact
  BY FS_EmptySet, PoolSize DEF Init, WorkerCountExact
<1> QED
  BY <1>1, <1>2, <1>3 DEF IInv

LEMMA NextIInv == IInv /\ [Next]_vars => IInv'
<1> SUFFICES ASSUME IInv, [Next]_vars
             PROVE  IInv'
  OBVIOUS
<1>1. TypeInv'
  BY NextTypeInv DEF IInv
<1>2. ASSUME NEW t \in Tasks, Submit(t)
      PROVE  IInv'
  BY <1>1, <1>2, IdleStepKeepsIInv DEF Submit
<1>3. ASSUME NEW t \in Tasks, Release(t)
      PROVE  IInv'
  BY <1>1, <1>3, ReleaseKeepsIInv
<1>5. CASE Dispatch
  BY <1>1, <1>5, DispatchKeepsIInv
<1>6. CASE CallNext \/ WaitForSlot \/ Finish \/ AnswerDone \/ UNCHANGED vars
  BY <1>1, <1>6, IdleStepKeepsIInv
  DEF CallNext, WaitForSlot, Finish, AnswerDone, vars
<1> QED
  BY <1>2, <1>3, <1>5, <1>6 DEF Next, Resume

THEOREM Invariance == Spec => []IInv
BY InitIInv, NextIInv, PTL DEF Spec

(* Two HDD tasks of a bus never run together.                              *)
THEOREM BusExclusion == Spec => []BusExclusive
<1>1. IInv => BusExclusive
  BY DEF IInv
<1> QED
  BY Invariance, <1>1, PTL

(* The worker count is the number of workers that have not released, and   *)
(* stays within the pool; a bus is marked busy exactly while it is held.   *)
THEOREM SlotsAndFlagsExact == Spec => []AccountingExact
<1>1. IInv => AccountingExact
  BY DEF IInv, AccountingExact
<1> QED
  BY Invariance, <1>1, PTL

(* The generator returns only when its queue is empty and no worker is     *)
(* out: the exact count is what makes the loop condition mean that.        *)
THEOREM EndsDrained == Spec => EndsOnlyWhenDrained
<1>1. ASSUME IInv, [Next]_vars, gen' = "done", gen # "done"
      PROVE  disk_queue = <<>> /\ running = {}
  <2>1. Finish
    BY <1>1 DEF Next, Resume, Submit, Release, CallNext,
                Dispatch, WaitForSlot, AnswerDone, vars
  <2>2. Len(disk_queue) <= 0 /\ active_workers <= 0
    BY <1>1, <2>1 DEF Finish, LoopCondition, IInv, TypeInv, TypeOK
  <2>3. disk_queue = <<>>
    BY <1>1, <2>2, LenProperties DEF IInv, TypeInv, TypeOK
  <2>4. Cardinality(running) = 0
    BY <1>1, <2>2, RunningFinite DEF IInv, TypeInv, WorkerCountExact
  <2>5. running = {}
    BY <1>1, <2>4, RunningFinite, FS_EmptySet DEF IInv, TypeInv
  <2> QED
    BY <2>3, <2>5
<1>2. IInv /\ [Next]_vars
      => [gen' = "done" /\ gen # "done" => disk_queue = <<>> /\ running = {}]_vars
  BY <1>1
<1> QED
  BY Invariance, <1>2, PTL DEF Spec, EndsOnlyWhenDrained

-----------------------------------------------------------------------------
(* What pushing and splicing do to the set of queued tasks.                *)
LEMMA SubmitWaiting ==
    ASSUME TypeOK, NEW t \in Tasks, Submit(t)
    PROVE  ToSet(disk_queue') = ToSet(disk_queue) \cup {t}
<1>1. /\ disk_queue'[Len(disk_queue) + 1] = t
      /\ \A i \in DOMAIN disk_queue : disk_queue'[i] = disk_queue[i]
      /\ DOMAIN disk_queue' = DOMAIN disk_queue \cup {Len(disk_queue) + 1}
  BY DEF Submit, TypeOK
<1> QED
  BY <1>1 DEF ToSet

LEMMA SpliceWaiting ==
    ASSUME TypeOK, QueueDistinct, NEW i \in DOMAIN disk_queue
    PROVE  ToSet(Splice(i)) = ToSet(disk_queue) \ {disk_queue[i]}
<1> DEFINE q == Splice(i)
<1>1. /\ DOMAIN q = 1 .. Len(disk_queue) - 1
      /\ DOMAIN disk_queue = 1 .. Len(disk_queue)
      /\ Len(disk_queue) \in Nat
      /\ \A k \in 1 .. Len(disk_queue) - 1 :
           q[k] = IF k < i THEN disk_queue[k] ELSE disk_queue[k + 1]
  BY RemoveAtProperties, LenProperties DEF Splice, TypeOK
<1> HIDE DEF q
<1>2. ASSUME NEW k \in DOMAIN q
      PROVE  q[k] \in ToSet(disk_queue) \ {disk_queue[i]}
  BY <1>1 DEF QueueDistinct, ToSet
<1>3. ASSUME NEW m \in DOMAIN disk_queue, m # i
      PROVE  \E k \in DOMAIN q : q[k] = disk_queue[m]
  <2>1. CASE m < i
    BY <1>1, <2>1
  <2>2. CASE m > i
    <3>1. m - 1 \in DOMAIN q /\ ~(m - 1 < i) /\ (m - 1) + 1 = m
      BY <1>1, <2>2
    <3> QED
      BY <1>1, <3>1
  <2> QED
    BY <1>1, <1>3, <2>1, <2>2
<1> QED
  BY <1>2, <1>3 DEF ToSet, q

-----------------------------------------------------------------------------
(* Order: the invariant behind FifoPerBus.  A task is pushed once.         *)
SubmittedOnce ==
    \A i, j \in DOMAIN submitted : submitted[i] = submitted[j] => i = j

(* What was pushed is queued or was yielded, and not both. *)
Accounted ==
    /\ ToSet(submitted) \subseteq ToSet(disk_queue) \cup ToSet(yielded)
    /\ \A i \in DOMAIN disk_queue : disk_queue[i] \notin ToSet(yielded)

QueueInOrder ==
    \A i, j \in DOMAIN disk_queue :
        i < j => Before(disk_queue[i], disk_queue[j], submitted)

(* The queue keeps the order of the pushes, so that the first task that    *)
(* findIndex finds has none of its lane before it, neither in the queue    *)
(* nor, since nothing is lost, anywhere else but among the yielded ones.   *)
OrderInv == SubmittedOnce /\ Accounted /\ QueueInOrder /\ FifoPerBus

(* Appending puts the new element behind all others and moves none.        *)
LEMMA BeforeInAppend ==
    ASSUME NEW s \in Seq(Tasks), NEW x \in Tasks, NEW t, NEW u
    PROVE  Before(t, u, Append(s, x)) <=> Before(t, u, s) \/ (u = x /\ t \in ToSet(s))
<1> DEFINE a == Append(s, x)
<1>1. /\ DOMAIN s = 1 .. Len(s) /\ Len(s) \in Nat
      /\ DOMAIN a = 1 .. Len(s) + 1
      /\ a[Len(s) + 1] = x
      /\ \A i \in 1 .. Len(s) : a[i] = s[i]
  OBVIOUS
<1> HIDE DEF a
<1>2. ASSUME Before(t, u, a)
      PROVE  Before(t, u, s) \/ (u = x /\ t \in ToSet(s))
  <2>1. PICK i, j \in DOMAIN a : i < j /\ a[i] = t /\ a[j] = u
    BY <1>2 DEF Before
  <2>2. i \in DOMAIN s /\ s[i] = t
    BY <1>1, <2>1
  <2>3. CASE j = Len(s) + 1
    BY <1>1, <2>1, <2>2, <2>3 DEF ToSet
  <2>4. CASE j # Len(s) + 1
    BY <1>1, <2>1, <2>2, <2>4 DEF Before
  <2> QED
    BY <2>3, <2>4
<1>3. ASSUME Before(t, u, s)
      PROVE  Before(t, u, a)
  BY <1>1, <1>3 DEF Before
<1>4. ASSUME u = x, t \in ToSet(s)
      PROVE  Before(t, u, a)
  <2>1. PICK i \in DOMAIN s : s[i] = t
    BY <1>4 DEF ToSet
  <2>2. i \in DOMAIN a /\ Len(s) + 1 \in DOMAIN a /\ i < Len(s) + 1
    BY <1>1
  <2> QED
    BY <1>1, <1>4, <2>1, <2>2 DEF Before
<1> QED
  BY <1>2, <1>3, <1>4 DEF a

LEMMA ToSetAppend ==
    ASSUME NEW s \in Seq(Tasks), NEW x \in Tasks
    PROVE  ToSet(Append(s, x)) = ToSet(s) \cup {x}
<1> DEFINE a == Append(s, x)
<1>1. /\ DOMAIN s = 1 .. Len(s) /\ Len(s) \in Nat
      /\ DOMAIN a = 1 .. Len(s) + 1
      /\ a[Len(s) + 1] = x
      /\ \A i \in 1 .. Len(s) : a[i] = s[i]
  OBVIOUS
<1> HIDE DEF a
<1>2. DOMAIN a = DOMAIN s \cup {Len(s) + 1}
  BY <1>1
<1>3. ToSet(a) = ToSet(s) \cup {x}
  BY <1>1, <1>2 DEF ToSet
<1> QED
  BY <1>3 DEF a

(* In a sequence without repetitions no two elements precede each other.   *)
LEMMA BeforeAsymmetric ==
    ASSUME TypeOK, SubmittedOnce, NEW t, NEW u, Before(t, u, submitted)
    PROVE  t # u /\ ~Before(u, t, submitted)
<1>1. DOMAIN submitted \subseteq Int
  BY LenProperties DEF TypeOK
<1> QED
  BY <1>1 DEF Before, SubmittedOnce

LEMMA SubmitKeepsOrder ==
    ASSUME IInv, OrderInv, NEW t \in Tasks, Submit(t)
    PROVE  OrderInv'
<1> USE DEF IInv, TypeInv, OrderInv
<1>1. /\ submitted \in Seq(Tasks) /\ disk_queue \in Seq(Tasks)
      /\ submitted' = Append(submitted, t)
      /\ disk_queue' = Append(disk_queue, t)
      /\ yielded' = yielded
      /\ t \notin ToSet(submitted)
  BY DEF Submit, TypeOK
<1>2. /\ ToSet(submitted') = ToSet(submitted) \cup {t}
      /\ ToSet(disk_queue') = ToSet(disk_queue) \cup {t}
  BY <1>1, ToSetAppend
<1>3. \A a, b : Before(a, b, submitted')
                  <=> Before(a, b, submitted) \/ (b = t /\ a \in ToSet(submitted))
  BY <1>1, BeforeInAppend
<1>4. t \notin ToSet(yielded)
  BY <1>1 DEF FifoPerBus, YieldedOnce
<1>5. SubmittedOnce'
  <2>1. /\ DOMAIN submitted = 1 .. Len(submitted) /\ Len(submitted) \in Nat
        /\ DOMAIN submitted' = 1 .. Len(submitted) + 1
        /\ submitted'[Len(submitted) + 1] = t
        /\ \A i \in 1 .. Len(submitted) : submitted'[i] = submitted[i]
    BY <1>1
  <2>2. \A i \in 1 .. Len(submitted) : submitted[i] # t
    BY <1>1, <2>1 DEF ToSet
  <2> QED
    BY <2>1, <2>2 DEF SubmittedOnce
<1>6. /\ DOMAIN disk_queue = 1 .. Len(disk_queue) /\ Len(disk_queue) \in Nat
      /\ DOMAIN disk_queue' = 1 .. Len(disk_queue) + 1
      /\ disk_queue'[Len(disk_queue) + 1] = t
      /\ \A i \in 1 .. Len(disk_queue) : disk_queue'[i] = disk_queue[i]
  BY <1>1
<1>7. Accounted'
  <2>1. \A i \in DOMAIN disk_queue' : disk_queue'[i] \notin ToSet(yielded)
    BY <1>4, <1>6 DEF Accounted
  <2> QED
    BY <1>1, <1>2, <2>1 DEF Accounted
<1>8. QueueInOrder'
  <2>1. ASSUME NEW i \in DOMAIN disk_queue', NEW j \in DOMAIN disk_queue', i < j
        PROVE  Before(disk_queue'[i], disk_queue'[j], submitted')
    <3>1. i \in DOMAIN disk_queue /\ disk_queue'[i] = disk_queue[i]
      BY <1>6, <2>1
    <3>2. CASE j = Len(disk_queue) + 1
      BY <1>3, <1>6, <3>1, <3>2 DEF Known
    <3>3. CASE j # Len(disk_queue) + 1
      <4>1. j \in DOMAIN disk_queue /\ disk_queue'[j] = disk_queue[j]
        BY <1>6, <3>3
      <4> QED
        BY <1>3, <2>1, <3>1, <4>1 DEF QueueInOrder
    <3> QED
      BY <3>2, <3>3
  <2> QED
    BY <2>1 DEF QueueInOrder
<1>9. YieldedOnce'
  BY <1>1, <1>2 DEF FifoPerBus, YieldedOnce
<1>10. LaneOrder'
  BY <1>1, <1>3, <1>4 DEF FifoPerBus, LaneOrder, SameLane, IsHdd
<1> QED
  BY <1>5, <1>7, <1>8, <1>9, <1>10 DEF FifoPerBus

(* findIndex finds the first task that may run, so that all tasks of its   *)
(* lane that were pushed before it have been yielded.                      *)
LEMMA DispatchKeepsOrder ==
    ASSUME IInv, OrderInv, Dispatch
    PROVE  OrderInv'
<1> USE DEF IInv, TypeInv, OrderInv
<1>1. PICK i \in EligibleIndices :
        /\ IsFirstEligible(i)
        /\ disk_queue' = Splice(i)
        /\ yielded' = Append(yielded, disk_queue[i])
  BY DEF Dispatch
<1> DEFINE t == disk_queue[i]
<1>2. i \in DOMAIN disk_queue /\ t \in Tasks /\ Eligible(t)
  BY <1>1, ElementOfSeq, LenProperties DEF EligibleIndices, TypeOK
<1>3. /\ DOMAIN disk_queue' = 1 .. Len(disk_queue) - 1
      /\ DOMAIN disk_queue = 1 .. Len(disk_queue)
      /\ Len(disk_queue) \in Nat
      /\ \A k \in 1 .. Len(disk_queue) - 1 :
           disk_queue'[k] = IF k < i THEN disk_queue[k] ELSE disk_queue[k + 1]
  BY <1>1, <1>2, RemoveAtProperties, LenProperties DEF Splice, TypeOK
<1>4. submitted' = submitted
  BY DEF Dispatch
<1>5. t \notin ToSet(yielded) /\ t \in ToSet(submitted)
  BY <1>2 DEF Accounted, Known
<1> HIDE DEF t
<1>6. yielded \in Seq(Tasks) /\ yielded' = Append(yielded, t)
  BY <1>1 DEF t, TypeOK
<1>7. ToSet(yielded') = ToSet(yielded) \cup {t}
  BY <1>2, <1>6, ToSetAppend
<1>8. ToSet(disk_queue') = ToSet(disk_queue) \ {t}
  BY <1>1, <1>2, SpliceWaiting DEF t
<1>9. \A k \in DOMAIN disk_queue' : disk_queue'[k] \in ToSet(disk_queue')
  BY DEF ToSet
<1>10. Accounted'
  <2>1. \A k \in DOMAIN disk_queue : disk_queue[k] \notin ToSet(yielded)
    BY DEF Accounted
  <2>2. \A x \in ToSet(disk_queue) : x \notin ToSet(yielded)
    BY <2>1 DEF ToSet
  <2> QED
    BY <1>4, <1>7, <1>8, <1>9, <2>2 DEF Accounted
<1>11. SubmittedOnce'
  BY <1>4 DEF SubmittedOnce
<1>12. QueueInOrder'
  <2> DEFINE from(k) == IF k < i THEN k ELSE k + 1
  <2>1. \A k \in DOMAIN disk_queue' :
          from(k) \in DOMAIN disk_queue /\ disk_queue'[k] = disk_queue[from(k)]
    BY <1>2, <1>3
  <2>2. \A k, n \in DOMAIN disk_queue' : k < n => from(k) < from(n)
    BY <1>2, <1>3
  <2> HIDE DEF from
  <2> QED
    BY <1>4, <2>1, <2>2 DEF QueueInOrder
<1>13. YieldedOnce'
  <2>1. /\ DOMAIN yielded = 1 .. Len(yielded) /\ Len(yielded) \in Nat
        /\ DOMAIN yielded' = 1 .. Len(yielded) + 1
        /\ yielded'[Len(yielded) + 1] = t
        /\ \A k \in 1 .. Len(yielded) : yielded'[k] = yielded[k]
    BY <1>2, <1>6
  <2>2. \A k \in 1 .. Len(yielded) : yielded[k] # t
    BY <1>5, <2>1 DEF ToSet
  <2>3. \A k, n \in DOMAIN yielded' : yielded'[k] = yielded'[n] => k = n
    BY <2>1, <2>2 DEF FifoPerBus, YieldedOnce
  <2> QED
    BY <1>4, <1>5, <1>7, <2>3 DEF FifoPerBus, YieldedOnce
<1>14. ASSUME NEW a \in Tasks, SameLane(a, t), Before(a, t, submitted)
       PROVE  a \in ToSet(yielded)
  <2>1. a # t /\ ~Before(t, a, submitted)
    BY <1>14, BeforeAsymmetric
  <2>2. a \in ToSet(submitted)
    BY <1>14 DEF Before, ToSet
  <2>3. ASSUME NEW k \in DOMAIN disk_queue, disk_queue[k] = a
        PROVE  FALSE
    <3>1. k < i \/ k = i \/ i < k
      BY <1>2, <1>3
    <3>2. k < i
      BY <1>2, <2>1, <2>3, <3>1 DEF QueueInOrder, t
    <3>3. Eligible(a)
      BY <1>2, <1>14 DEF Eligible, SameLane
    <3>4. k \in EligibleIndices
      BY <2>3, <3>3 DEF EligibleIndices
    <3> QED
      BY <1>1, <1>2, <1>3, <3>2, <3>4 DEF IsFirstEligible
  <2> QED
    BY <2>2, <2>3 DEF Accounted, ToSet
<1>15. LaneOrder'
  <2>1. \A a, b : Before(a, b, yielded')
                  <=> Before(a, b, yielded) \/ (b = t /\ a \in ToSet(yielded))
    BY <1>2, <1>6, BeforeInAppend
  <2>2. ASSUME NEW a \in Tasks, NEW b \in Tasks, SameLane(a, b),
               Before(a, b, submitted), b \in ToSet(yielded')
        PROVE  Before(a, b, yielded')
    <3>1. CASE b = t
      BY <1>14, <2>1, <2>2, <3>1
    <3>2. CASE b \in ToSet(yielded)
      BY <2>1, <2>2, <3>2 DEF FifoPerBus, LaneOrder
    <3> QED
      BY <1>7, <2>2, <3>1, <3>2
  <2> QED
    BY <1>4, <2>2 DEF LaneOrder, SameLane, IsHdd
<1> QED
  BY <1>10, <1>11, <1>12, <1>13, <1>15 DEF FifoPerBus

LEMMA NextOrder == IInv /\ OrderInv /\ [Next]_vars => OrderInv'
<1> SUFFICES ASSUME IInv, OrderInv, [Next]_vars
             PROVE  OrderInv'
  OBVIOUS
<1>1. ASSUME NEW t \in Tasks, Submit(t)
      PROVE  OrderInv'
  BY <1>1, SubmitKeepsOrder
<1>2. CASE Dispatch
  BY <1>2, DispatchKeepsOrder
<1>3. CASE UNCHANGED <<disk_queue, submitted, yielded>>
  BY <1>3 DEF OrderInv, SubmittedOnce, Accounted, QueueInOrder, FifoPerBus,
              YieldedOnce, LaneOrder, Before, SameLane, IsHdd
<1> QED
  BY <1>1, <1>2, <1>3
  DEF Next, Resume, Release, CallNext, WaitForSlot, Finish, AnswerDone, vars

(* The HDD tasks of a bus leave in the order they came, and so do the      *)
(* tasks that need no bus; none is yielded twice.                          *)
THEOREM FifoKept == Spec => []FifoPerBus
<1>1. Init => OrderInv
  BY DEF Init, OrderInv, SubmittedOnce, Accounted, QueueInOrder, FifoPerBus,
         YieldedOnce, LaneOrder, ToSet
<1>2. OrderInv => FifoPerBus
  BY DEF OrderInv
<1> QED
  BY Invariance, NextOrder, <1>1, <1>2, PTL DEF Spec

-----------------------------------------------------------------------------
(* Every step of the scheduler is a step of the pool, or changes nothing   *)
(* the pool can see.                                                       *)
LEMMA StepRefines ==
    ASSUME IInv, [Next]_vars
    PROVE  [Pool!Next]_(Pool!vars)
<1> USE DEF IInv, TypeInv
<1>1. ASSUME NEW t \in Tasks, Submit(t)
      PROVE  Pool!Arrive(t)
  <2>1. t \notin ToSet(disk_queue) \cup running
    BY <1>1 DEF Submit, Known, ToSet
  <2> QED
    BY <1>1, <2>1, SubmitWaiting DEF Submit, Pool!Arrive
<1>2. ASSUME NEW t \in Tasks, Release(t)
      PROVE  Pool!Finish(t)
  BY <1>2 DEF Release, Pool!Finish
<1>4. ASSUME Dispatch
      PROVE  \E t \in Tasks : Pool!Start(t)
  <2>1. PICK i \in EligibleIndices :
          /\ disk_queue' = Splice(i)
          /\ running' = running \cup {disk_queue[i]}
    BY <1>4 DEF Dispatch
  <2> DEFINE t == disk_queue[i]
  <2>2. i \in DOMAIN disk_queue /\ t \in Tasks /\ Eligible(t)
    BY <2>1, ElementOfSeq, LenProperties DEF EligibleIndices, TypeOK
  <2>3. t \in ToSet(disk_queue)
    BY <2>2 DEF ToSet
  <2>4. Pool!Cardinality(running) < max_workers
    <3>1. Cardinality(running) < max_workers
      BY <1>4 DEF Dispatch, SlotFree, WorkerCountExact
    <3>2. Pool!Cardinality(running) = Cardinality(running)
      BY DEF Cardinality, Pool!Cardinality
    <3> QED
      BY <3>1, <3>2
  <2>5. ASSUME NEW u \in running
        PROVE  ~Pool!Conflicts(t, u)
    <3>1. CASE IsHdd(t) /\ IsHdd(u)
      <4>1. ~bus_activity[BusOf[t]] /\ BusOf[t] \in Buses
        BY <2>2, <3>1, SchedulerAssumption DEF Eligible
      <4> QED
        BY <3>1, <4>1 DEF BusFlagExact, Pool!Conflicts
    <3>2. CASE ~(IsHdd(t) /\ IsHdd(u))
      BY <3>2 DEF Pool!Conflicts
    <3> QED
      BY <3>1, <3>2
  <2>6. ToSet(disk_queue') = ToSet(disk_queue) \ {t}
    BY <2>1, <2>2, SpliceWaiting
  <2>7. running' = running \cup {t}
    BY <2>1
  <2> HIDE DEF t
  <2>8. Pool!Start(t)
    BY <2>3, <2>4, <2>5, <2>6, <2>7 DEF Pool!Start
  <2> QED
    BY <2>2, <2>8
<1>5. CASE CallNext \/ WaitForSlot \/ Finish \/ AnswerDone \/ UNCHANGED vars
  BY <1>5 DEF CallNext, WaitForSlot, Finish, AnswerDone, vars, Pool!vars
<1> QED
  BY <1>1, <1>2, <1>4, <1>5 DEF Next, Resume, Pool!Next

(* The scheduler implements the worker pool that shares no HDD bus.        *)
THEOREM SchedulerImplementsPool == Spec => ImplementsPool
<1>1. Init => Pool!Init
  BY DEF Init, Pool!Init, ToSet
<1>2. IInv /\ [Next]_vars => [Pool!Next]_(Pool!vars)
  BY StepRefines
<1> QED
  BY Invariance, <1>1, <1>2, PTL DEF Spec, ImplementsPool, Pool!Spec
=============================================================================
