---------------------------- MODULE DiskScheduler ----------------------------
(***************************************************************************)
(* hardware_create_disk_scheduler (lib/hardware/libcd_disk_scheduler.0.mjs)*)
(* an async generator over a queue array it shares with its caller.  Each  *)
(* next() of the consumer runs the generator's loop until it yields a      *)
(* {task, release} pair or ends; while nothing can be dispatched the loop  *)
(* sleeps 100 ms and looks again.  The consumer starts a worker per pair   *)
(* without waiting for it, and a worker that ends calls release().         *)
(*                                                                         *)
(* Everything between two awaits is one step: the program is single        *)
(* threaded, so releases and pushes interleave only while the generator is *)
(* suspended at its yield or asleep.                                       *)
(***************************************************************************)
EXTENDS Integers, FiniteSets, SequencesExt

CONSTANTS
    Tasks,             \* task objects the caller may push
    Buses,             \* bus ids
    BusOf,             \* task.bus_id
    TypeOf,            \* task.type
    MaxWorkersOption,  \* options.max_workers, 0 when absent
    MaxPending,        \* bound: next() calls outstanding at once
    Stuck              \* tasks whose worker may never call release()

ASSUME SchedulerAssumption ==
    /\ IsFiniteSet(Tasks)
    /\ BusOf \in [Tasks -> Buses]
    /\ TypeOf \in [Tasks -> STRING]
    /\ MaxWorkersOption \in Nat
    /\ MaxPending \in Nat \ {0}
    /\ Stuck \subseteq Tasks

VARIABLES
    disk_queue,      \* the caller's array, spliced by the generator
    active_workers,
    bus_activity,    \* Map bus_id -> boolean, absent read as FALSE
    gen,             \* "suspended" at its start or its yield, "sleeping", "done"
    pending_next,    \* next() calls not answered yet
    running,         \* tasks yielded whose release() has not been called
    submitted,       \* history: tasks in the order they were pushed
    yielded          \* history: tasks in the order they were yielded

vars == <<disk_queue, active_workers, bus_activity, gen, pending_next,
          running, submitted, yielded>>

-----------------------------------------------------------------------------
max_workers == IF MaxWorkersOption = 0 THEN 4 ELSE MaxWorkersOption

IsHdd(t) == TypeOf[t] = "HDD"

(* The predicate of findIndex: an HDD task waits while its bus is taken.   *)
Bug_EligibleAlways(t) == TRUE
Eligible(t) == IsHdd(t) => ~bus_activity[BusOf[t]]

Bug_EligibleHeadOnly == {i \in {1} \cap DOMAIN disk_queue : Eligible(disk_queue[i])}
EligibleIndices == {i \in DOMAIN disk_queue : Eligible(disk_queue[i])}

(* The index findIndex returns. *)
Bug_IsLastEligible(i) == /\ i \in EligibleIndices
                         /\ \A j \in EligibleIndices : j <= i
IsFirstEligible(i) == /\ i \in EligibleIndices
                      /\ \A j \in EligibleIndices : i <= j

Bug_Shift(i) == Tail(disk_queue)
Splice(i) == RemoveAt(disk_queue, i)

SlotFree == active_workers < max_workers

Bug_LoopWhileQueued == Len(disk_queue) > 0
LoopCondition == Len(disk_queue) > 0 \/ active_workers > 0

(* A next() call waits for an answer. *)
Requested == pending_next > 0

(* The generator runs: a next() resumes it, or its 100 ms timer fires.     *)
Resumable == \/ gen = "suspended" /\ Requested
             \/ gen = "sleeping"

Bug_SetBusAnyType(t, taken) == bus_activity' = [bus_activity EXCEPT ![BusOf[t]] = taken]
SetBus(t, taken) == bus_activity' = IF IsHdd(t)
                                    THEN [bus_activity EXCEPT ![BusOf[t]] = taken]
                                    ELSE bus_activity

(* The body of the release() closure of t. *)
Bug_FreeSlotHddOnly(t) ==
    /\ active_workers' = IF IsHdd(t) THEN active_workers - 1 ELSE active_workers
    /\ SetBus(t, FALSE)
FreeSlot(t) ==
    /\ active_workers' = active_workers - 1
    /\ SetBus(t, FALSE)

-----------------------------------------------------------------------------
Init ==
    /\ disk_queue = <<>>
    /\ active_workers = 0
    /\ bus_activity = [b \in Buses |-> FALSE]
    /\ gen = "suspended"
    /\ pending_next = 0
    /\ running = {}
    /\ submitted = <<>>
    /\ yielded = <<>>

(* The caller pushes a task, before the generator starts, while it works   *)
(* or after it ended.                                                      *)
Submit(t) ==
    /\ t \notin ToSet(submitted)
    /\ disk_queue' = Append(disk_queue, t)
    /\ submitted' = Append(submitted, t)
    /\ UNCHANGED <<active_workers, bus_activity, gen, pending_next, running,
                   yielded>>

(* The consumer asks for the next pair. *)
CallNext ==
    /\ pending_next < MaxPending
    /\ pending_next' = pending_next + 1
    /\ UNCHANGED <<disk_queue, active_workers, bus_activity, gen, running,
                   submitted, yielded>>

(* One turn of the loop that finds a task: splice it out, take the worker  *)
(* slot and the bus, yield.                                                *)
Dispatch ==
    /\ Resumable
    /\ LoopCondition
    /\ SlotFree
    /\ \E i \in EligibleIndices :
         /\ IsFirstEligible(i)
         /\ disk_queue' = Splice(i)
         /\ SetBus(disk_queue[i], TRUE)
         /\ running' = running \cup {disk_queue[i]}
         /\ yielded' = Append(yielded, disk_queue[i])
    /\ active_workers' = active_workers + 1
    /\ gen' = "suspended"
    /\ pending_next' = pending_next - 1
    /\ UNCHANGED submitted

(* One turn that finds nothing to dispatch, or no free slot: sleep again.  *)
WaitForSlot ==
    /\ Resumable
    /\ LoopCondition
    /\ ~SlotFree \/ EligibleIndices = {}
    /\ gen' = "sleeping"
    /\ UNCHANGED <<disk_queue, active_workers, bus_activity, pending_next,
                   running, submitted, yielded>>

(* The loop condition fails: the generator returns, answering the request. *)
Finish ==
    /\ Resumable
    /\ ~LoopCondition
    /\ gen' = "done"
    /\ pending_next' = pending_next - 1
    /\ UNCHANGED <<disk_queue, active_workers, bus_activity, running,
                   submitted, yielded>>

(* A next() on the ended generator is answered {done: true}.               *)
AnswerDone ==
    /\ gen = "done"
    /\ Requested
    /\ pending_next' = pending_next - 1
    /\ UNCHANGED <<disk_queue, active_workers, bus_activity, gen, running,
                   submitted, yielded>>

(* The worker of t ends and releases, once: the closure has no memory of   *)
(* its calls, and a second one would free what another worker holds.       *)
Release(t) ==
    /\ t \in running
    /\ FreeSlot(t)
    /\ running' = running \ {t}
    /\ UNCHANGED <<disk_queue, gen, pending_next, submitted, yielded>>

Resume == Dispatch \/ WaitForSlot \/ Finish \/ AnswerDone

Next ==
    \/ \E t \in Tasks : Submit(t) \/ Release(t)
    \/ CallNext
    \/ Resume

Spec == Init /\ [][Next]_vars

(* Timers fire and promises settle, the consumer keeps asking (for await), *)
(* and a worker that is not stuck ends.  Nothing makes the caller push.    *)
Fairness ==
    /\ WF_vars(Resume)
    /\ WF_vars(CallNext)
    /\ \A t \in Tasks \ Stuck : WF_vars(Release(t))

FairSpec == Spec /\ Fairness

-----------------------------------------------------------------------------
(* The variables hold values of their kinds; the queue array holds tasks.  *)
TypeOK ==
    /\ disk_queue \in Seq(Tasks)
    /\ active_workers \in Int
    /\ bus_activity \in [Buses -> BOOLEAN]
    /\ gen \in {"suspended", "sleeping", "done"}
    /\ pending_next \in 0 .. MaxPending
    /\ running \subseteq Tasks
    /\ submitted \in Seq(Tasks)
    /\ yielded \in Seq(Tasks)

(* "Avoiding bus contention on HDDs" (header of the scheduler): two HDD    *)
(* tasks of one bus are never in the hands of workers at the same time.    *)
BusExclusive ==
    \A t, u \in running :
        IsHdd(t) /\ IsHdd(u) /\ BusOf[t] = BusOf[u] => t = u

(* active_workers counts exactly the workers that have not released and    *)
(* stays within the pool, and a bus is marked busy exactly while an HDD    *)
(* worker holds it: no slot and no bus is leaked, none is given twice.     *)
WorkerCountExact ==
    /\ active_workers = Cardinality(running)
    /\ active_workers <= max_workers
BusFlagExact ==
    \A b \in Buses :
        bus_activity[b] <=> \E t \in running : IsHdd(t) /\ BusOf[t] = b
AccountingExact == WorkerCountExact /\ BusFlagExact

(* Skipping reorders only across buses: the HDD tasks of one bus are       *)
(* yielded in the order they were pushed, and so are the tasks that need   *)
(* no bus.  Whatever is yielded was pushed, and is yielded once.           *)
SameLane(t, u) == IF IsHdd(t) THEN IsHdd(u) /\ BusOf[t] = BusOf[u] ELSE ~IsHdd(u)
Before(t, u, s) == \E i, j \in DOMAIN s : i < j /\ s[i] = t /\ s[j] = u
YieldedOnce ==
    /\ ToSet(yielded) \subseteq ToSet(submitted)
    /\ \A i, j \in DOMAIN yielded : yielded[i] = yielded[j] => i = j
LaneOrder ==
    \A t, u \in Tasks :
        SameLane(t, u) /\ Before(t, u, submitted) /\ u \in ToSet(yielded)
            => Before(t, u, yielded)
FifoPerBus == YieldedOnce /\ LaneOrder

(* The generator ends only with an empty queue and every worker released:  *)
(* a worker may push follow-up tasks until its release() and they are      *)
(* still served.                                                           *)
EndsOnlyWhenDrained ==
    [][gen' = "done" /\ gen # "done" => disk_queue = <<>> /\ running = {}]_vars

(* A task pushed before the generator ended, and one whose worker cannot   *)
(* start because workers that never release hold its bus or every slot.    *)
Waiting(t) == t \in ToSet(disk_queue) /\ gen # "done"
Obstructed(t) == \/ Cardinality(Stuck) >= max_workers
                 \/ \E u \in Stuck : IsHdd(t) /\ IsHdd(u) /\ BusOf[t] = BusOf[u]

(* A worker that never releases blocks its own bus and its own slot only:  *)
(* every task of another bus is still dispatched while slots are left.     *)
HealthyTasksDispatched ==
    \A t \in Tasks : Waiting(t) /\ ~Obstructed(t) ~> t \in ToSet(yielded)

(* The consumer's loop ends: if no worker stays out forever, the generator *)
(* returns after every task was pushed.                                    *)
GeneratorEnds ==
    <>[](running \cap Stuck = {}) => (ToSet(submitted) = Tasks ~> gen = "done")

-----------------------------------------------------------------------------
(* The scheduler implements the pool of ExclusivePool: what is dispatched  *)
(* was waiting, and no task is lost or handed out twice on the way.        *)
Pool == INSTANCE ExclusivePool
            WITH Exclusive <- {t \in Tasks : IsHdd(t)},
                 MaxWorkers <- max_workers,
                 waiting <- ToSet(disk_queue)

ImplementsPool == Pool!Spec
=============================================================================
