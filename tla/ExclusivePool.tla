---------------------------- MODULE ExclusivePool ----------------------------
(***************************************************************************)
(* What libcd_disk_scheduler.0.mjs promises, without its queue, its        *)
(* generator protocol or its counters: a pool of workers in which at most  *)
(* MaxWorkers tasks run at once, and at most one of the tasks that need a  *)
(* bus for themselves runs on each bus.                                    *)
(***************************************************************************)
EXTENDS Integers, FiniteSets

CONSTANTS Tasks,       \* every task that may ever be handed to the pool
          Exclusive,   \* the tasks that may not share their bus
          BusOf,       \* the bus of each task
          MaxWorkers   \* how many tasks may run at once

VARIABLES waiting,     \* tasks handed in and not started
          running      \* tasks started and not finished

vars == <<waiting, running>>

Conflicts(t, u) == /\ t \in Exclusive
                   /\ u \in Exclusive
                   /\ BusOf[t] = BusOf[u]

Init == /\ waiting = {}
        /\ running = {}

Arrive(t) == /\ t \notin waiting \cup running
             /\ waiting' = waiting \cup {t}
             /\ UNCHANGED running

Start(t) == /\ t \in waiting
            /\ Cardinality(running) < MaxWorkers
            /\ \A u \in running : ~Conflicts(t, u)
            /\ waiting' = waiting \ {t}
            /\ running' = running \cup {t}

Finish(t) == /\ t \in running
             /\ running' = running \ {t}
             /\ UNCHANGED waiting

Next == \E t \in Tasks : Arrive(t) \/ Start(t) \/ Finish(t)

Spec == Init /\ [][Next]_vars
=============================================================================
