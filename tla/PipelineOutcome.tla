--------------------------- MODULE PipelineOutcome ---------------------------
(***************************************************************************)
(* What operation_run_pipeline (lib/internal/op/libcd_operation.mjs)       *)
(* promises of each pipeline, without its retries, pauses and checks: the  *)
(* steps take effect one after the other, each once, and the pipeline is   *)
(* done only when all of them have; it may fail at any time, and what it   *)
(* committed by then stays committed.                                      *)
(***************************************************************************)
EXTENDS Integers

CONSTANTS Pipelines, StepsOf

VARIABLES committed,  \* per pipeline, how many of its steps took effect
          outcome     \* per pipeline, "running", "done" or "failed"

vars == <<committed, outcome>>

Init == /\ committed = [p \in Pipelines |-> 0]
        /\ outcome = [p \in Pipelines |-> "running"]

(* A step of p takes effect, and p may end with it. *)
Commit(p) ==
    /\ outcome[p] = "running"
    /\ committed[p] < StepsOf[p]
    /\ committed' = [committed EXCEPT ![p] = @ + 1]
    /\ \E result \in {"running", "done", "failed"} :
         /\ result = "done" => committed'[p] = StepsOf[p]
         /\ outcome' = [outcome EXCEPT ![p] = result]

(* p ends between two steps. *)
End(p) ==
    /\ outcome[p] = "running"
    /\ \E result \in {"done", "failed"} :
         /\ result = "done" => committed[p] = StepsOf[p]
         /\ outcome' = [outcome EXCEPT ![p] = result]
    /\ UNCHANGED committed

Next == \E p \in Pipelines : Commit(p) \/ End(p)

Spec == Init /\ [][Next]_vars
=============================================================================
