------------------------------ MODULE Operation ------------------------------
(***************************************************************************)
(* operation_run_pipeline (lib/internal/op/libcd_operation.mjs) and the    *)
(* lifecycle functions that run under it (lib/libcd_lifecycle.mjs).        *)
(* Several pipelines of one context interleave at their awaits: the body   *)
(* of a step, the backoff after a throw, the micro-pause between steps.    *)
(*                                                                         *)
(* `healthy` is what run_self_check would find: it walks the volumes and   *)
(* the node buffer of the whole process, so it may change at any await.    *)
(* Volume substitutes the volume registries for it.  How long backoffs and *)
(* pauses last is left out.                                                *)
(***************************************************************************)
EXTENDS Integers

CONSTANTS
    Pipelines,        \* calls of operation_run_pipeline
    StepsOf,          \* how many steps each of them composes
    MaxRetriesOption, \* its max_retries option or its context's, 0 when neither is set
    SelfChecking,     \* pipelines of lifecycle_house_keep: the step is a self check
    SkipPostCheck     \* pipelines with skip_post_check, or without a context

ASSUME OperationAssumption ==
    /\ StepsOf \in [Pipelines -> Nat]
    /\ MaxRetriesOption \in [Pipelines -> Nat]
    /\ SelfChecking \subseteq Pipelines
    /\ SkipPostCheck \subseteq Pipelines

VARIABLES
    op,      \* per pipeline, its program counter, locals and history
    healthy  \* whether run_self_check passes

vars == <<op, healthy>>

-----------------------------------------------------------------------------
max_retries(p) == IF MaxRetriesOption[p] = 0 THEN 3 ELSE MaxRetriesOption[p]

Exhausted(p, attempt) == attempt > max_retries(p)

(* The catch block, on the locals o of p. *)
Bug_ThrowUncounted(p, o) == [o EXCEPT !.pc = "backoff"]
Throw(p, o) ==
    IF Exhausted(p, o.attempt + 1)
    THEN [o EXCEPT !.attempt = @ + 1, !.pc = "failed", !.reason = "exhausted"]
    ELSE [o EXCEPT !.attempt = @ + 1, !.pc = "backoff"]

(* The history of calls need not be counted further than one too many. *)
Counted(p, n) == IF n > max_retries(p) + 1 THEN n ELSE n + 1

(* The step of house keeping throws when the self check does. *)
HouseKeepingFails(p) == p \in SelfChecking /\ ~healthy

(* step.call: a house-keeping step checks before its first await. *)
Bug_EnterRemembersFailure(p, o) ==
    LET called == [o EXCEPT !.tries[o.step] = Counted(p, @)]
    IN IF HouseKeepingFails(p) \/ (p \in SelfChecking /\ o.attempt > 0)
       THEN Throw(p, called)
       ELSE [called EXCEPT !.pc = "body"]
Enter(p, o) ==
    LET called == [o EXCEPT !.tries[o.step] = Counted(p, @)]
    IN IF HouseKeepingFails(p)
       THEN Throw(p, called)
       ELSE [called EXCEPT !.pc = "body"]

(* After the last step: the post-operation self check, outside the try.    *)
Conclude(p, o) ==
    IF p \in SkipPostCheck \/ healthy
    THEN [o EXCEPT !.pc = "done"]
    ELSE [o EXCEPT !.pc = "failed", !.reason = "post_check"]

Bug_KeepAttempt(o) == [o EXCEPT !.step = @ + 1]
NextStep(o) == [o EXCEPT !.step = @ + 1, !.attempt = 0]

Bug_LastStepEarly(p, o) == o.step >= StepsOf[p] - 1
IsLastStep(p, o) == o.step = StepsOf[p]

-----------------------------------------------------------------------------
Idle(p) == [pc |-> "idle", step |-> 0, attempt |-> 0, completed |-> 0,
            tries |-> [s \in 1 .. StepsOf[p] |-> 0], reason |-> "none"]

Init ==
    /\ op = [p \in Pipelines |-> Idle(p)]
    /\ healthy = TRUE

(* The call: the pre-operation check asserts nothing the program keeps     *)
(* (its assertions are empty or called without a volume), and the first    *)
(* step is called in the same turn.                                        *)
Begin(p) ==
    /\ op[p].pc = "idle"
    /\ op' = [op EXCEPT ![p] = IF StepsOf[p] = 0
                               THEN Conclude(p, @)
                               ELSE Enter(p, NextStep(@))]

BodySucceeds(p) ==
    /\ op[p].pc = "body"
    /\ LET o == [op[p] EXCEPT !.completed = @ + 1]
       IN op' = [op EXCEPT ![p] = IF IsLastStep(p, o)
                                  THEN Conclude(p, o)
                                  ELSE [o EXCEPT !.pc = "pause"]]

(* A step rejects; a house-keeping step that passed its check only sleeps. *)
BodyThrows(p) ==
    /\ op[p].pc = "body"
    /\ p \notin SelfChecking
    /\ op' = [op EXCEPT ![p] = Throw(p, @)]

BackoffEnds(p) ==
    /\ op[p].pc = "backoff"
    /\ op' = [op EXCEPT ![p] = Enter(p, @)]

PauseEnds(p) ==
    /\ op[p].pc = "pause"
    /\ op' = [op EXCEPT ![p] = Enter(p, NextStep(@))]

(* A volume or the buffer goes bad, or is repaired. *)
Drift == healthy' = ~healthy /\ UNCHANGED op

Turn(p) == BodySucceeds(p) \/ BodyThrows(p) \/ BackoffEnds(p) \/ PauseEnds(p)

Next == \/ \E p \in Pipelines : (Begin(p) \/ Turn(p)) /\ UNCHANGED healthy
        \/ Drift

Spec == Init /\ [][Next]_vars

(* Timers fire and every step settles. *)
FairSpec == Spec /\ \A p \in Pipelines : WF_op(Turn(p) /\ UNCHANGED healthy)

-----------------------------------------------------------------------------
PcOK == {"idle", "body", "backoff", "pause", "done", "failed"}

(* Program counters and locals are of their kinds: step and completed stay *)
(* within the pipeline's steps, attempt within its retries.                *)
TypeOK ==
    /\ healthy \in BOOLEAN
    /\ DOMAIN op = Pipelines
    /\ \A p \in Pipelines :
         op[p] \in [pc : PcOK,
                    step : 0 .. StepsOf[p],
                    attempt : 0 .. max_retries(p) + 1,
                    completed : 0 .. StepsOf[p],
                    tries : [1 .. StepsOf[p] -> Nat],
                    reason : {"none", "exhausted", "post_check"}]

(* Every step has the full budget of its own, however many retries the     *)
(* steps before it took: none is called more than max_retries + 1 times,   *)
(* and the pipeline gives a step up only after exactly that many calls.    *)
RetryBudget ==
    \A p \in Pipelines :
        /\ \A s \in 1 .. StepsOf[p] : op[p].tries[s] <= max_retries(p) + 1
        /\ op[p].reason = "exhausted" =>
             op[p].tries[op[p].step] = max_retries(p) + 1

(* Every pipeline that began ends, whatever throws and however the health  *)
(* of the process flickers.                                                *)
Terminates ==
    \A p \in Pipelines : op[p].pc # "idle" ~> op[p].pc \in {"done", "failed"}

(* House keeping that is being retried completes when the fault is repaired*)
(* for good before the retries run out.                                    *)
HouseKeepingRecovers ==
    \A p \in SelfChecking :
        (op[p].pc = "backoff" /\ []healthy) ~> op[p].pc = "done"

-----------------------------------------------------------------------------
(* Retries, pauses and checks implement PipelineOutcome. *)
OutcomeOf(p) == IF op[p].pc \in {"done", "failed"} THEN op[p].pc ELSE "running"

Outcome == INSTANCE PipelineOutcome
               WITH committed <- [p \in Pipelines |-> op[p].completed],
                    outcome <- [p \in Pipelines |-> OutcomeOf(p)]

ImplementsOutcome == Outcome!Spec
=============================================================================
