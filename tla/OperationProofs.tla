--------------------------- MODULE OperationProofs ---------------------------
(***************************************************************************)
(* Type correctness and the retry budget of Operation for every set of     *)
(* pipelines, and that Operation implements PipelineOutcome.  Then safety  *)
(* of Runtime, whose steps share nothing with those of Operation, for      *)
(* every set of requests, masks and buckets.                               *)
(***************************************************************************)
EXTENDS Operation, Runtime, TLAPS

Local(p) == [pc : PcOK,
             step : 0 .. StepsOf[p],
             attempt : 0 .. max_retries(p) + 1,
             completed : 0 .. StepsOf[p],
             tries : [1 .. StepsOf[p] -> Nat],
             reason : {"none", "exhausted", "post_check"}]

(* Where the locals o of p stand in its control flow: what was completed,  *)
(* and how the calls made relate to the attempts counted.                  *)
Position(p, o) ==
    /\ o.pc = "idle" => o = Idle(p)
    /\ o.pc \in {"body", "backoff"} => o.step \in 1 .. StepsOf[p] /\ o.completed = o.step - 1
    /\ o.pc = "body" => o.attempt <= max_retries(p) /\ o.tries[o.step] = o.attempt + 1
    /\ o.pc = "backoff" => o.attempt <= max_retries(p) /\ o.tries[o.step] = o.attempt
    /\ o.pc = "pause" => o.completed = o.step /\ o.step < StepsOf[p]
    /\ o.pc = "done" => o.completed = StepsOf[p]
    /\ o.pc # "failed" => o.reason = "none"

Budget(p, o) ==
    /\ \A s \in 1 .. StepsOf[p] : o.tries[s] <= max_retries(p) + 1
    /\ \A s \in 1 .. StepsOf[p] : s > o.step => o.tries[s] = 0
    /\ o.reason = "exhausted" => o.tries[o.step] = max_retries(p) + 1

Good(p, o) == o \in Local(p) /\ Position(p, o) /\ Budget(p, o)

IInv ==
    /\ healthy \in BOOLEAN
    /\ op = [p \in Pipelines |-> op[p]]
    /\ \A p \in Pipelines : Good(p, op[p])

(* The locals with which a step is called: nothing counted beyond attempt. *)
Callable(p, o) ==
    /\ o \in Local(p)
    /\ o.step \in 1 .. StepsOf[p]
    /\ o.completed = o.step - 1
    /\ o.attempt <= max_retries(p)
    /\ o.tries[o.step] = o.attempt
    /\ o.reason = "none"
    /\ Budget(p, o)

-----------------------------------------------------------------------------
(* The constants' types, and that max_retries is positive. *)
LEMMA Constants ==
    ASSUME NEW p \in Pipelines
    PROVE /\ StepsOf[p] \in Nat
          /\ max_retries(p) \in Nat \ {0}
  BY OperationAssumption DEF OperationAssumption, max_retries

(* A throw after a call keeps the locals good, ends in a backoff or in the *)
(* exhaustion, and completes nothing.                                      *)
LEMMA ThrowGood ==
    ASSUME NEW p \in Pipelines, NEW o \in Local(p),
           o.step \in 1 .. StepsOf[p], o.completed = o.step - 1,
           o.attempt <= max_retries(p), o.tries[o.step] = o.attempt + 1,
           o.reason = "none", Budget(p, o)
    PROVE /\ Good(p, Throw(p, o))
          /\ Throw(p, o).pc \in {"backoff", "failed"}
          /\ Throw(p, o).completed = o.completed
  <1>0. StepsOf[p] \in Nat /\ max_retries(p) \in Nat \ {0}
    BY Constants
  <1>1. CASE Exhausted(p, o.attempt + 1)
    <2> DEFINE t == [o EXCEPT !.attempt = @ + 1, !.pc = "failed", !.reason = "exhausted"]
    <2>1. Throw(p, o) = t
      BY <1>1 DEF Throw
    <2>2. o.attempt = max_retries(p) /\ o.attempt + 1 \in 0 .. max_retries(p) + 1
      BY <1>0, <1>1 DEF Exhausted, Local
    <2>3. t \in Local(p)
      BY <2>2 DEF Local, PcOK
    <2>4. t.pc = "failed" /\ t.completed = o.completed /\ t.tries = o.tries /\ t.step = o.step
      BY DEF Local
    <2> HIDE DEF t
    <2>5. Position(p, t) /\ Budget(p, t)
      BY <2>2, <2>4 DEF Position, Budget
    <2> QED BY <2>1, <2>3, <2>4, <2>5 DEF Good
  <1>2. CASE ~Exhausted(p, o.attempt + 1)
    <2> DEFINE t == [o EXCEPT !.attempt = @ + 1, !.pc = "backoff"]
    <2>1. Throw(p, o) = t
      BY <1>2 DEF Throw
    <2>2. o.attempt + 1 <= max_retries(p) /\ o.attempt + 1 \in 0 .. max_retries(p) + 1
      BY <1>0, <1>2 DEF Exhausted, Local
    <2>3. t \in Local(p)
      BY <2>2 DEF Local, PcOK
    <2>4. t.pc = "backoff" /\ t.completed = o.completed /\ t.tries = o.tries /\ t.step = o.step
          /\ t.attempt = o.attempt + 1 /\ t.reason = "none"
      BY DEF Local
    <2> HIDE DEF t
    <2>5. Position(p, t) /\ Budget(p, t)
      BY <2>2, <2>4 DEF Position, Budget
    <2> QED BY <2>1, <2>3, <2>4, <2>5 DEF Good
  <1> QED BY <1>1, <1>2

(* So does a call. *)
LEMMA EnterGood ==
    ASSUME NEW p \in Pipelines, NEW o, Callable(p, o)
    PROVE /\ Good(p, Enter(p, o))
          /\ Enter(p, o).pc \in {"body", "backoff", "failed"}
          /\ Enter(p, o).completed = o.completed
  <1>0. StepsOf[p] \in Nat /\ max_retries(p) \in Nat \ {0}
    BY Constants
  <1> DEFINE c == [o EXCEPT !.tries[o.step] = Counted(p, @)]
  <1>1. Counted(p, o.tries[o.step]) = o.attempt + 1
    BY <1>0 DEF Counted, Callable, Local
  <1>2. /\ c \in Local(p)
        /\ c.step = o.step /\ c.completed = o.completed /\ c.attempt = o.attempt
        /\ c.tries[c.step] = c.attempt + 1
        /\ c.reason = "none"
    <2>1. o \in Local(p) /\ o.step \in 1 .. StepsOf[p] /\ o.attempt + 1 \in Nat
      BY <1>0 DEF Callable, Local
    <2>2. c = [o EXCEPT !.tries = [o.tries EXCEPT ![o.step] = o.attempt + 1]]
      BY <1>1
    <2>3. [o.tries EXCEPT ![o.step] = o.attempt + 1] \in [1 .. StepsOf[p] -> Nat]
          /\ [o.tries EXCEPT ![o.step] = o.attempt + 1][o.step] = o.attempt + 1
      BY <2>1 DEF Local
    <2>4. c \in Local(p)
      BY <2>1, <2>2, <2>3 DEF Local
    <2>5. /\ c.step = o.step /\ c.completed = o.completed /\ c.attempt = o.attempt
          /\ c.tries = [o.tries EXCEPT ![o.step] = o.attempt + 1]
          /\ c.reason = o.reason
      BY <2>1, <2>2 DEF Local
    <2> QED BY <2>3, <2>4, <2>5 DEF Callable
  <1>3. \A s \in 1 .. StepsOf[p] : s # o.step => c.tries[s] = o.tries[s]
    BY <1>0 DEF Callable, Local
  <1>4. Budget(p, c)
    <2>1. Budget(p, o) /\ o.step \in 1 .. StepsOf[p] /\ o.attempt \in Nat
          /\ o.attempt + 1 <= max_retries(p) + 1
      BY <1>0 DEF Callable, Local
    <2> HIDE DEF c
    <2>2. ASSUME NEW s \in 1 .. StepsOf[p]
          PROVE c.tries[s] <= max_retries(p) + 1 /\ (s > c.step => c.tries[s] = 0)
      <3>1. CASE s = o.step
        BY <1>0, <1>2, <2>1, <3>1
      <3>2. CASE s # o.step
        BY <1>2, <1>3, <2>1, <3>2 DEF Budget
      <3> QED BY <3>1, <3>2
    <2> QED BY <1>2, <2>2 DEF Budget
  <1>5. CASE HouseKeepingFails(p)
    <2>1. Enter(p, o) = Throw(p, c)
      BY <1>5 DEF Enter
    <2>2. c.step \in 1 .. StepsOf[p] /\ c.completed = c.step - 1 /\ c.attempt <= max_retries(p)
      BY <1>2 DEF Callable
    <2> HIDE DEF c
    <2> QED BY <1>2, <1>4, <2>1, <2>2, ThrowGood
  <1>6. CASE ~HouseKeepingFails(p)
    <2> DEFINE b == [c EXCEPT !.pc = "body"]
    <2>1. Enter(p, o) = b
      BY <1>6 DEF Enter
    <2> HIDE DEF c
    <2>2. b \in Local(p)
      BY <1>2 DEF Local, PcOK
    <2>3. b.pc = "body" /\ b.completed = o.completed
      BY <1>2 DEF Local
    <2>4. Position(p, b)
      BY <1>0, <1>2 DEF Position, Local, Callable
    <2>5. Budget(p, b)
      BY <1>4, <1>2 DEF Budget, Local
    <2> QED BY <2>1, <2>2, <2>3, <2>4, <2>5 DEF Good
  <1> QED BY <1>5, <1>6

(* Concluding completes nothing and is done only with every step complete. *)
LEMMA ConcludeGood ==
    ASSUME NEW p \in Pipelines, NEW o \in Local(p),
           o.completed = StepsOf[p], o.reason = "none", Budget(p, o)
    PROVE /\ Good(p, Conclude(p, o))
          /\ Conclude(p, o).pc \in {"done", "failed"}
          /\ Conclude(p, o).completed = o.completed
  <1>1. CASE p \in SkipPostCheck \/ healthy
    BY <1>1 DEF Conclude, Good, Position, Budget, Local, PcOK
  <1>2. CASE ~(p \in SkipPostCheck \/ healthy)
    BY <1>2 DEF Conclude, Good, Position, Budget, Local, PcOK
  <1> QED BY <1>1, <1>2

(* The locals of the next step, when the current one was completed. *)
LEMMA NextStepCallable ==
    ASSUME NEW p \in Pipelines, NEW o \in Local(p),
           o.completed = o.step, o.step < StepsOf[p],
           o.reason = "none", Budget(p, o)
    PROVE Callable(p, NextStep(o)) /\ NextStep(o).completed = o.completed
  <1>0. StepsOf[p] \in Nat /\ max_retries(p) \in Nat \ {0}
    BY Constants
  <1>1. NextStep(o) \in Local(p) /\ NextStep(o).step = o.step + 1
        /\ NextStep(o).completed = o.completed /\ NextStep(o).attempt = 0
        /\ NextStep(o).tries = o.tries /\ NextStep(o).reason = "none"
    <2>1. o.step + 1 \in 0 .. StepsOf[p] /\ 0 \in 0 .. max_retries(p) + 1
      BY <1>0 DEF Local
    <2>2. NextStep(o) \in Local(p)
      BY <2>1 DEF NextStep, Local
    <2>3. /\ NextStep(o).step = o.step + 1
          /\ NextStep(o).completed = o.completed /\ NextStep(o).attempt = 0
          /\ NextStep(o).tries = o.tries /\ NextStep(o).reason = "none"
      BY DEF NextStep, Local
    <2> QED BY <2>2, <2>3
  <1>2. o.step + 1 \in 1 .. StepsOf[p]
    BY <1>0 DEF Local
  <1>3. o.tries[o.step + 1] = 0
    BY <1>0, <1>2 DEF Budget, Local
  <1>4. Budget(p, NextStep(o))
    BY <1>0, <1>1 DEF Budget, Local
  <1>5. NextStep(o).completed = NextStep(o).step - 1 /\ NextStep(o).attempt <= max_retries(p)
    BY <1>0, <1>1 DEF Local
  <1>6. NextStep(o).step \in 1 .. StepsOf[p]
        /\ NextStep(o).tries[NextStep(o).step] = NextStep(o).attempt
    BY <1>1, <1>2, <1>3
  <1> QED BY <1>1, <1>4, <1>5, <1>6 DEF Callable

-----------------------------------------------------------------------------
(* What each turn of a pipeline makes of its locals. *)
LEMMA IdleGood ==
    ASSUME NEW p \in Pipelines
    PROVE Good(p, Idle(p))
  BY Constants DEF Good, Local, Position, Budget, Idle, PcOK

LEMMA BeginStep ==
    ASSUME NEW p \in Pipelines, IInv, Begin(p)
    PROVE /\ Good(p, op'[p])
          /\ op'[p].completed = op[p].completed
          /\ op'[p].pc = "done" => op[p].completed = StepsOf[p]
  <1>0. StepsOf[p] \in Nat /\ op[p] = Idle(p) /\ Good(p, op[p])
    BY Constants DEF IInv, Begin, Good, Position
  <1>1. op[p] \in Local(p) /\ op[p].completed = 0 /\ op[p].step = 0
        /\ op[p].reason = "none" /\ Budget(p, op[p])
    BY <1>0 DEF Good, Idle
  <1>2. CASE StepsOf[p] = 0
    <2>1. op'[p] = Conclude(p, op[p])
      BY <1>2 DEF Begin, IInv
    <2> QED BY <1>1, <1>2, <2>1, ConcludeGood
  <1>3. CASE StepsOf[p] # 0
    <2>1. op'[p] = Enter(p, NextStep(op[p]))
      BY <1>3 DEF Begin, IInv
    <2>2. Callable(p, NextStep(op[p])) /\ NextStep(op[p]).completed = op[p].completed
      BY <1>0, <1>1, <1>3, NextStepCallable
    <2> QED BY <2>1, <2>2, EnterGood
  <1> QED BY <1>2, <1>3

LEMMA BodySucceedsStep ==
    ASSUME NEW p \in Pipelines, IInv, BodySucceeds(p)
    PROVE /\ Good(p, op'[p])
          /\ op'[p].completed = op[p].completed + 1
          /\ op[p].completed < StepsOf[p]
          /\ op'[p].pc = "done" => op'[p].completed = StepsOf[p]
  <1> DEFINE o == [op[p] EXCEPT !.completed = @ + 1]
  <1>0. StepsOf[p] \in Nat /\ Good(p, op[p]) /\ op[p].pc = "body"
    BY Constants DEF IInv, BodySucceeds
  <1>1. op[p] \in Local(p) /\ op[p].step \in 1 .. StepsOf[p]
        /\ op[p].completed = op[p].step - 1 /\ op[p].reason = "none" /\ Budget(p, op[p])
    BY <1>0 DEF Good, Position
  <1>2. o \in Local(p) /\ o.completed = o.step /\ o.step = op[p].step
        /\ o.reason = "none" /\ o.tries = op[p].tries
    BY <1>0, <1>1 DEF Local
  <1>3. Budget(p, o)
    BY <1>1, <1>2 DEF Budget
  <1>4. op'[p] = IF IsLastStep(p, o) THEN Conclude(p, o) ELSE [o EXCEPT !.pc = "pause"]
    BY DEF BodySucceeds, IInv
  <1>5. o.completed = op[p].completed + 1 /\ op[p].completed < StepsOf[p]
    BY <1>0, <1>1, <1>2
  <1> HIDE DEF o
  <1>6. CASE IsLastStep(p, o)
    BY <1>2, <1>3, <1>4, <1>5, <1>6, ConcludeGood DEF IsLastStep
  <1>7. CASE ~IsLastStep(p, o)
    <2>1. [o EXCEPT !.pc = "pause"] \in Local(p) /\ [o EXCEPT !.pc = "pause"].pc = "pause"
          /\ [o EXCEPT !.pc = "pause"].completed = o.completed
      BY <1>2 DEF Local, PcOK
    <2>2. o.step < StepsOf[p]
      BY <1>0, <1>2, <1>7 DEF IsLastStep, Local
    <2>3. Position(p, [o EXCEPT !.pc = "pause"]) /\ Budget(p, [o EXCEPT !.pc = "pause"])
      BY <1>2, <1>3, <2>2 DEF Position, Budget, Local
    <2> QED BY <1>4, <1>5, <1>7, <2>1, <2>3 DEF Good
  <1> QED BY <1>6, <1>7

LEMMA OtherTurnStep ==
    ASSUME NEW p \in Pipelines, IInv, BodyThrows(p) \/ BackoffEnds(p) \/ PauseEnds(p)
    PROVE /\ Good(p, op'[p])
          /\ op'[p].completed = op[p].completed
          /\ op'[p].pc # "done"
          /\ op[p].pc \notin {"done", "failed"}
  <1>0. StepsOf[p] \in Nat /\ Good(p, op[p])
    BY Constants DEF IInv
  <1>1. CASE BodyThrows(p)
    <2>1. op'[p] = Throw(p, op[p]) /\ op[p].pc = "body"
      BY <1>1 DEF BodyThrows, IInv
    <2>2. op[p] \in Local(p) /\ op[p].step \in 1 .. StepsOf[p] /\ op[p].completed = op[p].step - 1
          /\ op[p].attempt <= max_retries(p) /\ op[p].tries[op[p].step] = op[p].attempt + 1
          /\ op[p].reason = "none" /\ Budget(p, op[p])
      BY <1>0, <2>1 DEF Good, Position
    <2>3. /\ Good(p, Throw(p, op[p]))
          /\ Throw(p, op[p]).pc \in {"backoff", "failed"}
          /\ Throw(p, op[p]).completed = op[p].completed
      BY <2>2, ThrowGood
    <2> QED BY <2>1, <2>3
  <1>2. CASE BackoffEnds(p)
    <2>1. op'[p] = Enter(p, op[p]) /\ op[p].pc = "backoff"
      BY <1>2 DEF BackoffEnds, IInv
    <2>2. Callable(p, op[p])
      BY <1>0, <2>1 DEF Good, Position, Callable
    <2>3. /\ Good(p, Enter(p, op[p]))
          /\ Enter(p, op[p]).pc \in {"body", "backoff", "failed"}
          /\ Enter(p, op[p]).completed = op[p].completed
      BY <2>2, EnterGood
    <2> QED BY <2>1, <2>3
  <1>3. CASE PauseEnds(p)
    <2>1. op'[p] = Enter(p, NextStep(op[p])) /\ op[p].pc = "pause"
      BY <1>3 DEF PauseEnds, IInv
    <2>2. op[p] \in Local(p) /\ op[p].completed = op[p].step /\ op[p].step < StepsOf[p]
          /\ op[p].reason = "none" /\ Budget(p, op[p])
      BY <1>0, <2>1 DEF Good, Position
    <2>3. Callable(p, NextStep(op[p])) /\ NextStep(op[p]).completed = op[p].completed
      BY <2>2, NextStepCallable
    <2>4. /\ Good(p, Enter(p, NextStep(op[p])))
          /\ Enter(p, NextStep(op[p])).pc \in {"body", "backoff", "failed"}
          /\ Enter(p, NextStep(op[p])).completed = NextStep(op[p]).completed
      BY <2>3, EnterGood
    <2> QED BY <2>1, <2>3, <2>4
  <1> QED BY <1>1, <1>2, <1>3

(* A turn of one pipeline leaves the locals of the others alone. *)
LEMMA OthersUnchanged ==
    ASSUME NEW p \in Pipelines, IInv, Begin(p) \/ Turn(p)
    PROVE /\ op' = [q \in Pipelines |-> op'[q]]
          /\ \A q \in Pipelines \ {p} : op'[q] = op[q]
  BY DEF IInv, Begin, Turn, BodySucceeds, BodyThrows, BackoffEnds, PauseEnds

-----------------------------------------------------------------------------
LEMMA Initiation == Init => IInv
  <1> SUFFICES ASSUME Init PROVE IInv
    OBVIOUS
  <1>1. healthy \in BOOLEAN /\ op = [p \in Pipelines |-> op[p]]
    BY DEF Init
  <1>2. \A p \in Pipelines : op[p] = Idle(p)
    BY DEF Init
  <1> QED BY <1>1, <1>2, IdleGood DEF IInv

LEMMA Consecution == IInv /\ [Next]_vars => IInv'
  <1> SUFFICES ASSUME IInv, [Next]_vars PROVE IInv'
    OBVIOUS
  <1>1. ASSUME NEW p \in Pipelines, Begin(p) \/ Turn(p), UNCHANGED healthy
        PROVE IInv'
    <2>1. Good(p, op'[p])
      BY <1>1, BeginStep, BodySucceedsStep, OtherTurnStep DEF Turn
    <2>2. op' = [q \in Pipelines |-> op'[q]] /\ \A q \in Pipelines \ {p} : op'[q] = op[q]
      BY <1>1, OthersUnchanged
    <2>3. \A q \in Pipelines : Good(q, op'[q])
      BY <2>1, <2>2 DEF IInv
    <2>4. (\A q \in Pipelines : Good(q, op[q]))'
      BY <2>3 DEF Good, Local, Position, Budget, Idle, max_retries, PcOK
    <2> QED BY <1>1, <2>2, <2>4 DEF IInv
  <1>2. CASE Drift
    BY <1>2 DEF IInv, Drift, Good, Local, Position, Budget, Idle, max_retries, PcOK
  <1>3. CASE UNCHANGED vars
    BY <1>3 DEF vars, IInv, Good, Local, Position, Budget, Idle, max_retries, PcOK
  <1> QED BY <1>1, <1>2, <1>3 DEF Next

(* The inductive invariant holds for every set of pipelines, every number  *)
(* of steps and every retry option.                                        *)
THEOREM Invariance == Spec => []IInv
  BY Initiation, Consecution, PTL DEF Spec

(* Type correctness of operation_run_pipeline's locals. *)
THEOREM TypeCorrect == Spec => []TypeOK
  <1>1. IInv => TypeOK
    BY DEF IInv, TypeOK, Good, Local
  <1> QED BY <1>1, Invariance, PTL

(* Each step is called at most max_retries + 1 times, and given up only    *)
(* after exactly that many calls.                                          *)
THEOREM RetryBudgetKept == Spec => []RetryBudget
  <1>1. IInv => RetryBudget
    BY DEF IInv, RetryBudget, Good, Budget
  <1> QED BY <1>1, Invariance, PTL

-----------------------------------------------------------------------------
LEMMA OutcomeInit == Init => Outcome!Init
  BY DEF Init, Outcome!Init, OutcomeOf, Idle

LEMMA OutcomeStep == IInv /\ [Next]_vars => [Outcome!Next]_(Outcome!vars)
  <1> SUFFICES ASSUME IInv, [Next]_vars PROVE [Outcome!Next]_(Outcome!vars)
    OBVIOUS
  <1> DEFINE committed == [p \in Pipelines |-> op[p].completed]
             outcome == [p \in Pipelines |-> OutcomeOf(p)]
  <1>1. ASSUME NEW p \in Pipelines, Begin(p) \/ Turn(p)
        PROVE Outcome!Next \/ UNCHANGED <<committed, outcome>>
    <2>0. StepsOf[p] \in Nat /\ Good(p, op[p]) /\ op[p].completed \in Nat
      BY Constants DEF IInv, Good, Local
    <2>1. \A q \in Pipelines \ {p} : op'[q] = op[q]
      BY <1>1, OthersUnchanged
    <2>2. \A q \in Pipelines \ {p} : OutcomeOf(q)' = OutcomeOf(q)
      BY <2>1 DEF OutcomeOf
    <2>3. outcome[p] = "running"
      BY <1>1 DEF OutcomeOf, Begin, Turn, BodySucceeds, BodyThrows, BackoffEnds, PauseEnds
    <2>4. outcome'[p] \in {"running", "done", "failed"}
          /\ (outcome'[p] = "done" => op'[p].pc = "done")
      BY DEF OutcomeOf
    <2>5. outcome' = [outcome EXCEPT ![p] = outcome'[p]]
      BY <2>2
    <2>6. CASE BodySucceeds(p)
      <3>1. /\ op'[p].completed = op[p].completed + 1
            /\ op[p].completed < StepsOf[p]
            /\ op'[p].pc = "done" => op'[p].completed = StepsOf[p]
        BY <2>6, BodySucceedsStep
      <3>2. committed' = [committed EXCEPT ![p] = @ + 1] /\ committed'[p] = op'[p].completed
            /\ committed[p] < StepsOf[p]
        BY <2>1, <3>1
      <3>3. outcome'[p] = "done" => committed'[p] = StepsOf[p]
        BY <2>4, <3>1, <3>2
      <3>4. Outcome!Commit(p)
        BY <2>3, <2>4, <2>5, <3>2, <3>3 DEF Outcome!Commit
      <3> QED BY <3>4 DEF Outcome!Next
    <2>7. CASE Begin(p) \/ BodyThrows(p) \/ BackoffEnds(p) \/ PauseEnds(p)
      <3>1. /\ op'[p].completed = op[p].completed
            /\ op'[p].pc = "done" => op[p].completed = StepsOf[p]
        BY <2>7, BeginStep, OtherTurnStep
      <3>2. committed' = committed
        BY <2>1, <3>1
      <3>3. outcome'[p] = "done" => committed[p] = StepsOf[p]
        BY <2>4, <3>1
      <3>4. CASE outcome'[p] = "running"
        BY <2>3, <2>5, <3>2, <3>4
      <3>5. CASE outcome'[p] \in {"done", "failed"}
        <4>1. Outcome!End(p)
          BY <2>3, <2>5, <3>2, <3>3, <3>5 DEF Outcome!End
        <4> QED BY <4>1 DEF Outcome!Next
      <3> QED BY <2>4, <3>4, <3>5
    <2> QED BY <1>1, <2>6, <2>7 DEF Turn
  <1>2. CASE Drift
    BY <1>2 DEF Drift, Outcome!vars, OutcomeOf
  <1>3. CASE UNCHANGED vars
    BY <1>3 DEF vars, Outcome!vars, OutcomeOf
  <1> QED BY <1>1, <1>2, <1>3 DEF Next, Outcome!vars

(* Every behaviour of the pipelines is one of the abstract outcomes: steps *)
(* take effect in order, each once, and done means all of them did.        *)
THEOREM OperationImplementsOutcome == Spec => ImplementsOutcome
  BY Invariance, OutcomeInit, OutcomeStep, PTL DEF Spec, ImplementsOutcome, Outcome!Spec

-----------------------------------------------------------------------------
(* Runtime. *)

USE RuntimeAssumption

(* The gate of a runtime is remembered in the options it carries.          *)
Remembered == gate_is_active(options) <=> options.nested = "on"

(* A compacted context was expired, and does not become younger.           *)
RuntimeInv == RuntimeTypeOK /\ Remembered /\ ExpiredGraphFresh

-----------------------------------------------------------------------------
(* What parsing a profile yields. *)

Given(g) == /\ {g.bg, g.fg, g.gate} \subseteq Tri
            /\ {g.nolimits, g.nested} \subseteq {"on", "off"}
            /\ g.secret \in Secrets \cup {NoSecret}

LEMMA SettingType ==
    ASSUME NEW profile, NEW plus, NEW minus, NEW given \in Tri
    PROVE  Setting(profile, plus, minus, given) \in Tri
BY DEF Setting, Tri

LEMMA SidesType ==
    ASSUME NEW profile, NEW given, Given(given)
    PROVE  /\ Sides(profile, given).bg \in {"on", "off"}
           /\ Sides(profile, given).fg \in {"on", "off"}
BY SettingType DEF Sides, Background, Foreground, Opposite, Given, Tri

LEMMA ParsedFields ==
    ASSUME NEW profile, NEW given
    PROVE  LET o == arg_parse_profile(profile, given)
           IN /\ o.profile = profile
              /\ o.bg = Sides(profile, given).bg
              /\ o.fg = Sides(profile, given).fg
              /\ o.gate = Switch(Gate(profile, given))
              /\ o.nested = Switch(Gate(profile, given) \/ given.nested = "on")
BY DEF arg_parse_profile

LEMMA ParsedType ==
    ASSUME NEW profile \in SUBSET Modifiers, NEW given, Given(given)
    PROVE  arg_parse_profile(profile, given) \in OptionStates
<1>1. YieldMs(Sides(profile, given), Nolimits(profile, given)) \in {0, 1, 10}
  BY DEF YieldMs
<1>2. \A on : Switch(on) \in {"on", "off"}
  BY DEF Switch
<1> QED
  BY <1>1, <1>2, SidesType DEF arg_parse_profile, OptionStates, Given

LEMMA ParsedRemembered ==
    ASSUME NEW profile \in SUBSET Modifiers, NEW given, Given(given)
    PROVE  LET o == arg_parse_profile(profile, given)
           IN gate_is_active(o) <=> o.nested = "on"
<1> DEFINE o == arg_parse_profile(profile, given)
           gate == Gate(profile, given)
<1>1. /\ o.profile = profile /\ o.gate = Switch(gate)
      /\ o.nested = Switch(gate \/ given.nested = "on")
  BY ParsedFields
<1>2. "+gate" \in profile => gate
  BY DEF Gate
<1> HIDE DEF o, gate
<1> SUFFICES gate_is_active(o) <=> o.nested = "on"
  BY DEF o
<1>3. CASE gate
  BY <1>1, <1>3 DEF gate_is_active, Switch
<1>4. CASE ~gate
  BY <1>1, <1>2, <1>4 DEF gate_is_active, Switch
<1> QED
  BY <1>3, <1>4

-----------------------------------------------------------------------------
(* What goes into the parser. *)

LEMMA RequestProfile ==
    ASSUME NEW r \in Requests, NEW before \in SUBSET Modifiers
    PROVE  (IF r.profile = NoProfile THEN before ELSE r.profile) \in SUBSET Modifiers
OBVIOUS

LEMMA AskedGiven ==
    ASSUME NEW r \in Requests
    PROVE  Given(Asked(r)) /\ Asked(r).profile \in SUBSET Modifiers
<1>1. DefaultProfile \in SUBSET Modifiers
  BY DEF DefaultProfile, Modifiers
<1>2. Asked(r).profile \in SUBSET Modifiers
  BY <1>1 DEF Asked
<1> QED
  BY <1>2 DEF Asked, Given, Over, Tri

LEMMA MergedGiven ==
    ASSUME RuntimeTypeOK, NEW r \in Requests
    PROVE  /\ Given(Merged(r)) /\ Merged(r).profile \in SUBSET Modifiers
           /\ Merged(r).nested = Over(r.nested, options.nested)
<1>1. Merged(r).profile \in SUBSET Modifiers
  BY DEF Merged, RuntimeTypeOK, OptionStates
<1> QED
  BY <1>1 DEF Merged, Given, Over, Tri, RuntimeTypeOK, OptionStates

-----------------------------------------------------------------------------
LEMMA NoOptionsOK ==
    /\ NoOptions \in OptionStates
    /\ gate_is_active(NoOptions) <=> NoOptions.nested = "on"
<1> DEFINE none == [bg |-> "unset", fg |-> "unset", gate |-> "off",
                    nolimits |-> "off", nested |-> "off", secret |-> NoSecret]
<1>1. DefaultProfile \in SUBSET Modifiers /\ Given(none)
  BY DEF DefaultProfile, Modifiers, Given, Tri
<1> QED
  BY <1>1, ParsedType, ParsedRemembered DEF NoOptions

LEMMA NoContextOK == NoContext \in ContextStates
BY DEF NoContext, ContextStates, MaskKinds

LEMMA InitInv == RuntimeInit => RuntimeInv
<1> SUFFICES ASSUME RuntimeInit PROVE RuntimeInv
  OBVIOUS
<1>1. running \in BOOLEAN /\ step \in Nat /\ pin \in Pins /\ recent \subseteq Buckets
  <2>1. pin \in Pins
    BY DEF RuntimeInit, Pins
  <2>2. 0 \in Nat
    BY SMT
  <2> QED
    BY <2>1, <2>2, Zenon DEF RuntimeInit
<1>2. RuntimeTypeOK
  BY <1>1, NoOptionsOK, NoContextOK DEF RuntimeInit, RuntimeTypeOK
<1> QED
  BY <1>2, NoOptionsOK DEF RuntimeInit, RuntimeInv, Remembered, ExpiredGraphFresh

LEMMA BootInv ==
    ASSUME RuntimeInv, NEW r \in Requests, Boot(r)
    PROVE  RuntimeInv'
<1> DEFINE parsed == arg_parse_profile(Asked(r).profile, Asked(r))
<1>1. options' = parsed /\ parsed \in OptionStates /\ (gate_is_active(parsed) <=> parsed.nested = "on")
  BY AskedGiven, ParsedType, ParsedRemembered DEF Boot
<1>3. PICK mask \in Masks : ctx' = ctx_create(mask)
  BY DEF Boot
<1>4. ctx' \in ContextStates /\ ctx'.maintained = "never"
  BY <1>3 DEF ctx_create, ContextStates, RuntimeInv, RuntimeTypeOK
<1> HIDE DEF parsed
<1>6. RuntimeTypeOK'
  BY <1>1, <1>4 DEF Boot, RuntimeInv, RuntimeTypeOK
<1>7. Remembered'
  BY <1>1 DEF Remembered, gate_is_active
<1>9. ExpiredGraphFresh'
  BY <1>4 DEF ExpiredGraphFresh
<1> QED
  BY <1>6, <1>7, <1>9 DEF RuntimeInv

LEMMA ModifyInv ==
    ASSUME RuntimeInv, NEW r \in Requests, ModifyArgs(r)
    PROVE  RuntimeInv'
<1> DEFINE parsed == arg_parse_profile(Merged(r).profile, Merged(r))
<1>1. options' = parsed /\ parsed \in OptionStates /\ (gate_is_active(parsed) <=> parsed.nested = "on")
  BY MergedGiven, ParsedType, ParsedRemembered DEF ModifyArgs, RuntimeInv
<1> HIDE DEF parsed
<1>2. UNCHANGED <<running, ctx, step, pin, recent>>
  BY DEF ModifyArgs
<1>3. RuntimeTypeOK'
  BY <1>1, <1>2 DEF RuntimeInv, RuntimeTypeOK
<1>4. Remembered'
  BY <1>1 DEF Remembered, gate_is_active
<1>5. ExpiredGraphFresh'
  BY <1>2 DEF RuntimeInv, ExpiredGraphFresh, Expired, time_mask_is_expired
<1> QED
  BY <1>3, <1>4, <1>5 DEF RuntimeInv

(* The steps that leave the options alone. *)
LEMMA OptionsKept ==
    ASSUME RuntimeInv, UNCHANGED options
    PROVE  Remembered'
BY DEF RuntimeInv, Remembered, gate_is_active

LEMMA ClockInv ==
    ASSUME RuntimeInv, StepEnds \/ ReadPin
    PROVE  RuntimeInv'
<1>1. UNCHANGED <<running, options, ctx, recent>> /\ step' \in Nat /\ step' >= step /\ pin' \in Pins
  BY DEF StepEnds, ReadPin, gate_generate_pin, Pins, RuntimeInv, RuntimeTypeOK
<1>2. RuntimeTypeOK'
  BY <1>1 DEF RuntimeInv, RuntimeTypeOK
<1>3. ctx \in ContextStates /\ Span \in Nat
  BY DEF RuntimeInv, RuntimeTypeOK
<1>4. Expired => Expired'
  BY <1>1, <1>3 DEF Expired, time_mask_is_expired, ContextStates, RuntimeInv, RuntimeTypeOK
<1>5. ExpiredGraphFresh'
  BY <1>1, <1>4 DEF RuntimeInv, ExpiredGraphFresh
<1> QED
  BY <1>1, <1>2, <1>5, OptionsKept DEF RuntimeInv

LEMMA GraphInv ==
    ASSUME RuntimeInv, (\E b \in Buckets : Record(b)) \/ Decay \/ GraphInit
    PROVE  RuntimeInv'
<1>1. PICK hot \in SUBSET Buckets :
        /\ ctx' = [ctx EXCEPT !.hot = hot]
        /\ hot \subseteq ctx.hot \cup recent'
        /\ recent \subseteq recent' /\ recent' \subseteq Buckets
        /\ UNCHANGED <<running, options, step, pin>>
  <2>0. ctx.hot \subseteq Buckets /\ recent \subseteq Buckets
    BY DEF RuntimeInv, RuntimeTypeOK, ContextStates
  <2>1. CASE \E b \in Buckets : Record(b)
    BY <2>0, <2>1 DEF Record
  <2>2. CASE Decay
    BY <2>0, <2>2 DEF Decay
  <2>3. CASE GraphInit
    <3>1. {} \in SUBSET Buckets /\ {} \subseteq ctx.hot \cup recent'
      OBVIOUS
    <3>2. ctx' = [ctx EXCEPT !.hot = {}] /\ UNCHANGED <<running, options, step, pin, recent>>
      BY <2>3 DEF GraphInit
    <3> QED
      BY <2>0, <3>1, <3>2
  <2> QED
    BY <2>1, <2>2, <2>3
<1>2. /\ ctx \in ContextStates /\ ctx' \in ContextStates
      /\ ctx'.created = ctx.created /\ ctx'.mask = ctx.mask
      /\ ctx'.maintained = ctx.maintained /\ ctx'.hot = hot
  BY <1>1 DEF RuntimeInv, RuntimeTypeOK, ContextStates
<1>3. RuntimeTypeOK'
  BY <1>1, <1>2 DEF RuntimeInv, RuntimeTypeOK
<1>4. Expired' <=> Expired
  BY <1>1, <1>2 DEF Expired, time_mask_is_expired
<1>5. ExpiredGraphFresh'
  BY <1>1, <1>2, <1>4 DEF RuntimeInv, ExpiredGraphFresh
<1> QED
  BY <1>1, <1>3, <1>5, OptionsKept DEF RuntimeInv

LEMMA MaintenanceInv ==
    ASSUME RuntimeInv, Maintenance
    PROVE  RuntimeInv'
<1> DEFINE outcome == IF Expired THEN "compacted" ELSE "kept"
<1>1. /\ ctx' = [ctx EXCEPT !.hot = Kept, !.maintained = outcome]
      /\ recent' = {} /\ UNCHANGED <<running, options, step, pin>>
  BY DEF Maintenance
<1>2. ctx \in ContextStates /\ Kept \subseteq ctx.hot /\ (Expired => Kept = {})
  BY DEF Kept, RuntimeInv, RuntimeTypeOK
<1>3. outcome \in {"kept", "compacted"} /\ (outcome = "compacted" => Expired)
  OBVIOUS
<1> HIDE DEF outcome
<1>4. /\ ctx' \in ContextStates /\ ctx'.created = ctx.created /\ ctx'.mask = ctx.mask
      /\ ctx'.maintained = outcome /\ ctx'.hot = Kept
  BY <1>1, <1>2, <1>3 DEF ContextStates
<1>5. RuntimeTypeOK'
  BY <1>1, <1>4 DEF RuntimeInv, RuntimeTypeOK
<1>6. Expired' <=> Expired
  BY <1>1, <1>4 DEF Expired, time_mask_is_expired
<1>7. ExpiredGraphFresh'
  BY <1>1, <1>2, <1>3, <1>4, <1>6 DEF ExpiredGraphFresh
<1> QED
  BY <1>1, <1>5, <1>7, OptionsKept DEF RuntimeInv

LEMMA CrashInv ==
    ASSUME RuntimeInv, RuntimeCrash
    PROVE  RuntimeInv'
<1>1. RuntimeTypeOK'
  BY NoOptionsOK, NoContextOK DEF RuntimeInv, RuntimeTypeOK, RuntimeCrash
<1> QED
  BY <1>1, NoOptionsOK
     DEF RuntimeInv, RuntimeCrash, Remembered, ExpiredGraphFresh, gate_is_active

LEMMA StutterInv ==
    ASSUME RuntimeInv, UNCHANGED runtime_vars
    PROVE  RuntimeInv'
BY DEF RuntimeInv, runtime_vars, RuntimeTypeOK, Remembered, ExpiredGraphFresh, Expired,
       time_mask_is_expired, gate_is_active

LEMMA NextInv == RuntimeInv /\ [RuntimeNext]_runtime_vars => RuntimeInv'
BY BootInv, ModifyInv, ClockInv, GraphInv, MaintenanceInv, CrashInv, StutterInv DEF RuntimeNext

-----------------------------------------------------------------------------
(* Options and contexts are records of their kind, whatever callers ask.   *)
THEOREM RuntimeTypeCorrect == RuntimeSpec => []RuntimeTypeOK
<1>1. RuntimeInv => RuntimeTypeOK
  BY DEF RuntimeInv
<1> QED
  BY <1>1, InitInv, NextInv, PTL DEF RuntimeSpec

(* Of a context that was ever compacted the graph shows nothing older than *)
(* the last maintenance.                                                   *)
THEOREM ExpiredFresh == RuntimeSpec => []ExpiredGraphFresh
<1>1. RuntimeInv => ExpiredGraphFresh
  BY DEF RuntimeInv
<1> QED
  BY <1>1, InitInv, NextInv, PTL DEF RuntimeSpec

GateStep ==
    options' # options /\ running /\ (gate_is_active(options) \/ gate_is_active(options')) =>
      \A r \in Requests : ModifyArgs(r) =>
        /\ gate_is_active(options) /\ r.nested # "off" => gate_is_active(options')
        /\ gate_is_active(options') =>
             /\ step - 1 <= pin.at /\ pin.at <= step + 1
             /\ {r.secret, options.secret} = {NoSecret} => pin.secret = DefaultSecret

(* A gate that is active is so in the nested options, and these go with the*)
(* request into the merged ones, unless it brings some of its own.         *)
LEMMA GateKept == RuntimeInv => GateStep
<1> SUFFICES ASSUME RuntimeInv, NEW r \in Requests, ModifyArgs(r)
             PROVE  /\ gate_is_active(options) /\ r.nested # "off" => gate_is_active(options')
                    /\ gate_is_active(options') =>
                         /\ step - 1 <= pin.at /\ pin.at <= step + 1
                         /\ {r.secret, options.secret} = {NoSecret} => pin.secret = DefaultSecret
  BY DEF GateStep
<1> DEFINE parsed == arg_parse_profile(Merged(r).profile, Merged(r))
           gate == Gate(Merged(r).profile, Merged(r))
<1>1. RuntimeTypeOK /\ options' = parsed /\ (gate_is_active(options) <=> options.nested = "on")
  BY DEF RuntimeInv, Remembered, ModifyArgs
<1>2. /\ gate_is_active(parsed) <=> parsed.nested = "on"
      /\ parsed.nested = Switch(gate \/ Merged(r).nested = "on")
  BY <1>1, MergedGiven, ParsedRemembered, ParsedFields
<1>3. gate_is_active(parsed) <=> gate \/ Merged(r).nested = "on"
  BY <1>2 DEF Switch
<1>4. gate \/ Merged(r).nested = "on" => gate_is_active(Merged(r))
  BY DEF Gate, gate_is_active
<1>5. gate_is_active(parsed) => gate_verify_pin(SecretOf(r), pin)
  BY <1>3, <1>4 DEF ModifyArgs, gate_verify_arg_modification
<1>6. Merged(r).nested = Over(r.nested, options.nested) /\ r.nested \in Tri
  BY <1>1, MergedGiven
<1>7. gate_is_active(options) /\ r.nested # "off" => Merged(r).nested = "on"
  BY <1>1, <1>6 DEF Over, Tri
<1>8. gate_verify_pin(SecretOf(r), pin) =>
        step - 1 <= pin.at /\ pin.at <= step + 1 /\ pin.secret = SecretOf(r)
  BY <1>1 DEF gate_verify_pin, gate_generate_pin, RuntimeTypeOK
<1>9. {r.secret, options.secret} = {NoSecret} => SecretOf(r) = DefaultSecret
  BY DEF SecretOf, Named
<1> HIDE DEF parsed
<1>10. gate_is_active(options') <=> gate_is_active(parsed)
  BY <1>1 DEF gate_is_active
<1> QED
  BY <1>3, <1>5, <1>7, <1>8, <1>9, <1>10

(* A gated runtime stays gated through any profile, option and secret, and *)
(* a fresh pin is at hand whenever its options are changed, unless a       *)
(* request brings options of its own in which the gate is not active.      *)
THEOREM GateKeeps == RuntimeSpec => GateHolds
BY InitInv, NextInv, GateKept, PTL DEF RuntimeSpec, GateHolds, GateStep
=============================================================================
