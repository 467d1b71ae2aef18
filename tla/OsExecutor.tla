------------------------------ MODULE OsExecutor ------------------------------
(***************************************************************************)
(* os_exec and os_exec_sync (lib/os/libcd_os_executor.mjs): a command runs *)
(* in a child process, and a promise, a timer, an AbortSignal, the child's *)
(* events and the audit log race about how it ended.                       *)
(*                                                                         *)
(* External, from how the code uses node:child_process: spawn throws,      *)
(* fails with 'error' and then 'close', or starts a child; a child that    *)
(* runs ends with a code or by a signal whenever it likes ('exit'), and    *)
(* 'close' follows once nobody holds its pipes; a signal may not be        *)
(* deliverable, then the child gets 'error' instead; an abort kills the    *)
(* child and gives 'error'.  Output, durations and messages are left out.  *)
(***************************************************************************)
EXTENDS Integers, Sequences

CONSTANTS
    Calls,        \* calls of os_exec and os_exec_sync
    Synchronous,  \* those of os_exec_sync
    WithTimeout,  \* those whose timeout is above 0
    Cancellable,  \* those given the AbortSignal that `aborted` is the state of
    Rejecting,    \* those with reject: true, the default
    Obedient      \* those whose child ends on SIGTERM and leaves no pipe open

ASSUME OsExecutorAssumption ==
    /\ Synchronous \subseteq Calls
    /\ WithTimeout \subseteq Calls
    /\ Cancellable \subseteq Calls
    /\ Rejecting \subseteq Calls
    /\ Obedient \subseteq Calls

VARIABLES
    call,    \* per call: its promise, timer, child and audit trail
    aborted  \* whether the AbortSignal has fired

vars == <<call, aborted>>

-----------------------------------------------------------------------------
Codes == {"zero", "nonzero"}
Exits == Codes \cup {"signal"}

(* make_result, with `error` for a given error_obj. *)
make_result(exit_code, timed_out, error) ==
    [exitCode |-> exit_code, timedOut |-> timed_out,
     failed |-> exit_code # "zero" \/ timed_out \/ error]

Entry(event, failed) == [event |-> event, failed |-> failed]

(* resolve_promise or reject_promise; what is settled stays as it is.      *)
Settle(c, o, result) ==
    IF o.pc = "settled"
    THEN o
    ELSE [o EXCEPT !.pc = "settled", !.result = result,
                   !.rejected = c \in Rejecting /\ result.failed]

Post(o, event, failed) == [o EXCEPT !.audit = Append(@, Entry(event, failed))]

Bug_KeepTimer(o) == o
ClearTimer(o) == [o EXCEPT !.timer = "off"]

(* The 'error' handler. *)
Bug_SilentError(c, o) ==
    LET over == ClearTimer(o)
        result == make_result("nonzero", over.timed_out, TRUE)
    IN IF c \in Rejecting THEN Settle(c, over, result)
       ELSE Settle(c, Post(over, "ERROR", TRUE), result)
OnError(c, o) ==
    Settle(c, Post(ClearTimer(o), "ERROR", TRUE),
           make_result("nonzero", o.timed_out, TRUE))

(* The 'close' handler: a child that ended by a signal has no code.        *)
Bug_CodeDecides(o) ==
    make_result(IF o.exit = "signal" THEN "nonzero" ELSE o.exit, FALSE, FALSE)
CloseResult(o) ==
    make_result(IF o.exit = "signal" THEN "nonzero" ELSE o.exit, o.timed_out, FALSE)

OnClose(c, o) ==
    LET result == CloseResult(o)
    IN Settle(c, Post(ClearTimer(o), "DONE", result.failed), result)

(* child.kill('SIGTERM'), by the timer. *)
Bug_Kill(c, o, deliverable) == o
Kill(c, o, deliverable) ==
    IF deliverable THEN [o EXCEPT !.killed = TRUE] ELSE OnError(c, o)

(* Node aborts the child of a call that got the signal, while it runs.     *)
HearsAbort(c, o) == c \in Cancellable /\ o.child = "running"

AbortChild(c, o, deliverable) ==
    OnError(c, [o EXCEPT !.killed = @ \/ deliverable])

-----------------------------------------------------------------------------
Idle == [pc |-> "idle", timer |-> "off", timed_out |-> FALSE,
         child |-> "none", exit |-> "none", killed |-> FALSE,
         result |-> make_result("zero", FALSE, FALSE), rejected |-> FALSE,
         audit |-> <<>>]

Init == /\ call = [c \in Calls |-> Idle]
        /\ aborted = FALSE

(* os_exec enters its promise: RUN is posted and the timer armed.          *)
Running(c) ==
    [Post(call[c], "RUN", FALSE) EXCEPT !.pc = "pending", !.child = "running",
        !.timer = IF c \in WithTimeout THEN "armed" ELSE "off"]

(* A signal that has fired already kills the child in the next tick, before*)
(* any other event.                                                        *)
Start(c) ==
    /\ c \in Calls \ Synchronous
    /\ call[c].pc = "idle"
    /\ IF aborted /\ HearsAbort(c, Running(c))
       THEN \E deliverable \in BOOLEAN :
              call' = [call EXCEPT ![c] = AbortChild(c, Running(c), deliverable)]
       ELSE call' = [call EXCEPT ![c] = Running(c)]
    /\ UNCHANGED aborted

(* spawn throws: no child, no timer, and no event will follow.             *)
SpawnThrows(c) ==
    /\ c \in Calls \ Synchronous
    /\ call[c].pc = "idle"
    /\ call' = [call EXCEPT ![c] = OnError(c, Post(@, "RUN", FALSE))]
    /\ UNCHANGED aborted

(* The program cannot be started: 'error' in the next tick, with the timer *)
(* already armed; 'close' is still to come.                                *)
SpawnFails(c) ==
    /\ c \in Calls \ Synchronous
    /\ call[c].pc = "idle"
    /\ call' = [call EXCEPT
         ![c] = OnError(c, [Running(c) EXCEPT !.child = "exited", !.exit = "nonzero"])]
    /\ UNCHANGED aborted

(* The timer: it knows nothing of a child that exited but did not close.   *)
TimeoutFires(c) ==
    /\ call[c].timer = "armed"
    /\ \E deliverable \in BOOLEAN :
         LET late == [call[c] EXCEPT !.timer = "off", !.timed_out = TRUE]
         IN call' = [call EXCEPT ![c] = IF @.child = "running"
                                        THEN Kill(c, late, deliverable)
                                        ELSE late]
    /\ UNCHANGED aborted

(* One abort reaches all the calls that share its signal.                  *)
Abort ==
    /\ ~aborted
    /\ aborted' = TRUE
    /\ \E deliverable \in SUBSET Calls :
         call' = [c \in Calls |->
                    IF HearsAbort(c, call[c])
                    THEN AbortChild(c, call[c], c \in deliverable)
                    ELSE call[c]]

Exit(c) ==
    /\ call[c].child = "running"
    /\ \E code \in Exits :
         call' = [call EXCEPT ![c] = [@ EXCEPT !.child = "exited", !.exit = code]]
    /\ UNCHANGED aborted

Close(c) ==
    /\ call[c].child = "exited"
    /\ call' = [call EXCEPT ![c] = OnClose(c, [@ EXCEPT !.child = "closed"])]
    /\ UNCHANGED aborted

(* os_exec_sync: nothing else happens until spawnSync returns, which it    *)
(* does with a code, with a signal, with neither when nothing was started  *)
(* (exit "none"), or with ETIMEDOUT or ENOBUFS, after its timeout or when  *)
(* the output outgrew maxBuffer, however the child took the signal of that.*)
Bug_SyncCode(exit) == IF exit \in Codes THEN exit ELSE "zero"
SyncCode(exit) ==
    IF exit \in Codes THEN exit ELSE IF exit = "signal" THEN "nonzero" ELSE "zero"

Killers == {"nobody", "timeout", "maxBuffer"}
SyncEnds(c, exit, killer) ==
    LET timed_out == killer = "timeout"
        killed == killer # "nobody"
        result == make_result(SyncCode(exit), timed_out, killed \/ exit = "none")
    IN Settle(c, Post([Post(call[c], "RUN", FALSE) EXCEPT
                           !.child = IF exit = "none" THEN "none" ELSE "closed",
                           !.exit = exit, !.killed = killed, !.timed_out = timed_out],
                      "DONE", result.failed),
              result)

ExecSync(c) ==
    /\ c \in Synchronous
    /\ call[c].pc = "idle"
    /\ \/ call' = [call EXCEPT ![c] = OnError(c, Post(@, "RUN", FALSE))]
       \/ \E exit \in Exits \cup {"none"}, killer \in Killers :
            /\ killer # "nobody" => exit # "none"
            /\ killer = "timeout" => c \in WithTimeout
            /\ call' = [call EXCEPT ![c] = SyncEnds(c, exit, killer)]
    /\ UNCHANGED aborted

Next ==
    \/ \E c \in Calls : \/ Start(c) \/ SpawnThrows(c) \/ SpawnFails(c)
                        \/ TimeoutFires(c) \/ Exit(c) \/ Close(c)
                        \/ ExecSync(c)
    \/ Abort

Spec == Init /\ [][Next]_vars

(* Timers fire; an obedient child ends once killed, and then closes.       *)
FairSpec ==
    /\ Spec
    /\ \A c \in Calls : WF_vars(TimeoutFires(c))
    /\ \A c \in Obedient : /\ WF_vars(call[c].killed /\ Exit(c))
                           /\ WF_vars(Close(c))

-----------------------------------------------------------------------------
Results == [exitCode : Codes, timedOut : BOOLEAN, failed : BOOLEAN]
Entries == [event : {"RUN", "ERROR", "DONE"}, failed : BOOLEAN]

CallStates == [pc : {"idle", "pending", "settled"}, timer : {"off", "armed"},
               timed_out : BOOLEAN, child : {"none", "running", "exited", "closed"},
               exit : Exits \cup {"none"}, killed : BOOLEAN,
               result : Results, rejected : BOOLEAN, audit : Seq(Entries)]

(* Calls are records of their kind, and no call posts more than four       *)
(* entries: RUN, the errors of an abort and of a kill, DONE.               *)
TypeOK ==
    /\ call \in [Calls -> CallStates]
    /\ aborted \in BOOLEAN
    /\ \A c \in Calls : Len(call[c].audit) <= 4

(* A call is reported successful only when its child ran to the end with   *)
(* code 0, before its timeout and unharmed by a signal of this library,    *)
(* whatever order the timer, the abort and the child's events came in; a   *)
(* caller is told of a timeout only if the timer fired, and gets the       *)
(* rejection of every failure and of nothing else, unless it declined them.*)
VerdictHonest ==
    \A c \in Calls : call[c].pc = "settled" =>
        /\ ~call[c].result.failed =>
             /\ call[c].child = "closed" /\ call[c].exit = "zero"
             /\ ~call[c].timed_out /\ ~call[c].killed
        /\ call[c].result.timedOut => call[c].timed_out
        /\ call[c].rejected <=> c \in Rejecting /\ call[c].result.failed

(* "All OS executions are automatically recorded": what the caller was told*)
(* is the second entry of the call's trail, RUN the first and DONE the     *)
(* last, even when a late error or the close of a call that is already     *)
(* over adds to it.                                                        *)
AuditTrail ==
    \A c \in Calls :
        LET trail == call[c].audit
        IN /\ call[c].pc = "idle" <=> trail = <<>>
           /\ call[c].pc = "settled" <=> Len(trail) >= 2
           /\ \A i \in 1 .. Len(trail) :
                /\ trail[i].event = "RUN" <=> i = 1
                /\ trail[i].event = "DONE" => i = Len(trail)
           /\ call[c].pc = "settled" => trail[2].failed = call[c].result.failed

(* No timer outlives its call, to keep the process up or to signal a       *)
(* process that is not the call's any more; and an abort leaves no call    *)
(* waiting for a child that may never end.                                 *)
NothingOutstanding ==
    \A c \in Calls :
        /\ call[c].timer = "armed" => call[c].pc = "pending"
        /\ aborted /\ c \in Cancellable /\ call[c].pc = "pending"
             => call[c].child = "exited"

(* A call with a timeout is answered, also when its child would have run   *)
(* for ever, ends on SIGTERM with code 0, or cannot be signalled.          *)
TimeoutAnswers ==
    \A c \in WithTimeout \cap Obedient :
        call[c].pc = "pending" ~> call[c].pc = "settled"

(* Where an exit code of 0 comes from: a child that ended with it, also    *)
(* when the run counts as failed, or a synchronous run that never started  *)
(* one, for which spawnSync has neither code nor signal.  The callers look *)
(* at the code alone (win_is_administrator takes 0 for a yes), so no other *)
(* end may look like it, in whatever order timer, abort, error and close   *)
(* settle the call.                                                        *)
ZeroExplained ==
    \A c \in Calls :
        call[c].pc = "settled" /\ call[c].result.exitCode = "zero"
            => \/ call[c].exit = "zero"
               \/ c \in Synchronous /\ call[c].child = "none"
=============================================================================
