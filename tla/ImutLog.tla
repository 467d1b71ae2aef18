------------------------------- MODULE ImutLog -------------------------------
(***************************************************************************)
(* lib/internal/imut_log: the client libcd_imut_log.mjs in the main thread,*)
(* the worker thread libcd_imut_log_worker.mjs that is the single writer   *)
(* of the log, and the two message channels between them.  The lifecycle's *)
(* stop() (lib/libcd_lifecycle.mjs) and the end of the process are here    *)
(* too: they decide what becomes of entries that are staged.               *)
(*                                                                         *)
(* An entry is named by its position among all posts.  A message carries   *)
(* `seq`: the position of its entry or, for DRAIN, how many entries were   *)
(* posted before it; the code sends the payload instead.                   *)
(***************************************************************************)
EXTENDS Integers, SequencesExt

CONSTANTS
    FLUSH_THRESHOLD,  \* entries the worker holds before it flushes (64)
    MaxPosts,         \* bound: post() calls
    MaxDrains,        \* bound: drain() calls
    WorkerMayFail     \* whether the worker thread may die of an uncaught error

ASSUME ImutLogAssumption ==
    /\ FLUSH_THRESHOLD \in Nat \ {0}
    /\ MaxPosts \in Nat
    /\ MaxDrains \in Nat
    /\ WorkerMayFail \in BOOLEAN

VARIABLES
    worker,     \* _worker: "none" yet, "live", or "dead" and still referenced
    channel,    \* messages posted to the worker, in order
    queue,      \* the worker's staged entries
    log,        \* entries flushed, in order
    acks,       \* FLUSHED counts on their way to the main thread
    manifest,   \* entries the manifest hook was told of
    posted,     \* post() calls so far
    drained,    \* drain() calls so far
    lifecycle,  \* "running", then "stopped" once lifecycle_stop() resolved
    stopped_at, \* history: posted when lifecycle_stop() was called
    process     \* "up" or "exited"

vars == <<worker, channel, queue, log, acks, manifest, posted, drained,
          lifecycle, stopped_at, process>>

workerVars == <<queue, log, acks>>
mainVars == <<manifest, lifecycle, stopped_at, process>>

-----------------------------------------------------------------------------
Init ==
    /\ worker = "none"
    /\ channel = <<>>
    /\ queue = <<>>
    /\ log = <<>>
    /\ acks = <<>>
    /\ manifest = 0
    /\ posted = 0
    /\ drained = 0
    /\ lifecycle = "running"
    /\ stopped_at = 0
    /\ process = "up"

(* The worker is created by the first post and never again: an error       *)
(* handler logs the error and keeps the reference.                         *)
Bug_RespawnDead == IF worker \in {"none", "dead"} THEN "live" ELSE worker
get_worker == IF worker = "none" THEN "live" ELSE worker

(* get_worker().postMessage(m): a dead worker's port drops the message.    *)
Send(m) == /\ worker' = get_worker
           /\ channel' = IF get_worker = "live" THEN Append(channel, m) ELSE channel

(* post(entry) *)
Post ==
    /\ process = "up"
    /\ posted < MaxPosts
    /\ posted' = posted + 1
    /\ Send([kind |-> "entry", seq |-> posted + 1])
    /\ UNCHANGED <<workerVars, mainVars, drained>>

(* drain() *)
Drain ==
    /\ process = "up"
    /\ drained < MaxDrains
    /\ drained' = drained + 1
    /\ Send([kind |-> "drain", seq |-> posted])
    /\ UNCHANGED <<workerVars, mainVars, posted>>

-----------------------------------------------------------------------------
(* The worker thread handles one message at a time. *)

Bug_FlushDueLate(q) == Len(q) > FLUSH_THRESHOLD
FlushDue(q) == Len(q) >= FLUSH_THRESHOLD

(* queue.push(entry) *)
Bug_OverwriteOldest(m) ==
    IF Len(queue) = FLUSH_THRESHOLD - 1 /\ queue # <<>>
    THEN Append(Tail(queue), m.seq) ELSE Append(queue, m.seq)
Stage(m) == Append(queue, m.seq)

(* The FLUSHED message is built from the batch the splice removed.         *)
Bug_CountAfterSplice(q) == 0
FlushedCount(q) == Len(q)

(* flush() with q staged: write the batch and notify the parent; an empty  *)
(* queue is not a flush.                                                   *)
Bug_FlushKeepsLast(q) ==
    IF q = <<>>
    THEN queue' = q /\ UNCHANGED <<log, acks>>
    ELSE /\ log' = log \o Front(q)
         /\ queue' = <<Last(q)>>
         /\ acks' = Append(acks, FlushedCount(q))
Flush(q) ==
    IF q = <<>>
    THEN queue' = q /\ UNCHANGED <<log, acks>>
    ELSE /\ log' = log \o q
         /\ queue' = <<>>
         /\ acks' = Append(acks, FlushedCount(q))

Receive(kind) ==
    /\ worker = "live"
    /\ channel # <<>>
    /\ Head(channel).kind = kind
    /\ channel' = Tail(channel)

HandleEntry ==
    /\ Receive("entry")
    /\ LET q == Stage(Head(channel))
       IN IF FlushDue(q) THEN Flush(q)
                         ELSE queue' = q /\ UNCHANGED <<log, acks>>
    /\ UNCHANGED <<worker, posted, drained, mainVars>>

HandleDrain ==
    /\ Receive("drain")
    /\ Flush(queue)
    /\ UNCHANGED <<worker, posted, drained, mainVars>>

Handle == HandleEntry \/ HandleDrain

-----------------------------------------------------------------------------
(* The main thread's 'message' listener. *)
ManifestHook ==
    /\ process = "up"
    /\ acks # <<>>
    /\ manifest' = manifest + Head(acks)
    /\ acks' = Tail(acks)
    /\ UNCHANGED <<worker, channel, queue, log, posted, drained, lifecycle,
                   stopped_at, process>>

(* The worker thread dies: what it staged and what it had not read is gone,*)
(* the FLUSHED messages it had sent are still delivered.                   *)
WorkerError ==
    /\ WorkerMayFail
    /\ worker = "live"
    /\ worker' = "dead"
    /\ channel' = <<>>
    /\ queue' = <<>>
    /\ UNCHANGED <<log, acks, posted, drained, mainVars>>

(* lifecycle_stop(): awaits lifecycle_abort(), whose body is a comment.    *)
Stop ==
    /\ process = "up"
    /\ lifecycle = "running"
    /\ lifecycle' = "stopped"
    /\ stopped_at' = posted
    /\ UNCHANGED <<worker, channel, workerVars, manifest, posted, drained, process>>

(* The process ends: the worker is unref'd, so nothing it has to do keeps  *)
(* the process alive.                                                      *)
Exit ==
    /\ process = "up"
    /\ process' = "exited"
    /\ worker' = "dead"
    /\ channel' = <<>>
    /\ queue' = <<>>
    /\ acks' = <<>>
    /\ UNCHANGED <<log, manifest, posted, drained, lifecycle, stopped_at>>

Next == \/ Post \/ Drain \/ Stop \/ Exit
        \/ Handle \/ WorkerError
        \/ ManifestHook

Spec == Init /\ [][Next]_vars

(* Both event loops keep turning while the process is up: a message that   *)
(* arrived is handled.  Nothing obliges the program to post, drain or stop.*)
Fairness == WF_vars(Handle) /\ WF_vars(ManifestHook)

FairSpec == Spec /\ Fairness

-----------------------------------------------------------------------------
Message == [kind : {"entry", "drain"}, seq : Nat]

(* The variables hold values of their kinds; FLUSHED never reports an      *)
(* empty batch.                                                            *)
TypeOK ==
    /\ worker \in {"none", "live", "dead"}
    /\ channel \in Seq(Message)
    /\ queue \in Seq(Nat)
    /\ log \in Seq(Nat)
    /\ acks \in Seq(Nat \ {0})
    /\ manifest \in Nat
    /\ posted \in Nat
    /\ drained \in Nat
    /\ lifecycle \in {"running", "stopped"}
    /\ stopped_at \in Nat
    /\ process \in {"up", "exited"}

(* How many entries the worker has taken from the channel. *)
received == Len(log) + Len(queue)

IsEntry(k) == channel[k].kind = "entry"

(* While the worker lives, every posted entry is in exactly one place, and *)
(* log, staging queue and channel hold them in the order of the posts.     *)
LogAndQueueInOrder ==
    /\ \A i \in DOMAIN log : log[i] = i
    /\ \A j \in DOMAIN queue : queue[j] = Len(log) + j
RestOnItsWay ==
    /\ \A n \in received + 1 .. posted :
         \E k \in DOMAIN channel : IsEntry(k) /\ channel[k].seq = n
    /\ \A k \in DOMAIN channel :
         IsEntry(k) => /\ channel[k].seq \in received + 1 .. posted
                       /\ \A l \in 1 .. k - 1 : IsEntry(l) => channel[l].seq < channel[k].seq
NothingLostWhileLive == worker = "live" => LogAndQueueInOrder /\ RestOnItsWay

(* What a crash of the worker between two messages can cost is bounded:    *)
(* fewer than FLUSH_THRESHOLD entries it had read.                         *)
BoundedExposure ==
    worker = "live" /\ channel = <<>> => posted - Len(log) < FLUSH_THRESHOLD

Total(s) == LET upto[k \in 0 .. Len(s)] == IF k = 0 THEN 0 ELSE upto[k - 1] + s[k]
            IN upto[Len(s)]

(* The manifest is told of every flushed entry exactly once: what it knows *)
(* and what is on its way is what is in the log.                           *)
ManifestExact == process = "up" => manifest + Total(acks) = Len(log)

(* Handling a DRAIN leaves nothing staged and everything posted before the *)
(* drain() in the log, although posts and drain share one queue only by    *)
(* the order of the channel.                                               *)
DrainIsBarrier ==
    [][HandleDrain => queue' = <<>> /\ Len(log') >= Head(channel).seq]_vars

(* drain() has its effect: while worker and process live, all that was     *)
(* posted before it is flushed.                                            *)
DrainPending(n) ==
    \E i \in DOMAIN channel : channel[i] = [kind |-> "drain", seq |-> n]
DrainFlushes ==
    \A n \in 1 .. MaxPosts :
        DrainPending(n) ~> Len(log) >= n \/ worker = "dead"

(* "lifecycle ABORT / session end - flush everything now": when the worker *)
(* has handled all its messages after a stop, nothing posted before the    *)
(* stop is left unflushed.                                                 *)
StopFlushes ==
    lifecycle = "stopped" /\ worker = "live" /\ channel = <<>>
        => Len(log) >= stopped_at

-----------------------------------------------------------------------------
(* Client, worker and channels implement the append-only log. *)
Abstract == INSTANCE AppendLog

ImplementsAppendLog == Abstract!Spec
=============================================================================
