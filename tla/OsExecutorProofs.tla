--------------------------- MODULE OsExecutorProofs ---------------------------
(***************************************************************************)
(* Safety of OsExecutor for every set of calls and options.  Every step    *)
(* replaces calls by what a handler makes of them, so the proof is about   *)
(* one call: CallInv says what a call may look like, the lemmas say what   *)
(* the handlers do to its fields and that they keep CallInv, and the       *)
(* actions follow.                                                         *)
(***************************************************************************)
EXTENDS OsExecutor, TLAPS

(* The audit trail of a settled call: its verdict is the second entry, and *)
(* only the close of its child ends the trail.                             *)
TrailOK(o) ==
    /\ Len(o.audit) >= 2
    /\ \A i \in 1 .. Len(o.audit) :
         /\ o.audit[i].event = "RUN" <=> i = 1
         /\ o.audit[i].event = "DONE" =>
              i = Len(o.audit) /\ o.child \notin {"running", "exited"}
    /\ o.audit[2].failed = o.result.failed

(* The second error of a call is the abort's: only a first one can be that *)
(* of a kill, whose timer is then off.                                     *)
TrailBounded(o, ab) ==
    /\ o.child \in {"running", "exited"} => Len(o.audit) <= 3
    /\ o.child = "running" /\ ~ab => Len(o.audit) <= 2
    /\ Len(o.audit) <= 4

Honest(c, o) ==
    /\ ~o.result.failed =>
         o.child = "closed" /\ o.exit = "zero" /\ ~o.timed_out /\ ~o.killed
    /\ o.result.exitCode = "zero" =>
         \/ o.child = "closed" /\ o.exit = "zero"
         \/ o.child = "none" /\ c \in Synchronous
    /\ o.result.timedOut => o.timed_out
    /\ o.rejected <=> c \in Rejecting /\ o.result.failed

RunEntry == Entry("RUN", FALSE)

(* What a call may look like, ab being whether the signal has fired.       *)
CallInv(c, o, ab) ==
    /\ o \in CallStates
    /\ o.pc = "idle" => o = Idle
    /\ o.child = "exited" => o.exit \in Exits
    /\ o.pc = "pending" =>
         /\ o.audit = <<RunEntry>>
         /\ o.child \in {"running", "exited"}
         /\ o.killed => o.timed_out
         /\ ab /\ c \in Cancellable => o.child = "exited"
    /\ o.pc = "settled" =>
         o.timer = "off" /\ TrailOK(o) /\ TrailBounded(o, ab) /\ Honest(c, o)

IInv == /\ aborted \in BOOLEAN
        /\ call \in [Calls -> CallStates]
        /\ \A c \in Calls : CallInv(c, call[c], aborted)

-----------------------------------------------------------------------------
(* What the handlers do, field by field. *)

LEMMA MakeResultType ==
    ASSUME NEW code \in Codes, NEW late \in BOOLEAN, NEW error \in BOOLEAN
    PROVE  make_result(code, late, error) \in Results
BY DEF make_result, Results, Codes

LEMMA EntryType ==
    ASSUME NEW event \in {"RUN", "ERROR", "DONE"}, NEW failed \in BOOLEAN
    PROVE  /\ Entry(event, failed) \in Entries
           /\ Entry(event, failed).event = event
           /\ Entry(event, failed).failed = failed
BY DEF Entry, Entries

LEMMA AppendEntry ==
    ASSUME NEW s \in Seq(Entries), NEW e \in Entries
    PROVE  /\ Append(s, e) \in Seq(Entries)
           /\ Len(Append(s, e)) = Len(s) + 1
           /\ \A i \in 1 .. Len(s) : Append(s, e)[i] = s[i]
           /\ Append(s, e)[Len(s) + 1] = e
OBVIOUS

(* An end of a call: an entry is posted, the timer cleared, and the promise*)
(* settled unless it was before.                                           *)
Ends(c, o, n, event, result) ==
    /\ n \in CallStates
    /\ n.pc = "settled" /\ n.timer = "off"
    /\ n.timed_out = o.timed_out /\ n.child = o.child
    /\ n.exit = o.exit /\ n.killed = o.killed
    /\ n.audit = Append(o.audit, Entry(event, result.failed))
    /\ n.result = IF o.pc = "settled" THEN o.result ELSE result
    /\ n.rejected = IF o.pc = "settled" THEN o.rejected
                                        ELSE c \in Rejecting /\ result.failed

LEMMA SettleEnds ==
    ASSUME NEW c, NEW o \in CallStates, NEW result \in Results,
           NEW event \in {"RUN", "ERROR", "DONE"}
    PROVE  Ends(c, o, Settle(c, Post(ClearTimer(o), event, result.failed), result),
                event, result)
<1> DEFINE e == Entry(event, result.failed)
           p == Post(ClearTimer(o), event, result.failed)
           a == Append(o.audit, e)
<1>1. o.audit \in Seq(Entries) /\ result.failed \in BOOLEAN
  BY DEF CallStates, Results
<1>2. a \in Seq(Entries)
  BY <1>1, EntryType, AppendEntry
<1>3. p = [o EXCEPT !.timer = "off", !.audit = a]
  BY DEF Post, ClearTimer, CallStates
<1> HIDE DEF a, p
<1>4. /\ p \in CallStates /\ p.audit = a /\ p.timer = "off" /\ p.pc = o.pc
      /\ p.timed_out = o.timed_out /\ p.child = o.child /\ p.exit = o.exit
      /\ p.killed = o.killed /\ p.result = o.result /\ p.rejected = o.rejected
  BY <1>2, <1>3 DEF CallStates
<1>5. CASE p.pc = "settled"
  BY <1>4, <1>5 DEF Ends, Settle, a, p
<1>6. CASE p.pc # "settled"
  <2> DEFINE n == Settle(c, p, result)
             r == c \in Rejecting /\ result.failed
  <2>1. n = [p EXCEPT !.pc = "settled", !.result = result, !.rejected = r]
    BY <1>6 DEF Settle
  <2>2. r \in BOOLEAN
    OBVIOUS
  <2> HIDE DEF n, r
  <2>3. n \in CallStates
    BY <1>4, <2>1, <2>2 DEF CallStates
  <2>4. /\ n.pc = "settled" /\ n.result = result /\ n.rejected = r
        /\ n.audit = a /\ n.timer = "off" /\ n.timed_out = o.timed_out
        /\ n.child = o.child /\ n.exit = o.exit /\ n.killed = o.killed
    BY <1>4, <2>1 DEF CallStates
  <2>5. QED
    BY <1>4, <1>6, <2>3, <2>4 DEF Ends, a, r, n, p
<1>7. QED
  BY <1>5, <1>6

LEMMA ErrorEnds ==
    ASSUME NEW c, NEW o \in CallStates
    PROVE  Ends(c, o, OnError(c, o), "ERROR", make_result("nonzero", o.timed_out, TRUE))
<1> DEFINE result == make_result("nonzero", o.timed_out, TRUE)
<1>1. result \in Results
  BY MakeResultType DEF Codes, CallStates
<1>2. result.failed = TRUE
  BY DEF make_result
<1>3. OnError(c, o) = Settle(c, Post(ClearTimer(o), "ERROR", result.failed), result)
  BY <1>2 DEF OnError
<1> HIDE DEF result
<1>4. QED
  BY <1>1, <1>3, SettleEnds DEF result

(* A call to which an error may come: it waits, or it is over and its child*)
(* still runs.                                                             *)
Erring(c, o, ab) ==
    /\ o \in CallStates
    /\ o.pc # "settled" => o.audit = <<RunEntry>>
    /\ o.pc = "settled" =>
         TrailOK(o) /\ Honest(c, o) /\ Len(o.audit) = 2 /\ o.child = "running"
    /\ o.child = "running" /\ ~ab => o.pc # "settled"
    /\ o.child = "exited" => o.exit \in Exits

LEMMA ErrorKeeps ==
    ASSUME NEW c, NEW o, NEW ab \in BOOLEAN, Erring(c, o, ab)
    PROVE  CallInv(c, OnError(c, o), ab)
<1> DEFINE n == OnError(c, o)
           result == make_result("nonzero", o.timed_out, TRUE)
<1>1. o \in CallStates /\ o.audit \in Seq(Entries) /\ o.timed_out \in BOOLEAN
  BY DEF Erring, CallStates
<1>2. Ends(c, o, n, "ERROR", result)
  BY <1>1, ErrorEnds
<1>3. /\ result.failed = TRUE /\ result.timedOut = o.timed_out
      /\ result.exitCode = "nonzero"
  BY DEF make_result
<1> HIDE DEF n, result
<1> DEFINE e == Entry("ERROR", result.failed)
           s == o.audit
<1>a. n.audit = Append(s, e)
  BY <1>2 DEF Ends
<1>b. e \in Entries /\ e.event = "ERROR" /\ e.failed = TRUE
  BY <1>3, EntryType
<1> HIDE DEF e
<1>4. /\ Len(n.audit) = Len(s) + 1
      /\ \A i \in 1 .. Len(s) : n.audit[i] = s[i]
      /\ n.audit[Len(s) + 1] = e
  BY <1>1, <1>a, <1>b, AppendEntry
<1>c. /\ n \in CallStates /\ n.pc = "settled" /\ n.timer = "off"
      /\ n.child = o.child /\ n.exit = o.exit
      /\ n.killed = o.killed /\ n.timed_out = o.timed_out
      /\ o.pc = "settled" => n.result = o.result /\ n.rejected = o.rejected
      /\ o.pc # "settled" => n.result = result
  BY <1>2 DEF Ends
<1>5. CASE o.pc = "settled"
  <2>0. /\ Len(o.audit) = 2 /\ TrailOK(o) /\ Honest(c, o)
        /\ o.child = "running" /\ ab
    BY <1>5 DEF Erring
  <2>1. /\ Len(o.audit) = 2 /\ Len(n.audit) = 3 /\ TrailOK(o) /\ Honest(c, o)
        /\ n.child = "running" /\ o.child = "running" /\ ab
    BY <1>4, <1>c, <2>0
  <2>2. n.audit[3].event = "ERROR" /\ n.audit[1] = o.audit[1] /\ n.audit[2] = o.audit[2]
    BY <1>4, <1>b, <2>1
  <2>3. n.result = o.result /\ n.rejected = o.rejected
    BY <1>2, <1>5 DEF Ends
  <2>4. TrailOK(n)
    <3>1. \A i \in 1 .. 3 : i = 1 \/ i = 2 \/ i = 3
      OBVIOUS
    <3>2. /\ o.audit[1].event = "RUN" /\ o.audit[2].event # "RUN"
          /\ o.audit[1].event # "DONE" /\ o.audit[2].event # "DONE"
      BY <2>1 DEF TrailOK
    <3>3. QED
      BY <2>1, <2>2, <2>3, <3>1, <3>2 DEF TrailOK
  <2>5. Honest(c, n)
    BY <1>2, <2>1, <2>3 DEF Honest, Ends
  <2>6. TrailBounded(n, ab)
    BY <2>1 DEF TrailBounded
  <2>7. QED
    BY <1>c, <2>4, <2>5, <2>6 DEF CallInv, Erring, n
<1>6. CASE o.pc # "settled"
  <2> DEFINE run == RunEntry
  <2>0. o.audit = <<run>>
    BY <1>6 DEF Erring
  <2> HIDE DEF run
  <2>1. Len(o.audit) = 1 /\ o.audit[1] = run
    BY <2>0
  <2>a. run.event = "RUN"
    BY EntryType DEF run, RunEntry
  <2>2. Len(n.audit) = 2 /\ n.audit[1] = run /\ n.audit[2] = e
    BY <1>4, <2>1
  <2>3. n.result = result /\ n.rejected = (c \in Rejecting /\ result.failed)
    BY <1>2, <1>6 DEF Ends
  <2>4. TrailOK(n)
    <3>1. \A i \in 1 .. 2 : i = 1 \/ i = 2
      OBVIOUS
    <3>2. /\ n.audit[1].event = "RUN" /\ n.audit[2].event = "ERROR"
          /\ n.audit[2].failed = n.result.failed
      BY <1>b, <1>3, <2>a, <2>2, <2>3
    <3>3. QED
      BY <2>2, <3>1, <3>2 DEF TrailOK
  <2>5. Honest(c, n)
    BY <1>2, <1>3, <2>3 DEF Honest, Ends
  <2>6. TrailBounded(n, ab)
    BY <2>2 DEF TrailBounded
  <2>7. QED
    BY <1>c, <2>4, <2>5, <2>6 DEF CallInv, Erring, n
<1>7. QED
  BY <1>5, <1>6

(* The close of a call, asynchronous or not: what it did before is no more *)
(* than RUN and errors.                                                    *)
Closing(c, o) ==
    /\ o \in CallStates
    /\ o.child \in {"none", "closed"}
    /\ Len(o.audit) \in 1 .. 3
    /\ \A i \in 1 .. Len(o.audit) : o.audit[i].event # "DONE"
    /\ \A i \in 1 .. Len(o.audit) : o.audit[i].event = "RUN" <=> i = 1
    /\ o.pc # "settled" => Len(o.audit) = 1
    /\ o.pc = "settled" => Len(o.audit) >= 2 /\ o.audit[2].failed = o.result.failed /\ Honest(c, o)

LEMMA CloseKeeps ==
    ASSUME NEW c, NEW o, NEW n, NEW ab \in BOOLEAN, NEW result \in Results,
           Closing(c, o), Ends(c, o, n, "DONE", result),
           o.pc # "settled" =>
             /\ ~result.failed => /\ o.child = "closed" /\ o.exit = "zero"
                                  /\ ~o.timed_out /\ ~o.killed
             /\ result.timedOut => o.timed_out
             /\ result.exitCode = "zero" =>
                  \/ o.child = "closed" /\ o.exit = "zero"
                  \/ o.child = "none" /\ c \in Synchronous
    PROVE  CallInv(c, n, ab)
<1>1. o.audit \in Seq(Entries) /\ result.failed \in BOOLEAN
  BY DEF Closing, CallStates, Results
<1> DEFINE e == Entry("DONE", result.failed)
<1>a. n.audit = Append(o.audit, e)
  BY DEF Ends
<1>b. e \in Entries /\ e.event = "DONE" /\ e.failed = result.failed
  BY <1>1, EntryType
<1> HIDE DEF e
<1>2. /\ Len(n.audit) = Len(o.audit) + 1
      /\ \A i \in 1 .. Len(o.audit) : n.audit[i] = o.audit[i]
      /\ n.audit[Len(o.audit) + 1] = e
  BY <1>1, <1>a, <1>b, AppendEntry
<1>c. /\ n.child = o.child /\ n.exit = o.exit
      /\ n.killed = o.killed /\ n.timed_out = o.timed_out
      /\ o.pc = "settled" => n.result = o.result /\ n.rejected = o.rejected
      /\ o.pc # "settled" => n.result = result
  BY DEF Ends
<1>3. Len(o.audit) \in 1 .. 3
  BY DEF Closing
<1>4. n.audit[2].failed = n.result.failed
  <2>1. CASE o.pc = "settled"
    <3>1. n.audit[2] = o.audit[2] /\ n.result = o.result
      BY <1>2, <1>3, <2>1 DEF Closing, Ends
    <3>2. QED
      BY <2>1, <3>1 DEF Closing
  <2>2. CASE o.pc # "settled"
    <3>0. Len(o.audit) = 1
      BY <2>2 DEF Closing
    <3>1. n.audit[2] = e /\ n.result = result
      BY <1>2, <1>c, <2>2, <3>0
    <3>2. QED
      BY <1>b, <3>1
  <2>3. QED
    BY <2>1, <2>2
<1>5. \A i \in 1 .. Len(n.audit) : /\ n.audit[i].event = "RUN" <=> i = 1
                                   /\ n.audit[i].event = "DONE" => i = Len(n.audit)
  <2>1. SUFFICES ASSUME NEW i \in 1 .. Len(n.audit)
                 PROVE  /\ n.audit[i].event = "RUN" <=> i = 1
                        /\ n.audit[i].event = "DONE" => i = Len(n.audit)
    OBVIOUS
  <2>2. CASE i \in 1 .. Len(o.audit)
    BY <1>2, <1>3, <2>2 DEF Closing
  <2>3. CASE i = Len(o.audit) + 1
    <3>1. n.audit[i].event = "DONE"
      BY <1>2, <1>b, <2>3
    <3>0. Len(n.audit) = Len(o.audit) + 1
      BY <1>2
    <3>2. i # 1 /\ i = Len(n.audit)
      BY <1>3, <2>3, <3>0
    <3>3. QED
      BY <3>1, <3>2
  <2>4. QED
    BY <1>2, <1>3, <2>1, <2>2, <2>3
<1>6. TrailOK(n)
  BY <1>2, <1>3, <1>4, <1>5 DEF TrailOK, Ends, Closing
<1>7. Honest(c, n)
  BY DEF Honest, Ends, Closing
<1>8. TrailBounded(n, ab)
  BY <1>2, <1>3 DEF TrailBounded, Ends, Closing
<1>9. QED
  BY <1>6, <1>7, <1>8, <1>c DEF CallInv, Ends, Closing

-----------------------------------------------------------------------------
(* A call that has just begun. *)

Fresh(o) ==
    /\ o \in CallStates
    /\ o.pc # "settled"
    /\ o.audit = <<RunEntry>>
    /\ o.timed_out = FALSE /\ o.killed = FALSE

LEMMA IdleFields ==
    /\ Idle \in CallStates /\ Idle.pc = "idle" /\ Idle.timer = "off"
    /\ Idle.child = "none" /\ Idle.exit = "none" /\ Idle.audit = <<>>
    /\ Idle.timed_out = FALSE /\ Idle.killed = FALSE
<1> DEFINE r == make_result("zero", FALSE, FALSE)
<1>1. r \in Results
  BY MakeResultType DEF Codes
<1> HIDE DEF r
<1>2. Idle = [pc |-> "idle", timer |-> "off", timed_out |-> FALSE,
              child |-> "none", exit |-> "none", killed |-> FALSE,
              result |-> r, rejected |-> FALSE, audit |-> <<>>]
  BY DEF Idle, r
<1>3. <<>> \in Seq(Entries)
  OBVIOUS
<1>4. QED
  BY <1>1, <1>2, <1>3 DEF CallStates, Exits, Codes

LEMMA FreshPost ==
    /\ Fresh(Post(Idle, "RUN", FALSE))
    /\ Post(Idle, "RUN", FALSE).timer = "off"
    /\ Post(Idle, "RUN", FALSE).child = "none"
    /\ Post(Idle, "RUN", FALSE).pc = "idle"
    /\ Post(Idle, "RUN", FALSE).exit = "none"
<1> DEFINE e == RunEntry
           a == <<e>>
<1>1. e \in Entries
  BY EntryType DEF RunEntry
<1> HIDE DEF e
<1>2. a \in Seq(Entries) /\ Append(<<>>, e) = a
  BY <1>1
<1>3. Post(Idle, "RUN", FALSE) = [Idle EXCEPT !.audit = Append(Idle.audit, e)]
  BY DEF Post, e, RunEntry
<1>4. Post(Idle, "RUN", FALSE) = [Idle EXCEPT !.audit = a]
  BY <1>2, <1>3, IdleFields
<1> HIDE DEF a
<1>5. /\ Post(Idle, "RUN", FALSE) \in CallStates
      /\ Post(Idle, "RUN", FALSE).audit = a
  BY <1>2, <1>4, IdleFields DEF CallStates
<1>6. QED
  BY <1>4, <1>5, IdleFields DEF Fresh, CallStates, a, e

LEMMA FreshRunning ==
    ASSUME NEW c \in Calls, call[c] = Idle
    PROVE  /\ Fresh(Running(c))
           /\ Running(c).pc = "pending" /\ Running(c).child = "running"
<1> DEFINE p == Post(Idle, "RUN", FALSE)
           t == IF c \in WithTimeout THEN "armed" ELSE "off"
<1>1. Running(c) = [p EXCEPT !.pc = "pending", !.child = "running", !.timer = t]
  BY DEF Running
<1>2. t \in {"off", "armed"}
  OBVIOUS
<1>3. Fresh(p)
  BY FreshPost
<1> HIDE DEF p, t
<1>4. QED
  BY <1>1, <1>2, <1>3 DEF Fresh, CallStates

-----------------------------------------------------------------------------
(* What each action makes of its call. *)

LEMMA ThrowKeeps ==
    ASSUME NEW c \in Calls, NEW ab \in BOOLEAN
    PROVE  CallInv(c, OnError(c, Post(Idle, "RUN", FALSE)), ab)
BY FreshPost, ErrorKeeps DEF Erring, Fresh

LEMMA FailKeeps ==
    ASSUME NEW c \in Calls, NEW ab \in BOOLEAN, call[c] = Idle
    PROVE  CallInv(c, OnError(c, [Running(c) EXCEPT !.child = "exited", !.exit = "nonzero"]), ab)
<1> DEFINE r == Running(c)
           n == [r EXCEPT !.child = "exited", !.exit = "nonzero"]
<1>1. Fresh(r)
  BY FreshRunning
<1> HIDE DEF r
<1>2. /\ n \in CallStates /\ n.pc = r.pc /\ n.audit = r.audit
      /\ n.child = "exited" /\ n.exit \in Exits
  BY <1>1 DEF Fresh, CallStates, Exits, Codes
<1>3. Erring(c, n, ab)
  BY <1>1, <1>2 DEF Fresh, Erring
<1>4. QED
  BY <1>3, ErrorKeeps DEF r

LEMMA StartKeeps ==
    ASSUME NEW c \in Calls, NEW ab \in BOOLEAN, call[c] = Idle,
           ~(ab /\ HearsAbort(c, Running(c)))
    PROVE  CallInv(c, Running(c), ab)
<1>1. Fresh(Running(c)) /\ Running(c).pc = "pending" /\ Running(c).child = "running"
  BY FreshRunning
<1>2. QED
  BY <1>1 DEF CallInv, Fresh, HearsAbort

LEMMA AbortedKeeps ==
    ASSUME NEW c \in Calls, NEW deliverable \in BOOLEAN, NEW o \in CallStates,
           o.child = "running",
           Fresh(o) \/ CallInv(c, o, FALSE)
    PROVE  CallInv(c, AbortChild(c, o, deliverable), TRUE)
<1> DEFINE k == o.killed \/ deliverable
           n == [o EXCEPT !.killed = k]
<1>1. k \in BOOLEAN
  BY DEF CallStates
<1> HIDE DEF k
<1>2. /\ n \in CallStates /\ n.pc = o.pc /\ n.audit = o.audit /\ n.child = "running"
      /\ n.result = o.result /\ n.rejected = o.rejected /\ n.timed_out = o.timed_out
  BY <1>1 DEF CallStates
<1> HIDE DEF n
<1>3. o.pc # "settled" => o.audit = <<RunEntry>>
  <2>1. CASE Fresh(o)
    BY <2>1 DEF Fresh
  <2>2. CASE CallInv(c, o, FALSE)
    <3>1. o.pc # "idle"
      BY <2>2, IdleFields DEF CallInv
    <3>2. QED
      BY <2>2, <3>1 DEF CallInv, CallStates
  <2>3. QED
    BY <2>1, <2>2
<1>4. ASSUME o.pc = "settled"
      PROVE  TrailOK(n) /\ Honest(c, n) /\ Len(n.audit) = 2
  <2>1. TrailOK(o) /\ Honest(c, o) /\ TrailBounded(o, FALSE)
    BY <1>4 DEF CallInv, Fresh
  <2>2. TrailOK(n)
    BY <1>2, <2>1 DEF TrailOK
  <2>3. Honest(c, n)
    BY <1>2, <2>1 DEF Honest
  <2>4. Len(n.audit) = 2
    <3>1. o.audit \in Seq(Entries)
      BY DEF CallStates
    <3> DEFINE len == Len(o.audit)
    <3>2. len \in Nat /\ len >= 2 /\ len <= 2
      BY <2>1, <3>1 DEF TrailOK, TrailBounded
    <3> HIDE DEF len
    <3>3. len = 2
      BY <3>2
    <3>4. QED
      BY <1>2, <3>3 DEF len
  <2>5. QED
    BY <2>2, <2>3, <2>4
<1>5. Erring(c, n, TRUE)
  BY <1>2, <1>3, <1>4 DEF Erring
<1>6. AbortChild(c, o, deliverable) = OnError(c, n)
  BY DEF AbortChild, n, k
<1>7. QED
  BY <1>5, <1>6, ErrorKeeps

LEMMA UnabortedKeeps ==
    ASSUME NEW c \in Calls, NEW o, CallInv(c, o, FALSE), ~HearsAbort(c, o)
    PROVE  CallInv(c, o, TRUE)
<1>1. CASE o.pc = "idle"
  BY <1>1 DEF CallInv
<1>2. CASE o.pc = "pending"
  BY <1>2 DEF CallInv, HearsAbort
<1>3. CASE o.pc = "settled"
  BY <1>3 DEF CallInv, TrailBounded
<1>4. QED
  BY <1>1, <1>2, <1>3 DEF CallInv, CallStates

LEMMA TimeoutKeeps ==
    ASSUME NEW c \in Calls, NEW o, NEW deliverable \in BOOLEAN, NEW ab \in BOOLEAN,
           CallInv(c, o, ab), o.timer = "armed",
           NEW n, n = [o EXCEPT !.timer = "off", !.timed_out = TRUE]
    PROVE  CallInv(c, IF o.child = "running" THEN Kill(c, n, deliverable) ELSE n, ab)
<1>1. o \in CallStates /\ o.pc = "pending"
  BY IdleFields DEF CallInv, CallStates
<1>2. /\ n \in CallStates /\ n.pc = "pending" /\ n.audit = o.audit
      /\ n.child = o.child /\ n.timed_out = TRUE /\ n.timer = "off"
      /\ n.exit = o.exit
  BY <1>1 DEF CallStates
<1>3. n.audit = <<RunEntry>>
  BY <1>1, <1>2 DEF CallInv, RunEntry
<1>4. CASE o.child = "running" /\ deliverable
  <2> DEFINE k == [n EXCEPT !.killed = TRUE]
  <2>1. /\ k \in CallStates /\ k.pc = "pending" /\ k.audit = o.audit
        /\ k.child = o.child /\ k.timed_out = TRUE /\ k.exit = o.exit
    BY <1>2 DEF CallStates
  <2> HIDE DEF k
  <2>2. CallInv(c, k, ab)
    BY <1>1, <1>4, <2>1 DEF CallInv
  <2>3. QED
    BY <1>4, <2>2 DEF Kill, k
<1>5. CASE o.child = "running" /\ ~deliverable
  <2>1. Erring(c, n, ab)
    BY <1>2, <1>3, <1>5 DEF Erring
  <2>2. QED
    BY <1>5, <2>1, ErrorKeeps DEF Kill
<1>6. CASE o.child # "running"
  <2>1. CallInv(c, n, ab)
    BY <1>1, <1>2 DEF CallInv
  <2>2. QED
    BY <1>6, <2>1
<1>7. QED
  BY <1>4, <1>5, <1>6

LEMMA ExitKeeps ==
    ASSUME NEW c \in Calls, NEW o, NEW code \in Exits, NEW ab \in BOOLEAN,
           CallInv(c, o, ab), o.child = "running"
    PROVE  CallInv(c, [o EXCEPT !.child = "exited", !.exit = code], ab)
<1> DEFINE n == [o EXCEPT !.child = "exited", !.exit = code]
<1>1. o \in CallStates /\ o.pc # "idle"
  BY IdleFields DEF CallInv
<1>2. /\ n \in CallStates /\ n.pc = o.pc /\ n.audit = o.audit /\ n.timer = o.timer
      /\ n.child = "exited" /\ n.killed = o.killed /\ n.timed_out = o.timed_out
      /\ n.result = o.result /\ n.rejected = o.rejected /\ n.exit = code
  BY <1>1 DEF CallStates, Exits
<1> HIDE DEF n
<1>3. CASE o.pc = "pending"
  BY <1>2, <1>3 DEF CallInv, n
<1>4. CASE o.pc = "settled"
  <2>1. TrailOK(o) /\ TrailBounded(o, ab) /\ Honest(c, o) /\ n.timer = "off"
    BY <1>2, <1>4 DEF CallInv
  <2>2. TrailOK(n)
    BY <1>2, <2>1 DEF TrailOK
  <2>3. TrailBounded(n, ab)
    BY <1>2, <2>1 DEF TrailBounded
  <2>4. Honest(c, n)
    BY <1>2, <2>1 DEF Honest
  <2>5. QED
    BY <1>2, <1>4, <2>1, <2>2, <2>3, <2>4 DEF CallInv, n
<1>5. QED
  BY <1>1, <1>3, <1>4 DEF CallStates, n

LEMMA ClosedKeeps ==
    ASSUME NEW c \in Calls, NEW o, NEW ab \in BOOLEAN,
           CallInv(c, o, ab), o.child = "exited"
    PROVE  CallInv(c, OnClose(c, [o EXCEPT !.child = "closed"]), ab)
<1> DEFINE p == [o EXCEPT !.child = "closed"]
           code == IF p.exit = "signal" THEN "nonzero" ELSE p.exit
           result == CloseResult(p)
           n == OnClose(c, p)
<1>1. o \in CallStates /\ o.pc # "idle" /\ o.exit \in Exits
  BY IdleFields DEF CallInv
<1>2. /\ p \in CallStates /\ p.pc = o.pc /\ p.audit = o.audit /\ p.exit = o.exit
      /\ p.child = "closed" /\ p.killed = o.killed /\ p.timed_out = o.timed_out
      /\ p.result = o.result /\ p.rejected = o.rejected
  BY <1>1 DEF CallStates
<1> HIDE DEF p
<1>3. code \in Codes /\ (code = "zero" => p.exit = "zero") /\ p.timed_out \in BOOLEAN
  BY <1>1, <1>2 DEF Exits, Codes, CallStates
<1>4. result = make_result(code, p.timed_out, FALSE)
  BY DEF CloseResult
<1>5. result \in Results
  BY <1>3, <1>4, MakeResultType
<1> HIDE DEF code, result
<1>a. /\ result.timedOut = p.timed_out /\ result.failed = (code # "zero" \/ p.timed_out)
      /\ result.exitCode = code
  BY <1>4 DEF make_result
<1>6. /\ result.timedOut = p.timed_out
      /\ ~result.failed => p.exit = "zero" /\ ~p.timed_out
      /\ result.exitCode = "zero" => p.exit = "zero"
  BY <1>3, <1>a
<1>7. Ends(c, p, n, "DONE", result)
  BY <1>2, <1>5, SettleEnds DEF OnClose, n, result
<1>8. CASE o.pc = "pending"
  <2>1. Closing(c, p)
    <3>1. p.audit = <<RunEntry>> /\ RunEntry.event = "RUN"
      BY <1>2, <1>8, EntryType DEF CallInv, RunEntry
    <3>2. Len(p.audit) = 1 /\ p.audit[1].event = "RUN"
      BY <3>1
    <3>3. \A i \in 1 .. Len(p.audit) : i = 1
      BY <3>2
    <3>4. QED
      BY <1>2, <1>8, <3>2, <3>3 DEF Closing
  <2>2. p.killed => p.timed_out
    BY <1>2, <1>8 DEF CallInv
  <2>3. QED
    BY <1>2, <1>5, <1>6, <1>7, <2>1, <2>2, CloseKeeps DEF n, p
<1>9. CASE o.pc = "settled"
  <2>1. TrailOK(o) /\ TrailBounded(o, ab) /\ Honest(c, o)
    BY <1>9 DEF CallInv
  <2>2. o.result.failed /\ o.result.exitCode # "zero"
    BY <2>1 DEF Honest
  <2>3. Honest(c, p)
    BY <1>2, <2>1, <2>2 DEF Honest
  <2>4. Closing(c, p)
    <3>1. o.audit \in Seq(Entries)
      BY <1>1 DEF CallStates
    <3> DEFINE len == Len(o.audit)
    <3>2. len \in Nat /\ len >= 2 /\ len <= 3
      BY <1>2, <2>1, <3>1 DEF TrailOK, TrailBounded
    <3>3. len >= 2
      BY <3>2
    <3>4. /\ \A i \in 1 .. Len(o.audit) : o.audit[i].event # "DONE"
          /\ \A i \in 1 .. Len(o.audit) : o.audit[i].event = "RUN" <=> i = 1
          /\ o.audit[2].failed = o.result.failed
      BY <2>1 DEF TrailOK
    <3> HIDE DEF len
    <3>5. len \in 1 .. 3
      BY <3>2
    <3> USE DEF len
    <3>6. QED
      BY <1>2, <1>9, <2>3, <3>3, <3>4, <3>5 DEF Closing
  <2>5. QED
    BY <1>2, <1>5, <1>7, <1>9, <2>4, CloseKeeps DEF n, p
<1>10. QED
  BY <1>1, <1>8, <1>9 DEF CallStates, n, p

LEMMA SyncKeeps ==
    ASSUME NEW c \in Synchronous, NEW exit \in Exits \cup {"none"}, NEW killer \in Killers,
           NEW ab \in BOOLEAN, call[c] = Idle, killer # "nobody" => exit # "none"
    PROVE  CallInv(c, SyncEnds(c, exit, killer), ab)
<1> DEFINE late == killer = "timeout"
           killed == killer # "nobody"
           q == Post(Idle, "RUN", FALSE)
           child == IF exit = "none" THEN "none" ELSE "closed"
           p == [q EXCEPT !.child = child, !.exit = exit, !.killed = killed, !.timed_out = late]
           code == SyncCode(exit)
           error == killed \/ exit = "none"
           result == make_result(code, late, error)
           n == SyncEnds(c, exit, killer)
<1>1. code \in Codes /\ error \in BOOLEAN
  BY DEF SyncCode, Codes, Exits
<1>2. result \in Results
  BY <1>1, MakeResultType
<1>3. child \in {"none", "closed"}
  OBVIOUS
<1>4. Fresh(q) /\ q.timer = "off" /\ q.pc = "idle"
  BY FreshPost
<1>5. n = Settle(c, Post(p, "DONE", result.failed), result)
  BY DEF SyncEnds
<1>6. /\ code = "zero" => exit \in {"zero", "none"}
      /\ exit # "none" => child = "closed"
      /\ exit = "none" => child = "none"
  BY DEF SyncCode, Codes, Exits
<1> HIDE DEF q, child, code, error
<1>7. /\ p \in CallStates /\ p.pc = "idle" /\ p.timer = "off" /\ p.audit = <<RunEntry>>
      /\ p.child = child /\ p.exit = exit /\ p.killed = killed /\ p.timed_out = late
  BY <1>3, <1>4 DEF Fresh, CallStates
<1>8. /\ result.timedOut = late /\ result.failed = (code # "zero" \/ late \/ error)
      /\ result.exitCode = code
  BY DEF make_result
<1> HIDE DEF p, result, n
<1>9. ClearTimer(p) = p
  BY <1>7 DEF ClearTimer, CallStates
<1>10. Ends(c, p, n, "DONE", result)
  BY <1>2, <1>5, <1>7, <1>9, SettleEnds
<1>11. Closing(c, p)
  <2>1. RunEntry.event = "RUN"
    BY EntryType DEF RunEntry
  <2>2. Len(p.audit) = 1 /\ p.audit[1].event = "RUN"
    BY <1>7, <2>1
  <2>3. \A i \in 1 .. Len(p.audit) : i = 1
    BY <2>2
  <2>4. QED
    BY <1>3, <1>7, <2>2, <2>3 DEF Closing
<1>12. ~result.failed => /\ p.child = "closed" /\ p.exit = "zero"
                         /\ ~p.timed_out /\ ~p.killed
  <2>1. SUFFICES ASSUME ~result.failed
                 PROVE  /\ p.child = "closed" /\ p.exit = "zero"
                        /\ ~p.timed_out /\ ~p.killed
    OBVIOUS
  <2>2. code = "zero" /\ ~late /\ ~error
    BY <1>8, <2>1
  <2>3. exit # "none" /\ ~killed
    BY <2>2 DEF error
  <2>4. QED
    BY <1>6, <1>7, <2>2, <2>3
<1>13. result.timedOut => p.timed_out
  BY <1>7, <1>8
<1>14. result.exitCode = "zero" => \/ p.child = "closed" /\ p.exit = "zero"
                                   \/ p.child = "none" /\ c \in Synchronous
  BY <1>6, <1>7, <1>8
<1>15. QED
  BY <1>2, <1>10, <1>11, <1>12, <1>13, <1>14, CloseKeeps DEF n

-----------------------------------------------------------------------------
(* The inductive invariant. *)

LEMMA InitInv == Init => IInv
<1> SUFFICES ASSUME Init PROVE IInv
  OBVIOUS
<1>1. call \in [Calls -> CallStates]
  BY IdleFields DEF Init
<1>2. \A c \in Calls : CallInv(c, call[c], aborted)
  BY IdleFields DEF Init, CallInv
<1>3. QED
  BY <1>1, <1>2 DEF IInv, Init

(* One call changes to what CallInv allows. *)
LEMMA OneCall ==
    ASSUME IInv, NEW c \in Calls, NEW n, CallInv(c, n, aborted),
           call' = [call EXCEPT ![c] = n], UNCHANGED aborted
    PROVE  IInv'
<1>1. n \in CallStates
  BY DEF CallInv
<1>2. call' \in [Calls -> CallStates]
  BY <1>1 DEF IInv
<1>3. ASSUME NEW d \in Calls
      PROVE  CallInv(d, call'[d], aborted')
  <2>1. CASE d = c
    BY <2>1 DEF IInv
  <2>2. CASE d # c
    <3>1. call'[d] = call[d] /\ CallInv(d, call[d], aborted)
      BY <2>2 DEF IInv
    <3>2. QED
      BY <3>1
  <2>3. QED
    BY <2>1, <2>2
<1>4. QED
  BY <1>2, <1>3 DEF IInv

LEMMA NextInv == IInv /\ [Next]_vars => IInv'
<1> SUFFICES ASSUME IInv, [Next]_vars PROVE IInv'
  OBVIOUS
<1>1. aborted \in BOOLEAN
  BY DEF IInv
<1>2. ASSUME NEW c \in Calls, call[c].pc = "idle" PROVE call[c] = Idle
  BY <1>2 DEF IInv, CallInv
<1>3. ASSUME NEW c \in Calls, Start(c) PROVE IInv'
  <2>1. call[c] = Idle
    BY <1>2, <1>3 DEF Start
  <2>2. CASE aborted /\ HearsAbort(c, Running(c))
    <3>1. PICK deliverable \in BOOLEAN :
            call' = [call EXCEPT ![c] = AbortChild(c, Running(c), deliverable)]
      BY <1>3, <2>2 DEF Start
    <3>2. Fresh(Running(c)) /\ Running(c).child = "running" /\ Running(c) \in CallStates
      BY <2>1, FreshRunning DEF Fresh
    <3>3. CallInv(c, AbortChild(c, Running(c), deliverable), TRUE)
      BY <3>2, AbortedKeeps
    <3>4. aborted = TRUE
      BY <1>1, <2>2
    <3>5. CallInv(c, AbortChild(c, Running(c), deliverable), aborted)
      BY <3>3, <3>4
    <3>6. QED
      BY <1>3, <3>1, <3>5, OneCall DEF Start
  <2>3. CASE ~(aborted /\ HearsAbort(c, Running(c)))
    <3>1. CallInv(c, Running(c), aborted)
      BY <1>1, <2>1, <2>3, StartKeeps
    <3>2. QED
      BY <1>3, <2>3, <3>1, OneCall DEF Start
  <2>4. QED
    BY <2>2, <2>3
<1>4. ASSUME NEW c \in Calls, SpawnThrows(c) PROVE IInv'
  <2>1. call[c] = Idle
    BY <1>2, <1>4 DEF SpawnThrows
  <2>2. CallInv(c, OnError(c, Post(call[c], "RUN", FALSE)), aborted)
    BY <1>1, <2>1, ThrowKeeps
  <2>3. QED
    BY <1>4, <2>2, OneCall DEF SpawnThrows
<1>5. ASSUME NEW c \in Calls, SpawnFails(c) PROVE IInv'
  <2>1. call[c] = Idle
    BY <1>2, <1>5 DEF SpawnFails
  <2>2. CallInv(c, OnError(c, [Running(c) EXCEPT !.child = "exited", !.exit = "nonzero"]),
                aborted)
    BY <1>1, <2>1, FailKeeps
  <2>3. QED
    BY <1>5, <2>2, OneCall DEF SpawnFails
<1>6. ASSUME NEW c \in Calls, TimeoutFires(c) PROVE IInv'
  <2> DEFINE late == [call[c] EXCEPT !.timer = "off", !.timed_out = TRUE]
             n(d) == IF call[c].child = "running" THEN Kill(c, late, d) ELSE late
  <2>1. PICK deliverable \in BOOLEAN : call' = [call EXCEPT ![c] = n(deliverable)]
    BY <1>6 DEF TimeoutFires
  <2>2. CallInv(c, call[c], aborted) /\ call[c].timer = "armed"
    BY <1>6 DEF IInv, TimeoutFires
  <2>3. CallInv(c, n(deliverable), aborted)
    BY <1>1, <2>2, TimeoutKeeps
  <2> HIDE DEF n
  <2>4. QED
    BY <1>6, <2>1, <2>3, OneCall DEF TimeoutFires
<1>7. ASSUME NEW c \in Calls, Exit(c) PROVE IInv'
  <2>1. PICK code \in Exits :
          call' = [call EXCEPT ![c] = [call[c] EXCEPT !.child = "exited", !.exit = code]]
    BY <1>7 DEF Exit
  <2>2. CallInv(c, call[c], aborted) /\ call[c].child = "running"
    BY <1>7 DEF IInv, Exit
  <2>3. CallInv(c, [call[c] EXCEPT !.child = "exited", !.exit = code], aborted)
    BY <1>1, <2>2, ExitKeeps
  <2>4. QED
    BY <1>7, <2>1, <2>3, OneCall DEF Exit
<1>8. ASSUME NEW c \in Calls, Close(c) PROVE IInv'
  <2>1. CallInv(c, call[c], aborted) /\ call[c].child = "exited"
    BY <1>8 DEF IInv, Close
  <2>2. CallInv(c, OnClose(c, [call[c] EXCEPT !.child = "closed"]), aborted)
    BY <1>1, <2>1, ClosedKeeps
  <2>3. QED
    BY <1>8, <2>2, OneCall DEF Close
<1>9. ASSUME NEW c \in Calls, ExecSync(c) PROVE IInv'
  <2>1. call[c] = Idle /\ UNCHANGED aborted /\ c \in Synchronous
    BY <1>2, <1>9 DEF ExecSync
  <2>2. CASE call' = [call EXCEPT ![c] = OnError(c, Post(@, "RUN", FALSE))]
    <3>1. CallInv(c, OnError(c, Post(call[c], "RUN", FALSE)), aborted)
      BY <1>1, <2>1, ThrowKeeps
    <3>2. QED
      BY <2>1, <2>2, <3>1, OneCall
  <2>3. CASE \E exit \in Exits \cup {"none"}, killer \in Killers :
               /\ killer # "nobody" => exit # "none"
               /\ call' = [call EXCEPT ![c] = SyncEnds(c, exit, killer)]
    <3>1. PICK exit \in Exits \cup {"none"}, killer \in Killers :
            /\ killer # "nobody" => exit # "none"
            /\ call' = [call EXCEPT ![c] = SyncEnds(c, exit, killer)]
      BY <2>3
    <3>2. CallInv(c, SyncEnds(c, exit, killer), aborted)
      BY <1>1, <2>1, <3>1, SyncKeeps
    <3>3. QED
      BY <2>1, <3>1, <3>2, OneCall
  <2>4. QED
    BY <1>9, <2>2, <2>3 DEF ExecSync
<1>10. CASE Abort
  <2>1. aborted = FALSE /\ aborted' = TRUE
    BY <1>1, <1>10 DEF Abort
  <2>2. PICK deliverable \in SUBSET Calls :
          call' = [c \in Calls |-> IF HearsAbort(c, call[c])
                                   THEN AbortChild(c, call[c], c \in deliverable)
                                   ELSE call[c]]
    BY <1>10 DEF Abort
  <2>3. ASSUME NEW c \in Calls
        PROVE  CallInv(c, call'[c], TRUE)
    <3>1. CallInv(c, call[c], FALSE) /\ call[c] \in CallStates
      <4>1. CallInv(c, call[c], aborted) /\ call[c] \in CallStates
        BY DEF IInv
      <4>2. QED
        BY <2>1, <4>1
    <3>2. CASE HearsAbort(c, call[c])
      <4> DEFINE d == c \in deliverable
      <4>1. d \in BOOLEAN /\ call'[c] = AbortChild(c, call[c], d)
        BY <2>2, <3>2
      <4> HIDE DEF d
      <4>2. CallInv(c, AbortChild(c, call[c], d), TRUE)
        BY <3>1, <3>2, <4>1, AbortedKeeps DEF HearsAbort
      <4>3. QED
        BY <4>1, <4>2
    <3>3. CASE ~HearsAbort(c, call[c])
      <4>1. call'[c] = call[c]
        BY <2>2, <3>3
      <4>2. CallInv(c, call[c], TRUE)
        BY <3>1, <3>3, UnabortedKeeps
      <4>3. QED
        BY <4>1, <4>2
    <3>4. QED
      BY <3>2, <3>3
  <2>4. \A c \in Calls : call'[c] \in CallStates
    BY <2>3 DEF CallInv
  <2>5. call' \in [Calls -> CallStates]
    BY <2>2, <2>4
  <2>6. \A c \in Calls : CallInv(c, call'[c], aborted')
    BY <2>1, <2>3
  <2>7. QED
    BY <2>1, <2>5, <2>6 DEF IInv
<1>11. CASE UNCHANGED vars
  BY <1>11 DEF IInv, vars
<1>12. QED
  BY <1>3, <1>4, <1>5, <1>6, <1>7, <1>8, <1>9, <1>10, <1>11 DEF Next

LEMMA Invariance == Spec => []IInv
BY InitInv, NextInv, PTL DEF Spec

LEMMA TrailLength == IInv => \A c \in Calls : Len(call[c].audit) <= 4
<1> SUFFICES ASSUME IInv, NEW c \in Calls PROVE Len(call[c].audit) <= 4
  OBVIOUS
<1> DEFINE o == call[c]
<1>1. CallInv(c, o, aborted)
  BY DEF IInv
<1> HIDE DEF o
<1>2. CASE o.pc = "idle"
  <2>1. o.audit = <<>>
    BY <1>1, <1>2, IdleFields DEF CallInv
  <2>2. QED
    BY <2>1 DEF o
<1>3. CASE o.pc = "pending"
  <2>1. o.audit = <<RunEntry>>
    BY <1>1, <1>3 DEF CallInv
  <2>2. QED
    BY <2>1 DEF o
<1>4. CASE o.pc = "settled"
  BY <1>1, <1>4 DEF CallInv, TrailBounded, o
<1>5. QED
  BY <1>1, <1>2, <1>3, <1>4 DEF CallInv, CallStates

(* Calls are well-formed records and their trails have at most four        *)
(* entries, for every set of calls and every combination of options.       *)
THEOREM TypeCorrect == Spec => []TypeOK
<1>1. IInv => TypeOK
  BY TrailLength DEF IInv, TypeOK
<1>2. QED
  BY <1>1, Invariance, PTL

(* Success is reported only for a child that ran to its end with code 0,   *)
(* in time and unharmed, in every order of timer, abort and child events.  *)
THEOREM VerdictsAreHonest == Spec => []VerdictHonest
<1>1. IInv => VerdictHonest
  BY DEF IInv, CallInv, Honest, VerdictHonest
<1>2. QED
  BY <1>1, Invariance, PTL

(* The audit log's account of every call begins with RUN, then says what   *)
(* the caller was told, and ends with the close of the child.              *)
THEOREM TrailsAreComplete == Spec => []AuditTrail
<1>1. ASSUME IInv, NEW c \in Calls
      PROVE  LET trail == call[c].audit
             IN /\ call[c].pc = "idle" <=> trail = <<>>
                /\ call[c].pc = "settled" <=> Len(trail) >= 2
                /\ \A i \in 1 .. Len(trail) :
                     /\ trail[i].event = "RUN" <=> i = 1
                     /\ trail[i].event = "DONE" => i = Len(trail)
                /\ call[c].pc = "settled" => trail[2].failed = call[c].result.failed
  <2> DEFINE o == call[c]
  <2>1. CallInv(c, o, aborted)
    BY <1>1 DEF IInv
  <2> HIDE DEF o
  <2>2. o.pc \in {"idle", "pending", "settled"}
    BY <2>1 DEF CallInv, CallStates
  <2>3. CASE o.pc = "idle"
    <3>1. o.audit = <<>>
      BY <2>1, <2>3, IdleFields DEF CallInv
    <3>2. QED
      BY <2>3, <3>1 DEF o
  <2>4. CASE o.pc = "pending"
    <3>1. o.audit = <<RunEntry>> /\ RunEntry.event = "RUN"
      BY <2>1, <2>4, EntryType DEF CallInv, RunEntry
    <3>2. Len(o.audit) = 1 /\ o.audit[1].event = "RUN" /\ o.audit # <<>>
      BY <3>1
    <3>3. \A i \in 1 .. Len(o.audit) : i = 1
      BY <3>2
    <3>4. QED
      BY <2>4, <3>2, <3>3 DEF o
  <2>5. CASE o.pc = "settled"
    <3>1. TrailOK(o)
      BY <2>1, <2>5 DEF CallInv
    <3>2. o.audit # <<>>
      BY <3>1 DEF TrailOK
    <3>3. QED
      BY <2>5, <3>1, <3>2 DEF TrailOK, o
  <2>6. QED
    BY <2>2, <2>3, <2>4, <2>5
<1>2. IInv => AuditTrail
  BY <1>1 DEF AuditTrail
<1>3. QED
  BY <1>2, Invariance, PTL

(* An exit code of 0 comes from a child that ended with it, or from a      *)
(* synchronous run that never started one (os_exec_sync, the null status). *)
THEOREM ZeroIsExplained == Spec => []ZeroExplained
<1>1. IInv => ZeroExplained
  BY DEF IInv, CallInv, Honest, ZeroExplained
<1>2. QED
  BY <1>1, Invariance, PTL

(* No timer outlives its call and no aborted call waits for a child that   *)
(* still runs.                                                             *)
THEOREM NothingIsLeftOver == Spec => []NothingOutstanding
<1>1. ASSUME IInv, NEW c \in Calls
      PROVE  /\ call[c].timer = "armed" => call[c].pc = "pending"
             /\ aborted /\ c \in Cancellable /\ call[c].pc = "pending"
                  => call[c].child = "exited"
  <2>1. CallInv(c, call[c], aborted)
    BY <1>1 DEF IInv
  <2>2. call[c].pc \in {"idle", "pending", "settled"}
    BY <2>1 DEF CallInv, CallStates
  <2>3. call[c].pc = "idle" => call[c].timer = "off"
    BY <2>1, IdleFields DEF CallInv
  <2>4. QED
    BY <2>1, <2>2, <2>3 DEF CallInv
<1>2. IInv => NothingOutstanding
  BY <1>1 DEF NothingOutstanding
<1>3. QED
  BY <1>2, Invariance, PTL
=============================================================================
