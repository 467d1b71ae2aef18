-------------------------------- MODULE Session --------------------------------
(***************************************************************************)
(* LibCdSession (lib/runtime/libcd_LibChangeDescent.0.mjs) and the header  *)
(* of a session (lib/session/libcd_session.mjs): contexts that an          *)
(* application switches between, a header of 64 bytes per context that     *)
(* checkpoints stamp, and the resumption of a session from a header that   *)
(* was saved before the process ended.                                     *)
(*                                                                         *)
(* External: the application saves the header of a context to its file and *)
(* reads it back.  What it reads is a buffer of its own, or, as readFile   *)
(* of a small file returns it, a view into Node's buffer pool, which is    *)
(* handed out slot by slot to everybody who asks.                          *)
(*                                                                         *)
(* The bytes of a header are the time stamp in them, or Garbage when the   *)
(* magic is missing.  Flags, node counts and checkpoint lists are left out.*)
(***************************************************************************)
EXTENDS Integers, Sequences

CONSTANTS
    Contexts,   \* context ids
    Default,    \* the id of the context the constructor makes
    PoolSize,   \* how many slots the pool has
    Own,        \* the view of a buffer that holds the header alone
    Garbage,    \* bytes that are no header
    Nothing,    \* no such file, slot, header or session
    Truncated,  \* a file whose writing was interrupted
    MaxNow      \* bound on the clock

Times == 0 .. MaxNow
Slots == 1 .. PoolSize
Views == {Own} \cup Slots

ASSUME SessionAssumption ==
    /\ Default \in Contexts
    /\ MaxNow \in Nat
    /\ PoolSize \in Nat \ {0}
    /\ Own \notin Slots
    /\ {Garbage, Nothing, Truncated} \cap Times = {}
    /\ Nothing \notin {Garbage, Truncated} \cup Views

VARIABLES
    up,       \* whether the process runs
    active,   \* the active context
    session,  \* per context, its session, or what NoSession is
    own,      \* per context, the bytes of the header buffer made for it alone
    pool,     \* the bytes in the slots of the pool that were handed out
    file,     \* per context, what its file holds
    now       \* the clock

vars == <<up, active, session, own, pool, file, now>>

-----------------------------------------------------------------------------
Exists(c) == session[c].view # Nothing

(* The bytes of a view, and those at offset 0 of the buffer it looks into. *)
HeaderBytes(c, view) == IF view = Own THEN own[c] ELSE pool[view]
Start(c, view) == IF view = Own THEN own[c] ELSE pool[1]

AtStart(view) == view \in {Own, 1}

(* session_header_validate decodes what is at the start of the buffer; it  *)
(* throws when that is Garbage.                                            *)
session_header_validate(c, view) == Start(c, view)

PoolLeft == Len(pool) < PoolSize

NoSession == [view |-> Nothing, restored |-> FALSE, created_ts |-> Nothing,
              last_checkpoint_ts |-> Nothing, metadata |-> Nothing,
              checkpointed |-> FALSE, from |-> Nothing, given |-> Nothing]

(* session_init_for_context, given a view of 64 bytes, or Nothing.  The    *)
(* fields `from` and `given` are history: that view, and the bytes in it.  *)
Started(view, restored, ts, from, given) ==
    [view |-> view, restored |-> restored, created_ts |-> ts,
     last_checkpoint_ts |-> ts, metadata |-> ts, checkpointed |-> FALSE,
     from |-> from, given |-> given]

Fresh(from, given) == Started(Own, FALSE, now, from, given)

Bug_Renewed(view, magic, given) ==
    IF magic = Garbage THEN Fresh(view, given) ELSE Started(view, TRUE, now, view, given)
Bug_AnyMagic(view, magic, given) == Started(view, TRUE, magic, view, given)
Restored(view, magic, given) ==
    IF magic = Garbage THEN Fresh(view, given) ELSE Started(view, TRUE, magic, view, given)

(* The session that starts, and the buffer it has made, if it makes one:   *)
(* `bytes` are those of the view, `magic` those at the start of its buffer.*)
InitSession(c, view, magic, bytes) ==
    LET started == IF view = Nothing THEN Fresh(Nothing, Nothing) ELSE Restored(view, magic, bytes)
    IN /\ session' = [session EXCEPT ![c] = started]
       /\ own' = [own EXCEPT ![c] = IF ~started.restored THEN now
                                    ELSE IF view = Own THEN bytes ELSE Garbage]

-----------------------------------------------------------------------------
Init ==
    /\ up = FALSE
    /\ active = Default
    /\ session = [c \in Contexts |-> NoSession]
    /\ own = [c \in Contexts |-> Garbage]
    /\ pool = <<>>
    /\ file = [c \in Contexts |-> Nothing]
    /\ now = 0

(* The constructor: arg_parse_profile keeps a header that is among its     *)
(* options from ctx_create, so the default context starts a new session.   *)
Construct ==
    /\ ~up
    /\ up' = TRUE
    /\ active' = Default
    /\ InitSession(Default, Nothing, Nothing, Nothing)
    /\ UNCHANGED <<pool, file, now>>

(* A session starts in c with a header the application gives it, or not:   *)
(* the view it had, if any, is then validated again; a file that is not 64 *)
(* bytes long is no header.                                                *)
WithoutHeader(c) ==
    /\ IF Exists(c)
       THEN InitSession(c, session[c].view, session_header_validate(c, session[c].view),
                        HeaderBytes(c, session[c].view))
       ELSE InitSession(c, Nothing, Nothing, Nothing)
    /\ UNCHANGED pool

Unusable(c) ==
    /\ file[c] = Truncated
    /\ InitSession(c, Nothing, Nothing, Nothing)
    /\ UNCHANGED pool

WithOwnBuffer(c) ==
    /\ file[c] \in Times
    /\ InitSession(c, Own, file[c], file[c])
    /\ UNCHANGED pool

WithPooledBuffer(c) ==
    /\ file[c] \in Times
    /\ PoolLeft
    /\ pool' = Append(pool, file[c])
    /\ InitSession(c, Len(pool'), pool'[1], file[c])

StartSession(c) ==
    \/ WithoutHeader(c)
    \/ Unusable(c)
    \/ WithOwnBuffer(c)
    \/ WithPooledBuffer(c)

(* context_switch: to a context that exists, whatever else it is given.    *)
SwitchBack(c) ==
    /\ up
    /\ Exists(c)
    /\ active' = c
    /\ UNCHANGED <<up, session, own, pool, file, now>>

SwitchNew(c) ==
    /\ up
    /\ ~Exists(c)
    /\ active' = c
    /\ StartSession(c)
    /\ UNCHANGED <<up, file, now>>

session_init ==
    /\ up
    /\ StartSession(active)
    /\ UNCHANGED <<up, active, file, now>>

(* session_validate: what it read becomes the metadata, unless it throws.  *)
session_validate ==
    /\ up
    /\ LET meta == session_header_validate(active, session[active].view)
       IN /\ meta # Garbage
          /\ session' = [session EXCEPT ![active].metadata = meta]
    /\ UNCHANGED <<up, active, own, pool, file, now>>

(* session_checkpoint stamps the bytes of the view itself.                 *)
Bug_StampStart(view) == IF view = Own THEN Own ELSE 1
Stamped(view) == view

session_checkpoint ==
    LET view == Stamped(session[active].view)
    IN /\ up
       /\ own' = IF view = Own THEN [own EXCEPT ![active] = now] ELSE own
       /\ pool' = IF view = Own THEN pool ELSE [pool EXCEPT ![view] = now]
       /\ session' = [session EXCEPT ![active].last_checkpoint_ts = now,
                                     ![active].checkpointed = TRUE]
       /\ UNCHANGED <<up, active, file, now>>

-----------------------------------------------------------------------------
(* Somebody else reads a small file.                                       *)
PoolUsed ==
    /\ up
    /\ PoolLeft
    /\ pool' = Append(pool, Garbage)
    /\ UNCHANGED <<up, active, session, own, file, now>>

Save(c) ==
    /\ up
    /\ Exists(c)
    /\ file' = [file EXCEPT ![c] = HeaderBytes(c, session[c].view)]
    /\ UNCHANGED <<up, active, session, own, pool, now>>

Tick ==
    /\ now < MaxNow
    /\ now' = now + 1
    /\ UNCHANGED <<up, active, session, own, pool, file>>

(* The process ends, perhaps in the midst of a save.                       *)
Crash ==
    /\ up
    /\ up' = FALSE
    /\ active' = Default
    /\ session' = [c \in Contexts |-> NoSession]
    /\ own' = [c \in Contexts |-> Garbage]
    /\ pool' = <<>>
    /\ \/ UNCHANGED file
       \/ \E c \in Contexts : Exists(c) /\ file' = [file EXCEPT ![c] = Truncated]
    /\ UNCHANGED now

Next ==
    \/ Construct \/ session_init \/ session_validate \/ session_checkpoint
    \/ \E c \in Contexts : SwitchBack(c) \/ SwitchNew(c) \/ Save(c)
    \/ PoolUsed \/ Tick \/ Crash

Spec == Init /\ [][Next]_vars

-----------------------------------------------------------------------------
Sessions == [view : Views, restored : BOOLEAN, created_ts : Times,
             last_checkpoint_ts : Times, metadata : Times, checkpointed : BOOLEAN,
             from : Views \cup {Nothing}, given : Times \cup {Nothing}]

(* A running process has an active session, and no header, in memory or in *)
(* a file, is ahead of the clock.                                          *)
TypeOK ==
    /\ up \in BOOLEAN
    /\ active \in Contexts
    /\ session \in [Contexts -> Sessions \cup {NoSession}]
    /\ up => Exists(active)
    /\ own \in [Contexts -> {Garbage} \cup 0 .. now]
    /\ pool \in Seq({Garbage} \cup 0 .. now)
    /\ Len(pool) <= PoolSize
    /\ file \in [Contexts -> {Nothing, Truncated} \cup 0 .. now]
    /\ now \in Times

(* The header of a session always carries its last checkpoint, so that a   *)
(* crash at any moment leaves, in what is saved next, the progress that was*)
(* marked; and validation of a header that starts its buffer neither throws*)
(* nor tells any other time.  Of a view further inside the pool only the   *)
(* checkpoints made since it was restored are certain to be in it.         *)
HeaderHonest ==
    \A c \in Contexts : Exists(c) =>
        LET s == session[c]
        IN /\ AtStart(s.view) \/ s.checkpointed => HeaderBytes(c, s.view) = s.last_checkpoint_ts
           /\ AtStart(s.view) => session_header_validate(c, s.view) = s.last_checkpoint_ts

Resumes(s) == s.restored /\ s.created_ts = s.given

(* A session that was given a complete header at the start of its buffer   *)
(* resumes it, with the time of its last checkpoint and no other, and goes *)
(* on doing so when its context is switched to or initialised again.       *)
RestoredIsSaved ==
    \A c \in Contexts : AtStart(session[c].from) => Resumes(session[c])

(* What comments say: sessions "ensure we can restore", and the start of a *)
(* session restores the header, "protecting memory bounds against          *)
(* corruption and enabling fast resume": whatever complete header a context*)
(* is given, it resumes that one.  Of a view further inside a buffer the   *)
(* validation reads the start of the buffer: what stands there decides.    *)
RestoreEnsured ==
    \A c \in Contexts : session[c].from # Nothing => Resumes(session[c])

(* What validation tells of a context whose header starts its buffer       *)
(* changes by a step of that context only: neither a checkpoint of another *)
(* one nor a switch or a restore alters it.                                *)
Isolated ==
    [][\A c \in Contexts :
         up /\ up' /\ active # c /\ Exists(c) /\ AtStart(session[c].view)
         => /\ session'[c] = session[c]
            /\ session_header_validate(c, session[c].view)'
                 = session_header_validate(c, session[c].view)]_vars
=============================================================================
