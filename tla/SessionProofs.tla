----------------------------- MODULE SessionProofs -----------------------------
(***************************************************************************)
(* Safety of Session for any number of contexts, slots and times.          *)
(***************************************************************************)
EXTENDS Session, SequenceTheorems, TLAPS

USE SessionAssumption

Past == 0 .. now
Stamps == {Garbage} \cup Past

(* What is true of one context, from its session, its own buffer and the   *)
(* pool: its view is of a slot that was handed out and holds a time stamp, *)
(* which is that of its last checkpoint unless it is a view into the middle*)
(* of the pool that was not stamped yet.                                   *)
Good(c) ==
    Exists(c) =>
        /\ session[c].view # Own => session[c].view \in 1 .. Len(pool)
        /\ HeaderBytes(c, session[c].view) \in Past
        /\ AtStart(session[c].view) \/ session[c].checkpointed
             => HeaderBytes(c, session[c].view) = session[c].last_checkpoint_ts
        /\ AtStart(session[c].from) => Resumes(session[c])

(* No slot is the view of two contexts.                                    *)
Distinct ==
    \A c, d \in Contexts :
        c # d /\ Exists(c) /\ session[c].view # Own => session[d].view # session[c].view

IInv == TypeOK /\ Distinct /\ \A c \in Contexts : Good(c)

-----------------------------------------------------------------------------
(* What the type invariant says of one context and of the pool.            *)

LEMMA PoolType ==
    ASSUME TypeOK
    PROVE  /\ Len(pool) \in Nat
           /\ \A i \in 1 .. Len(pool) : pool[i] \in Stamps
<1>1. pool \in Seq(Stamps)
  BY DEF TypeOK, Stamps, Past
<1> QED
  BY <1>1, ElementOfSeq, LenProperties

LEMMA PastIsTimes == TypeOK => Past \subseteq Times /\ now \in Past /\ Garbage \notin Past
BY DEF TypeOK, Past, Times

LEMMA NoSessionView == NoSession.view = Nothing /\ NoSession.from = Nothing
BY DEF NoSession

LEMMA NothingIsNoView == ~AtStart(Nothing)
BY DEF AtStart, Views, Slots

LEMMA SessionType ==
    ASSUME TypeOK, NEW c \in Contexts
    PROVE  /\ Exists(c) => session[c] \in Sessions /\ session[c].view \in Views
           /\ AtStart(session[c].from) => Exists(c)
           /\ own[c] \in Stamps
<1>1. session[c] \in Sessions \cup {NoSession} /\ own[c] \in Stamps
  BY DEF TypeOK, Stamps, Past
<1>2. CASE session[c] = NoSession
  BY <1>1, <1>2, NoSessionView, NothingIsNoView DEF Exists
<1>3. CASE session[c] \in Sessions
  <2>1. session[c].view \in Views
    BY <1>3 DEF Sessions
  <2>2. session[c].view # Nothing
    BY <2>1
  <2> QED
    BY <1>1, <1>3, <2>1, <2>2 DEF Exists
<1> QED
  BY <1>1, <1>2, <1>3

(* The invariant says what the properties say.                             *)
LEMMA InvImplies == IInv => HeaderHonest /\ RestoredIsSaved
<1> SUFFICES ASSUME IInv PROVE HeaderHonest /\ RestoredIsSaved
  OBVIOUS
<1> USE DEF IInv
<1>1. HeaderHonest
  <2> SUFFICES ASSUME NEW c \in Contexts, Exists(c)
               PROVE  LET s == session[c]
                      IN /\ AtStart(s.view) \/ s.checkpointed
                              => HeaderBytes(c, s.view) = s.last_checkpoint_ts
                         /\ AtStart(s.view)
                              => session_header_validate(c, s.view) = s.last_checkpoint_ts
    BY DEF HeaderHonest
  <2>1. AtStart(session[c].view) => HeaderBytes(c, session[c].view) = Start(c, session[c].view)
    BY DEF AtStart, HeaderBytes, Start
  <2> QED
    BY <2>1 DEF Good, session_header_validate
<1>2. RestoredIsSaved
  BY SessionType DEF RestoredIsSaved, Good
<1> QED
  BY <1>1, <1>2

LEMMA InitInv == Init => IInv
<1> SUFFICES ASSUME Init PROVE IInv
  OBVIOUS
<1>1. TypeOK
  <2>1. pool \in Seq({Garbage} \cup 0 .. now) /\ Len(pool) <= PoolSize
    BY EmptySeq DEF Init
  <2>2. own \in [Contexts -> {Garbage} \cup 0 .. now]
    BY DEF Init
  <2>3. file \in [Contexts -> {Nothing, Truncated} \cup 0 .. now]
    BY DEF Init
  <2>4. session \in [Contexts -> Sessions \cup {NoSession}]
    BY DEF Init
  <2>5. now \in Times /\ up = FALSE /\ active \in Contexts
    BY DEF Init, Times
  <2> QED
    BY <2>1, <2>2, <2>3, <2>4, <2>5 DEF TypeOK
<1>2. \A c \in Contexts : ~Exists(c)
  BY NoSessionView DEF Init, Exists
<1> QED
  BY <1>1, <1>2 DEF IInv, Good, Distinct

-----------------------------------------------------------------------------
(* A context whose session and buffer stay is as good as before when the   *)
(* pool and the clock only grow, or a slot that is not its view is stamped.*)
PoolKept(c) ==
    /\ Len(pool') >= Len(pool)
    /\ session[c].view \in 1 .. Len(pool) => pool'[session[c].view] = pool[session[c].view]

LEMMA GoodKept ==
    ASSUME TypeOK, NEW c \in Contexts, Good(c),
           session'[c] = session[c], own'[c] = own[c],
           PoolKept(c), Len(pool') \in Nat, now' \in Nat, now' >= now
    PROVE  Good(c)'
<1> SUFFICES ASSUME Exists(c) PROVE Good(c)'
  BY DEF Good, Exists
<1> DEFINE v == session[c].view
<1>1. v \in Views /\ session[c] \in Sessions
  BY SessionType
<1>2. v # Own => v \in 1 .. Len(pool) /\ v \in 1 .. Len(pool')
  BY PoolType DEF Good, PoolKept
<1>3. HeaderBytes(c, v)' = HeaderBytes(c, v)
  BY <1>2 DEF HeaderBytes, PoolKept
<1>4. Past \subseteq Past'
  BY DEF Past, TypeOK, Times
<1> QED
  BY <1>2, <1>3, <1>4 DEF Good, AtStart, Resumes

-----------------------------------------------------------------------------
(* A session that starts with a header of which `bytes` is the stamp, or   *)
(* with none, is good, whatever the validation met at the start of the     *)
(* buffer.                                                                 *)
Usable(view, magic, bytes) ==
    \/ view = Nothing
    \/ view = Own /\ bytes \in Past /\ magic = bytes
    \/ /\ view \in Slots /\ view \in 1 .. Len(pool')
       /\ pool'[view] = bytes /\ bytes \in Past
       /\ Len(pool') > 0 /\ magic = pool'[1] /\ magic \in Stamps

LEMMA StartedSession ==
    ASSUME NEW view \in Views, NEW restored \in BOOLEAN, NEW ts \in Times,
           NEW from \in Views \cup {Nothing}, NEW given \in Times \cup {Nothing}
    PROVE  Started(view, restored, ts, from, given) \in Sessions
BY DEF Started, Sessions

LEMMA InitSessionGood ==
    ASSUME TypeOK, now' = now, NEW c \in Contexts, NEW view, NEW magic, NEW bytes,
           Usable(view, magic, bytes), InitSession(c, view, magic, bytes)
    PROVE  /\ session' \in [Contexts -> Sessions \cup {NoSession}]
           /\ own' \in [Contexts -> Stamps]
           /\ Exists(c)'
           /\ session'[c].view \in {Own, view}
           /\ \A d \in Contexts \ {c} : session'[d] = session[d] /\ own'[d] = own[d]
           /\ Good(c)'
<1> DEFINE started == IF view = Nothing THEN Fresh(Nothing, Nothing) ELSE Restored(view, magic, bytes)
           buffer == IF ~started.restored THEN now
                     ELSE IF view = Own THEN bytes ELSE Garbage
<1>1. /\ session \in [Contexts -> Sessions \cup {NoSession}]
      /\ own \in [Contexts -> Stamps]
      /\ now \in Past /\ Past \subseteq Times /\ Garbage \notin Past
  BY PastIsTimes DEF TypeOK, Stamps, Past
<1>2. /\ session' = [session EXCEPT ![c] = started]
      /\ own' = [own EXCEPT ![c] = buffer]
  BY DEF InitSession
<1>3. Past' = Past /\ Stamps' = Stamps
  BY DEF Past, Stamps
<1>4. ASSUME NEW from \in Views \cup {Nothing}, NEW given \in Times \cup {Nothing},
             ~AtStart(from), started = Fresh(from, given)
      PROVE  /\ started \in Sessions
             /\ session'[c] = started /\ started.view = Own /\ own' \in [Contexts -> Stamps]
             /\ Good(c)'
  <2>1. /\ started.view = Own /\ ~started.restored /\ started.last_checkpoint_ts = now
        /\ started.from = from
    BY <1>4 DEF Fresh, Started
  <2> HIDE DEF started
  <2>2. Own \in Views /\ FALSE \in BOOLEAN /\ now \in Times
    BY <1>1 DEF Views
  <2>3. Started(Own, FALSE, now, from, given) \in Sessions
    BY <2>2, StartedSession
  <2>4. started \in Sessions
    BY <1>4, <2>3 DEF Fresh
  <2>5. session'[c] = started /\ own'[c] = now /\ own' \in [Contexts -> Stamps]
    BY <1>1, <1>2, <2>1 DEF Stamps
  <2>6. Good(c)'
    BY <1>1, <1>3, <1>4, <2>1, <2>5 DEF Good, HeaderBytes, AtStart
  <2> QED
    BY <2>1, <2>4, <2>5, <2>6
<1>5. CASE view = Nothing
  BY <1>1, <1>2, <1>4, <1>5, NothingIsNoView DEF Exists, Views
<1>6. CASE view # Nothing /\ magic = Garbage
  <2>1. view \in Views /\ bytes \in Past /\ ~AtStart(view)
    BY <1>1, <1>6 DEF Usable, Views, AtStart
  <2>2. started = Fresh(view, bytes)
    BY <1>6 DEF Restored
  <2> HIDE DEF started
  <2> QED
    BY <1>1, <1>2, <1>4, <2>1, <2>2 DEF Exists, Views
<1>7. CASE view # Nothing /\ magic # Garbage
  <2>1. started = Started(view, TRUE, magic, view, bytes)
    BY <1>7 DEF Restored
  <2>2. /\ started.view = view /\ started.restored /\ started.last_checkpoint_ts = magic
        /\ started.created_ts = magic /\ started.given = bytes /\ ~started.checkpointed
        /\ started.from = view
    BY <2>1 DEF Started
  <2>3. view \in Views /\ magic \in Times /\ bytes \in Past
    BY <1>1, <1>7 DEF Usable, Views, Stamps
  <2> HIDE DEF started
  <2>4. started \in Sessions
    <3>1. TRUE \in BOOLEAN /\ bytes \in Times \cup {Nothing} /\ view \in Views \cup {Nothing}
      BY <1>1, <2>3
    <3>2. Started(view, TRUE, magic, view, bytes) \in Sessions
      BY <2>3, <3>1, StartedSession
    <3> QED
      BY <2>1, <3>2
  <2>5. session'[c] = started /\ own'[c] = IF view = Own THEN bytes ELSE Garbage
    BY <1>1, <1>2, <2>2
  <2>6. HeaderBytes(c, view)' = bytes
    BY <1>7, <2>5 DEF Usable, HeaderBytes
  <2>7. AtStart(view) => magic = bytes
    BY <1>7 DEF Usable, AtStart
  <2>8. Good(c)'
    BY <1>3, <1>7, <2>2, <2>3, <2>5, <2>6, <2>7 DEF Good, Resumes, Usable, AtStart
  <2> QED
    BY <1>1, <1>2, <1>7, <2>2, <2>3, <2>4, <2>5, <2>8 DEF Exists, Stamps
<1> QED
  BY <1>5, <1>6, <1>7

-----------------------------------------------------------------------------
(* What the start of a session needs to be good, for each header that an   *)
(* application gives it.                                                   *)
Extends == /\ pool' \in Seq(Stamps)
           /\ Len(pool') <= PoolSize
           /\ Len(pool') >= Len(pool)
           /\ \A i \in 1 .. Len(pool) : pool'[i] = pool[i]

LEMMA AppendExtends ==
    ASSUME TypeOK, PoolLeft, NEW bytes \in Stamps, pool' = Append(pool, bytes)
    PROVE  Extends /\ Len(pool') = Len(pool) + 1 /\ pool'[Len(pool) + 1] = bytes
<1>1. pool \in Seq(Stamps)
  BY DEF TypeOK, Stamps, Past
<1>2. Append(pool, bytes) \in Seq(Stamps)
  BY <1>1
<1>3. Len(Append(pool, bytes)) = Len(pool) + 1 /\ Append(pool, bytes)[Len(pool) + 1] = bytes
  BY <1>1
<1>4. \A i \in 1 .. Len(pool) : Append(pool, bytes)[i] = pool[i]
  BY <1>1
<1>5. Len(pool) \in Nat /\ Len(pool) < PoolSize
  BY <1>1, LenProperties DEF PoolLeft
<1> QED
  BY <1>2, <1>3, <1>4, <1>5 DEF Extends

LEMMA StartUsable ==
    ASSUME IInv, now' = now, NEW c \in Contexts, StartSession(c)
    PROVE  \E view, magic, bytes :
             /\ Usable(view, magic, bytes)
             /\ InitSession(c, view, magic, bytes)
             /\ Extends
             /\ view \in Slots => view = session[c].view \/ view > Len(pool)
<1> USE DEF IInv
<1>1. pool \in Seq(Stamps) /\ Len(pool) \in Nat
      /\ \A i \in 1 .. Len(pool) : pool[i] \in Stamps
  BY PoolType DEF TypeOK, Stamps, Past
<1>2. pool' = pool => Extends
  BY <1>1 DEF Extends, TypeOK
<1>3. CASE WithoutHeader(c) /\ Exists(c)
  <2> DEFINE v == session[c].view
  <2>1. pool' = pool /\ InitSession(c, v, Start(c, v), HeaderBytes(c, v))
    BY <1>3 DEF WithoutHeader, session_header_validate
  <2>2. v \in Views /\ v # Nothing /\ (v # Own => v \in 1 .. Len(pool)) /\ HeaderBytes(c, v) \in Past
    BY <1>3, SessionType DEF Good, Exists
  <2>3. Usable(v, Start(c, v), HeaderBytes(c, v))
    BY <1>1, <2>1, <2>2 DEF Usable, Start, HeaderBytes, Views
  <2> QED
    BY <1>2, <2>1, <2>3
<1>4. CASE (WithoutHeader(c) /\ ~Exists(c)) \/ Unusable(c)
  <2>1. pool' = pool /\ InitSession(c, Nothing, Nothing, Nothing)
    BY <1>4 DEF WithoutHeader, Unusable
  <2> QED
    BY <1>2, <2>1 DEF Usable, Views
<1>5. CASE WithOwnBuffer(c)
  <2>1. pool' = pool /\ InitSession(c, Own, file[c], file[c]) /\ file[c] \in Times
    BY <1>5 DEF WithOwnBuffer
  <2>2. file[c] \in Past
    BY <2>1 DEF TypeOK, Past
  <2> QED
    BY <1>2, <2>1, <2>2 DEF Usable
<1>6. CASE WithPooledBuffer(c)
  <2>1. /\ file[c] \in Times /\ PoolLeft /\ pool' = Append(pool, file[c])
        /\ InitSession(c, Len(pool'), pool'[1], file[c])
    BY <1>6 DEF WithPooledBuffer
  <2>2. file[c] \in Past /\ file[c] \in Stamps
    BY <2>1 DEF TypeOK, Past, Stamps
  <2>3. Extends /\ Len(pool') = Len(pool) + 1 /\ pool'[Len(pool) + 1] = file[c]
    BY <2>1, <2>2, AppendExtends
  <2>4. pool'[1] \in Stamps
    BY <1>1, <2>2, <2>3, ElementOfSeq DEF Extends
  <2>5. Len(pool') \in Slots /\ Len(pool') \in 1 .. Len(pool')
    BY <1>1, <2>3 DEF Extends, Slots
  <2>6. Usable(Len(pool'), pool'[1], file[c])
    BY <1>1, <2>2, <2>3, <2>4, <2>5 DEF Usable
  <2> QED
    BY <1>1, <2>1, <2>3, <2>6
<1> QED
  BY <1>3, <1>4, <1>5, <1>6 DEF StartSession

(* A session starts without harm to the others.                            *)
LEMMA StartInv ==
    ASSUME IInv, NEW c \in Contexts, NEW view, NEW magic, NEW bytes,
           Usable(view, magic, bytes), InitSession(c, view, magic, bytes), Extends,
           view \in Slots => view = session[c].view \/ view > Len(pool),
           now' = now, file' = file, up' \in BOOLEAN, active' = c
    PROVE  IInv'
<1> USE DEF IInv
<1>2. /\ session' \in [Contexts -> Sessions \cup {NoSession}]
      /\ own' \in [Contexts -> Stamps]
      /\ Exists(c)'
      /\ session'[c].view \in {Own, view}
      /\ \A d \in Contexts \ {c} : session'[d] = session[d] /\ own'[d] = own[d]
      /\ Good(c)'
  BY InitSessionGood
<1>3. Len(pool) \in Nat /\ Len(pool') \in Nat
  BY PoolType, LenProperties DEF Extends
<1>4. TypeOK'
  BY <1>2 DEF TypeOK, Extends, Stamps, Past
<1>5. ASSUME NEW d \in Contexts \ {c} PROVE Good(d)'
  <2>1. PoolKept(d)
    BY <1>3 DEF Extends, PoolKept
  <2> QED
    BY <1>2, <1>3, <2>1, GoodKept DEF TypeOK, Times
<1>6. Distinct'
  <2> SUFFICES ASSUME NEW a \in Contexts, NEW b \in Contexts, a # b,
                      Exists(a)', session'[a].view # Own
               PROVE  session'[b].view # session'[a].view
    BY DEF Distinct
  <2>1. \A d \in Contexts \ {c} : Exists(d) /\ session[d].view # Own
                                    => session[d].view \in 1 .. Len(pool)
    BY DEF Good
  <2>2. session'[c].view # Own =>
          /\ view \in Slots /\ session'[c].view = view
          /\ view = session[c].view \/ view > Len(pool)
    BY <1>2 DEF Usable, Exists
  <2>3. CASE a = c
    BY <1>2, <1>3, <2>1, <2>2, <2>3 DEF Distinct, Exists
  <2>4. CASE b = c
    BY <1>2, <1>3, <2>1, <2>2, <2>4 DEF Distinct, Exists
  <2>5. CASE a # c /\ b # c
    BY <1>2, <2>5 DEF Distinct, Exists
  <2> QED
    BY <2>3, <2>4, <2>5
<1> QED
  BY <1>2, <1>4, <1>5, <1>6

-----------------------------------------------------------------------------
(* One lemma per action. *)

LEMMA StartSessionInv ==
    ASSUME IInv, NEW c \in Contexts, StartSession(c), now' = now, file' = file,
           up' \in BOOLEAN, active' = c
    PROVE  IInv'
<1>1. PICK view, magic, bytes :
        /\ Usable(view, magic, bytes)
        /\ InitSession(c, view, magic, bytes)
        /\ Extends
        /\ view \in Slots => view = session[c].view \/ view > Len(pool)
  BY StartUsable
<1> QED
  BY <1>1, StartInv

LEMMA ConstructInv == IInv /\ Construct => IInv'
<1> SUFFICES ASSUME IInv, Construct PROVE IInv'
  OBVIOUS
<1>1. pool \in Seq(Stamps) /\ Len(pool) \in Nat /\ Len(pool) <= PoolSize
  BY PoolType DEF IInv, TypeOK, Stamps, Past
<1>2. Extends
  BY <1>1 DEF Construct, Extends
<1>3. Nothing \notin Slots
  BY DEF Views
<1> QED
  BY <1>2, <1>3, StartInv DEF Construct, Usable

(* Nothing happens to the sessions, and the pool and the clock grow.       *)
LEMMA CalmInv ==
    ASSUME IInv, session' = session, own' = own,
           pool' = pool \/ Extends, now' \in Times, now' >= now,
           up' = up, active' = active \/ (active' \in Contexts /\ Exists(active')),
           file' \in [Contexts -> {Nothing, Truncated} \cup 0 .. now]
    PROVE  IInv'
<1> USE DEF IInv
<1>1. pool \in Seq(Stamps) /\ Len(pool) \in Nat /\ Len(pool) <= PoolSize
  BY PoolType DEF TypeOK, Stamps, Past
<1>2. Extends
  BY <1>1 DEF Extends
<1>3. Len(pool') \in Nat
  BY <1>2, LenProperties DEF Extends
<1>4. Stamps \subseteq {Garbage} \cup 0 .. now' /\ 0 .. now \subseteq 0 .. now'
  BY DEF Stamps, Past, TypeOK, Times
<1>5. TypeOK'
  <2>1. pool' \in Seq({Garbage} \cup 0 .. now') /\ Len(pool') <= PoolSize
    BY <1>2, <1>4, SeqMonotonic DEF Extends
  <2>2. own' \in [Contexts -> {Garbage} \cup 0 .. now']
    BY <1>4 DEF TypeOK
  <2>3. file' \in [Contexts -> {Nothing, Truncated} \cup 0 .. now']
    BY <1>4
  <2>4. up' => Exists(active)'
    BY DEF TypeOK, Exists
  <2>5. /\ up' \in BOOLEAN /\ active' \in Contexts
        /\ session' \in [Contexts -> Sessions \cup {NoSession}]
    BY DEF TypeOK
  <2> QED
    BY <2>1, <2>2, <2>3, <2>4, <2>5 DEF TypeOK
<1>6. ASSUME NEW c \in Contexts PROVE Good(c)'
  <2>1. PoolKept(c)
    BY <1>1, <1>2 DEF Extends, PoolKept
  <2> QED
    BY <1>3, <2>1, GoodKept DEF Times
<1>7. Distinct'
  BY DEF Distinct, Exists
<1> QED
  BY <1>5, <1>6, <1>7

LEMMA CheckpointInv == IInv /\ session_checkpoint => IInv'
<1> SUFFICES ASSUME IInv, session_checkpoint PROVE IInv'
  OBVIOUS
<1> USE DEF IInv
<1> DEFINE v == session[active].view
           stamped == [session[active] EXCEPT !.last_checkpoint_ts = now, !.checkpointed = TRUE]
<1>1. /\ up /\ active \in Contexts /\ Exists(active) /\ v \in Views
      /\ session[active] \in Sessions
  BY SessionType DEF session_checkpoint, TypeOK
<1>2. /\ own' = IF v = Own THEN [own EXCEPT ![active] = now] ELSE own
      /\ pool' = IF v = Own THEN pool ELSE [pool EXCEPT ![v] = now]
      /\ session' = [session EXCEPT ![active] = stamped]
      /\ UNCHANGED <<up, active, file, now>>
  BY DEF session_checkpoint, Stamped
<1>3. /\ pool \in Seq(Stamps) /\ Len(pool) \in Nat /\ Len(pool) <= PoolSize
      /\ own \in [Contexts -> Stamps]
      /\ now \in Past /\ now \in Stamps /\ now \in Times
      /\ Past' = Past /\ Stamps' = Stamps
  BY <1>2, PoolType, PastIsTimes DEF TypeOK, Stamps, Past
<1>4. v # Own => v \in 1 .. Len(pool)
  BY <1>1 DEF Good
<1>5. /\ pool' \in Seq(Stamps) /\ Len(pool') = Len(pool)
      /\ \A i \in 1 .. Len(pool) : pool'[i] = IF v # Own /\ i = v THEN now ELSE pool[i]
  <2>1. CASE v = Own
    BY <1>2, <1>3, <2>1
  <2>2. CASE v # Own
    BY <1>2, <1>3, <1>4, <2>2, ExceptSeq
  <2> QED
    BY <2>1, <2>2
<1>6. /\ stamped \in Sessions /\ stamped.view = v /\ stamped.last_checkpoint_ts = now
      /\ stamped.restored = session[active].restored
      /\ stamped.created_ts = session[active].created_ts
      /\ stamped.given = session[active].given /\ stamped.from = session[active].from
  BY <1>1, <1>3 DEF Sessions
<1> HIDE DEF stamped
<1>7. /\ session' \in [Contexts -> Sessions \cup {NoSession}]
      /\ session'[active] = stamped
      /\ \A c \in Contexts \ {active} : session'[c] = session[c] /\ own'[c] = own[c]
      /\ own' \in [Contexts -> Stamps]
      /\ v = Own => own'[active] = now
  BY <1>1, <1>2, <1>3, <1>6 DEF TypeOK
<1>8. \A c \in Contexts : session'[c].view = session[c].view
  BY <1>6, <1>7
<1>9. TypeOK'
  <2>1. Exists(active)'
    BY <1>1, <1>2, <1>8 DEF Exists
  <2> QED
    BY <1>2, <1>3, <1>5, <1>7, <2>1 DEF TypeOK, Stamps, Past
<1>10. Distinct'
  BY <1>8 DEF Distinct, Exists
<1>12. ASSUME NEW c \in Contexts \ {active} PROVE Good(c)'
  <2>1. session[c].view \in 1 .. Len(pool) => session[c].view # v \/ v = Own
    BY <1>1 DEF Distinct
  <2>2. PoolKept(c)
    BY <1>3, <1>5, <2>1 DEF PoolKept
  <2> QED
    BY <1>2, <1>3, <1>5, <1>7, <2>2, GoodKept DEF Times
<1>13. Good(active)'
  <2>1. active' = active /\ session'[active'] = stamped /\ session'[active'].view = v
    BY <1>2, <1>6, <1>7
  <2> DEFINE s == session'[active']
  <2>2. HeaderBytes(active, session[active].view)' = now
    BY <1>4, <1>5, <1>7, <2>1 DEF HeaderBytes
  <2>3. AtStart(s.from) => Resumes(s)
    BY <1>1, <1>6, <2>1 DEF Good, Resumes
  <2> QED
    BY <1>3, <1>4, <1>5, <1>6, <2>1, <2>2, <2>3 DEF Good
<1> QED
  BY <1>1, <1>2, <1>9, <1>10, <1>12, <1>13

LEMMA ValidateInv == IInv /\ session_validate => IInv'
<1> SUFFICES ASSUME IInv, session_validate PROVE IInv'
  OBVIOUS
<1> USE DEF IInv
<1> DEFINE meta == Start(active, session[active].view)
           told == [session[active] EXCEPT !.metadata = meta]
<1>1. /\ up /\ active \in Contexts /\ Exists(active) /\ session[active] \in Sessions
      /\ session[active].view \in Views
  BY SessionType DEF session_validate, TypeOK
<1>2. /\ meta # Garbage
      /\ session' = [session EXCEPT ![active] = told]
      /\ UNCHANGED <<up, active, own, pool, file, now>>
  BY DEF session_validate, session_header_validate
<1>3. meta \in Times
  <2>1. session[active].view # Own => 1 \in 1 .. Len(pool)
    BY <1>1, PoolType DEF Good
  <2>2. meta \in Stamps
    BY <1>1, <2>1, PoolType, SessionType DEF Start
  <2> QED
    BY <1>2, <2>2, PastIsTimes DEF Stamps
<1> HIDE DEF meta
<1>4. /\ told \in Sessions /\ told.view = session[active].view
      /\ told.last_checkpoint_ts = session[active].last_checkpoint_ts
      /\ told.checkpointed = session[active].checkpointed
      /\ told.restored = session[active].restored
      /\ told.created_ts = session[active].created_ts
      /\ told.given = session[active].given /\ told.from = session[active].from
  BY <1>1, <1>3 DEF Sessions
<1> HIDE DEF told
<1>5. /\ session' \in [Contexts -> Sessions \cup {NoSession}]
      /\ \A c \in Contexts :
           /\ session'[c].view = session[c].view
           /\ session'[c].last_checkpoint_ts = session[c].last_checkpoint_ts
           /\ session'[c].checkpointed = session[c].checkpointed
           /\ session'[c].restored = session[c].restored
           /\ session'[c].created_ts = session[c].created_ts
           /\ session'[c].given = session[c].given
           /\ session'[c].from = session[c].from
  BY <1>1, <1>2, <1>4 DEF TypeOK
<1>6. TypeOK'
  BY <1>2, <1>5 DEF TypeOK, Exists
<1>7. Distinct'
  BY <1>5 DEF Distinct, Exists
<1>8. ASSUME NEW c \in Contexts PROVE Good(c)'
  BY <1>2, <1>5 DEF Good, Resumes, HeaderBytes, AtStart, Exists, Past
<1> QED
  BY <1>6, <1>7, <1>8

LEMMA CrashInv == IInv /\ Crash => IInv'
<1> SUFFICES ASSUME IInv, Crash PROVE IInv'
  OBVIOUS
<1> USE DEF IInv
<1>1. TypeOK'
  <2>1. pool' \in Seq({Garbage} \cup 0 .. now') /\ Len(pool') <= PoolSize
    BY EmptySeq DEF Crash
  <2>2. own' \in [Contexts -> {Garbage} \cup 0 .. now']
    BY DEF Crash
  <2>3. file' \in [Contexts -> {Nothing, Truncated} \cup 0 .. now']
    BY DEF Crash, TypeOK
  <2>4. session' \in [Contexts -> Sessions \cup {NoSession}]
    BY DEF Crash
  <2>5. now' \in Times /\ up' = FALSE /\ active' \in Contexts
    BY DEF Crash, TypeOK
  <2> QED
    BY <2>1, <2>2, <2>3, <2>4, <2>5 DEF TypeOK
<1>2. \A c \in Contexts : ~Exists(c)'
  BY NoSessionView DEF Crash, Exists
<1> QED
  BY <1>1, <1>2 DEF Good, Distinct

LEMMA SaveInv == IInv /\ (\E c \in Contexts : Save(c)) => IInv'
<1> SUFFICES ASSUME IInv, NEW c \in Contexts, Save(c) PROVE IInv'
  OBVIOUS
<1>1. HeaderBytes(c, session[c].view) \in 0 .. now
  BY DEF IInv, Good, Save, Past
<1>2. file' \in [Contexts -> {Nothing, Truncated} \cup 0 .. now]
  BY <1>1 DEF Save, IInv, TypeOK
<1> QED
  BY <1>2, CalmInv DEF Save, IInv, TypeOK, Times

LEMMA PoolUsedInv == IInv /\ PoolUsed => IInv'
<1> SUFFICES ASSUME IInv, PoolUsed PROVE IInv'
  OBVIOUS
<1>1. Extends
  BY AppendExtends DEF PoolUsed, IInv, Stamps
<1> QED
  BY <1>1, CalmInv DEF PoolUsed, IInv, TypeOK, Times

LEMMA StepInv == IInv /\ [Next]_vars => IInv'
<1> SUFFICES ASSUME IInv, [Next]_vars PROVE IInv'
  OBVIOUS
<1>0. TypeOK /\ now \in Times /\ now \in Nat
      /\ file \in [Contexts -> {Nothing, Truncated} \cup 0 .. now]
  BY DEF IInv, TypeOK, Times
<1>1. CASE session_init
  BY <1>0, <1>1, StartSessionInv DEF session_init, TypeOK
<1>2. CASE \E c \in Contexts : SwitchBack(c)
  BY <1>0, <1>2, CalmInv DEF SwitchBack
<1>3. CASE \E c \in Contexts : SwitchNew(c)
  BY <1>0, <1>3, StartSessionInv DEF SwitchNew, TypeOK
<1>4. CASE Tick
  <2>1. now' \in Times /\ now' >= now
    BY <1>0, <1>4 DEF Tick, Times
  <2> QED
    BY <1>0, <1>4, <2>1, CalmInv DEF Tick
<1>5. CASE UNCHANGED vars
  BY <1>0, <1>5, CalmInv DEF vars
<1> QED
  BY <1>1, <1>2, <1>3, <1>4, <1>5, ConstructInv, CheckpointInv, ValidateInv, CrashInv,
     SaveInv, PoolUsedInv DEF Next

LEMMA Invariance == Spec => []IInv
BY InitInv, StepInv, PTL DEF Spec

-----------------------------------------------------------------------------
(* Contexts, headers, the pool and the files are always of their kind, and *)
(* no stamp is ahead of the clock.                                         *)
THEOREM TypeCorrect == Spec => []TypeOK
<1>1. IInv => TypeOK
  BY DEF IInv
<1> QED
  BY <1>1, Invariance, PTL

(* However contexts are switched, saved and resumed, the header of a       *)
(* session carries its last checkpoint.                                    *)
THEOREM HeadersAreHonest == Spec => []HeaderHonest
BY Invariance, InvImplies, PTL

(* A session that was given a complete header at the start of its buffer   *)
(* resumes that header, however many contexts, slots and times there are.  *)
THEOREM RestoresAreExact == Spec => []RestoredIsSaved
BY Invariance, InvImplies, PTL

(* A step of one context leaves the others, and what validation tells of   *)
(* them, alone.                                                            *)
LEMMA StepIsolates ==
    ASSUME IInv, [Next]_vars, NEW c \in Contexts,
           up, up', active # c, Exists(c), AtStart(session[c].view)
    PROVE  /\ session'[c] = session[c]
           /\ session_header_validate(c, session[c].view)'
                = session_header_validate(c, session[c].view)
<1> USE DEF IInv
<1> DEFINE v == session[c].view
           Kept == /\ session'[c] = session[c]
                   /\ v = Own => own'[c] = own[c]
                   /\ v # Own => pool'[1] = pool[1]
<1>1. v \in Views /\ (v # Own => v = 1 /\ 1 \in 1 .. Len(pool)) /\ Len(pool) \in Nat
  BY SessionType, PoolType DEF Good, AtStart
<1>2. Extends /\ session'[c] = session[c] /\ own'[c] = own[c] => Kept
  BY <1>1 DEF Extends
<1>3. SUFFICES Kept
  BY <1>3 DEF session_header_validate, Start
<1>4. ASSUME NEW d \in Contexts \ {c}, StartSession(d), now' = now PROVE Kept
  <2>1. PICK view, magic, bytes : /\ Usable(view, magic, bytes)
                                  /\ InitSession(d, view, magic, bytes)
                                  /\ Extends
    BY <1>4, StartUsable
  <2>2. session'[c] = session[c] /\ own'[c] = own[c]
    BY <1>4, <2>1, InitSessionGood
  <2> QED
    BY <1>2, <2>1, <2>2
<1>5. CASE session_init
  BY <1>4, <1>5 DEF session_init, TypeOK
<1>6. CASE \E d \in Contexts : SwitchNew(d)
  <2>1. PICK d \in Contexts : ~Exists(d) /\ StartSession(d) /\ now' = now
    BY <1>6 DEF SwitchNew
  <2>2. d # c
    BY <2>1
  <2> QED
    BY <1>4, <2>1, <2>2
<1>7. CASE session_validate
  BY <1>7 DEF session_validate, TypeOK
<1>8. CASE session_checkpoint
  <2> DEFINE w == session[active].view
  <2>1. /\ active \in Contexts /\ Exists(active)
        /\ own' = IF w = Own THEN [own EXCEPT ![active] = now] ELSE own
        /\ pool' = IF w = Own THEN pool ELSE [pool EXCEPT ![w] = now]
        /\ session' = [session EXCEPT ![active].last_checkpoint_ts = now,
                                      ![active].checkpointed = TRUE]
    BY <1>8 DEF session_checkpoint, Stamped, TypeOK
  <2>2. session'[c] = session[c] /\ own'[c] = own[c]
    BY <2>1 DEF TypeOK
  <2>3. v # Own => w # v
    BY <2>1 DEF Distinct
  <2>4. v # Own => pool'[1] = pool[1]
    BY <1>1, <2>1, <2>3 DEF TypeOK
  <2> QED
    BY <2>2, <2>4
<1>9. CASE PoolUsed
  <2>1. Extends
    BY <1>9, AppendExtends DEF PoolUsed, Stamps
  <2> QED
    BY <1>2, <1>9, <2>1 DEF PoolUsed
<1>10. CASE \/ \E d \in Contexts : SwitchBack(d) \/ Save(d)
            \/ Tick \/ UNCHANGED vars
  BY <1>10 DEF SwitchBack, Save, Tick, vars
<1>11. CASE Construct \/ Crash
  BY <1>11 DEF Construct, Crash
<1> QED
  BY <1>5, <1>6, <1>7, <1>8, <1>9, <1>10, <1>11 DEF Next

(* Contexts do not alter each other's headers.                             *)
THEOREM ContextsAreIsolated == Spec => Isolated
<1> DEFINE A == \A c \in Contexts :
         up /\ up' /\ active # c /\ Exists(c) /\ AtStart(session[c].view)
         => /\ session'[c] = session[c]
            /\ session_header_validate(c, session[c].view)'
                 = session_header_validate(c, session[c].view)
<1>1. IInv /\ [Next]_vars => [A]_vars
  BY StepIsolates
<1> QED
  BY <1>1, Invariance, PTL DEF Isolated, Spec
=============================================================================
