----------------------------- MODULE VolumeProofs -----------------------------
(***************************************************************************)
(* Theorems about Volume, VolumeDiscovery and HostAudit, for any number of *)
(* volumes, ids, mounts, imprints, entries of a scan, hosts and audits.    *)
(***************************************************************************)
EXTENDS VolumeDiscovery, HostAudit, FiniteSetTheorems, SequenceTheorems,
        WellFoundedInduction, TLAPS

-----------------------------------------------------------------------------
(* The program counter and locals of an imprint's pipeline.                *)
Reasons == {"none", "exhausted", "post_check"}
OpRecord == [pc : Op!PcOK, step : Int, attempt : Int, completed : Int,
             tries : [1 .. 1 -> Int], reason : Reasons]
OpTyped == op \in [Imprints -> OpRecord]

Writing(i) == op[i].pc = "body"

(* An imprint is called on an instance that exists, so that no constructor *)
(* resets what it sets, and has counted it as imprinted.                   *)
WritesMarked ==
    \A i \in Imprints :
        Writing(i) => vol[VolumeOf[i]].made /\ vol[VolumeOf[i]].imprinted

Entry == [id : VolumeIds, vol : Vols]
UniqueKeys(s) == \A i, j \in DOMAIN s : s[i].id = s[j].id => i = j
IdsOf(s) == {s[i].id : i \in DOMAIN s}

RegistriesOK ==
    /\ known \subseteq VolumeIds /\ marked \subseteq VolumeIds
    /\ active \in Seq([id : VolumeIds, vol : Vols])
    /\ RegistriesAgree

MasksOK == OpTyped /\ WritesMarked /\ NotBusyWhenIdle

IInv == TypeOK /\ RegistriesAgree /\ MasksOK

(* What all steps but the two turns of an imprint do to the instances: no  *)
(* mask is set, and of one that exists neither the write mask nor the      *)
(* imprinted mark is lost.                                                 *)
Calm ==
    /\ op' = op
    /\ \A v \in Vols :
         /\ vol'[v].write => vol[v].write
         /\ vol'[v].maintain => vol[v].maintain
         /\ vol[v].made => /\ vol'[v].made
                           /\ vol'[v].write = vol[v].write
                           /\ vol[v].imprinted => vol'[v].imprinted

(* What the two turns of an imprint do to them. *)
BeginShape(i) ==
    /\ Op!Begin(i)
    /\ \A v \in Vols : v # VolumeOf[i] => vol'[v] = vol[v]
    /\ LET r == vol'[VolumeOf[i]] IN r.made /\ r.imprinted /\ r.write
EndShape(i) ==
    /\ Op!BodySucceeds(i)
    /\ \A v \in Vols :
         /\ vol'[v].made = vol[v].made
         /\ vol'[v].imprinted = vol[v].imprinted
         /\ v # VolumeOf[i] => /\ vol'[v].write = vol[v].write
                               /\ vol'[v].maintain => vol[v].maintain
    /\ LET r == vol'[VolumeOf[i]] IN ~r.write /\ ~r.maintain

-----------------------------------------------------------------------------
(* The updates of a pipeline's locals keep them typed.                     *)
LEMMA SetPc ==
    ASSUME NEW o \in OpRecord, NEW s \in Op!PcOK
    PROVE  /\ [o EXCEPT !.pc = s] \in OpRecord
           /\ [o EXCEPT !.pc = s].pc = s
<1>1. [o EXCEPT !.pc = s] \in OpRecord
  BY DEF OpRecord
<1>2. [o EXCEPT !.pc = s].pc = s
  BY DEF OpRecord
<1> QED
  BY <1>1, <1>2

LEMMA FailPc ==
    ASSUME NEW o \in OpRecord, NEW s \in Op!PcOK, NEW why \in Reasons
    PROVE  /\ [o EXCEPT !.pc = s, !.reason = why] \in OpRecord
           /\ [o EXCEPT !.pc = s, !.reason = why].pc = s
<1> DEFINE f == [o EXCEPT !.pc = s]
<1>1. f \in OpRecord /\ f.pc = s
  BY SetPc
<1>2. [o EXCEPT !.pc = s, !.reason = why] = [f EXCEPT !.reason = why]
  OBVIOUS
<1> HIDE DEF f
<1>3. [f EXCEPT !.reason = why] \in OpRecord
  BY <1>1 DEF OpRecord
<1>4. [f EXCEPT !.reason = why].pc = f.pc
  BY <1>1 DEF OpRecord
<1> QED
  BY <1>1, <1>2, <1>3, <1>4

LEMMA StepTyped ==
    ASSUME NEW o \in OpRecord
    PROVE  Op!NextStep(o) \in OpRecord
<1>1. o.step + 1 \in Int
  BY DEF OpRecord
<1>2. [o EXCEPT !.step = o.step + 1] \in OpRecord
  BY <1>1 DEF OpRecord
<1> DEFINE f == [o EXCEPT !.step = o.step + 1]
<1>3. Op!NextStep(o) = [f EXCEPT !.attempt = 0]
  BY DEF Op!NextStep
<1> HIDE DEF f
<1>4. f \in OpRecord
  BY <1>2 DEF f
<1>5. [f EXCEPT !.attempt = 0] \in OpRecord
  BY <1>4 DEF OpRecord
<1> QED
  BY <1>3, <1>5

(* What the pipeline of an imprint does at its two turns: the call enters  *)
(* the body of its only step, the end of the body leaves it for good.      *)
LEMMA BeginOp ==
    ASSUME OpTyped, NEW i \in Imprints, Op!Begin(i)
    PROVE  /\ OpTyped'
           /\ op'[i].pc = "body"
           /\ \A j \in Imprints : j # i => op'[j] = op[j]
<1> DEFINE o == Op!NextStep(op[i])
           called == [o EXCEPT !.tries[o.step] = Op!Counted(i, @)]
           r == [called EXCEPT !.pc = "body"]
<1>1. op' = [op EXCEPT ![i] = r]
  BY DEF Op!Begin, Op!Enter, Op!HouseKeepingFails
<1>2. op[i] \in OpRecord
  BY DEF OpTyped
<1>3. o \in OpRecord
  BY <1>2, StepTyped
<1> HIDE DEF o
<1>4. called \in OpRecord
  <2>1. \A n \in Int : Op!Counted(i, n) \in Int
    BY DEF Op!Counted
  <2> DEFINE t == [o.tries EXCEPT ![o.step] = Op!Counted(i, @)]
  <2>2. t \in [1 .. 1 -> Int]
    BY <1>3, <2>1 DEF OpRecord
  <2>3. called = [o EXCEPT !.tries = t]
    OBVIOUS
  <2> HIDE DEF t
  <2>4. [o EXCEPT !.tries = t] \in OpRecord
    BY <1>3, <2>2 DEF OpRecord
  <2> QED
    BY <2>3, <2>4
<1> HIDE DEF called
<1>5. r \in OpRecord /\ r.pc = "body"
  BY <1>4, SetPc DEF Op!PcOK
<1> HIDE DEF r
<1> QED
  BY <1>1, <1>5 DEF OpTyped

LEMMA EndOp ==
    ASSUME OpTyped, NEW i \in Imprints, Op!BodySucceeds(i)
    PROVE  /\ OpTyped'
           /\ op[i].pc = "body"
           /\ op'[i].pc # "body"
           /\ \A j \in Imprints : j # i => op'[j] = op[j]
<1> DEFINE o == [op[i] EXCEPT !.completed = @ + 1]
           r == IF Op!IsLastStep(i, o) THEN Op!Conclude(i, o)
                                       ELSE [o EXCEPT !.pc = "pause"]
<1>1. op[i].pc = "body" /\ op' = [op EXCEPT ![i] = r]
  BY DEF Op!BodySucceeds
<1>2. op[i] \in OpRecord
  BY DEF OpTyped
<1>3. o \in OpRecord
  <2>1. op[i].completed + 1 \in Int
    BY <1>2 DEF OpRecord
  <2> QED
    BY <1>2, <2>1 DEF OpRecord
<1> HIDE DEF o
<1>4. r \in OpRecord /\ r.pc # "body"
  <2>1. /\ [o EXCEPT !.pc = "pause"] \in OpRecord
        /\ [o EXCEPT !.pc = "pause"].pc = "pause"
    BY <1>3, SetPc DEF Op!PcOK
  <2>2. /\ [o EXCEPT !.pc = "done"] \in OpRecord
        /\ [o EXCEPT !.pc = "done"].pc = "done"
    BY <1>3, SetPc DEF Op!PcOK
  <2>3. /\ [o EXCEPT !.pc = "failed", !.reason = "post_check"] \in OpRecord
        /\ [o EXCEPT !.pc = "failed", !.reason = "post_check"].pc = "failed"
    BY <1>3, FailPc DEF Op!PcOK, Reasons
  <2> QED
    BY <2>1, <2>2, <2>3 DEF Op!Conclude
<1> HIDE DEF r
<1> QED
  BY <1>1, <1>4 DEF OpTyped

-----------------------------------------------------------------------------
(* Registering adds one key and keeps every key unique, whether it was     *)
(* there or not.                                                           *)
LEMMA RegisterKeys ==
    ASSUME active \in Seq(Entry), UniqueKeys(active),
           NEW id \in VolumeIds, NEW v \in Vols
    PROVE  /\ Register(id, v) \in Seq(Entry)
           /\ UniqueKeys(Register(id, v))
           /\ IdsOf(Register(id, v)) = IdsOf(active) \cup {id}
<1> DEFINE e == [id |-> id, vol |-> v]
<1>1. e \in Entry /\ e.id = id
  BY DEF Entry
<1>2. DOMAIN active = 1 .. Len(active) /\ Len(active) \in Nat
  BY LenProperties
<1>3. CASE id \in ActiveIds
  <2> DEFINE s == [i \in DOMAIN active |-> IF active[i].id = id THEN e ELSE active[i]]
  <2>1. Register(id, v) = s
    BY <1>3 DEF Register
  <2>2. \A i \in DOMAIN active : active[i] \in Entry
    BY ElementOfSeq, <1>2
  <2>3. s \in Seq(Entry)
    <3>1. s \in [1 .. Len(active) -> Entry]
      BY <1>1, <1>2, <2>2
    <3> HIDE DEF s
    <3> QED
      BY <1>2, <3>1, SeqDef
  <2>4. DOMAIN s = DOMAIN active /\ \A i \in DOMAIN s : s[i].id = active[i].id
    BY <1>1
  <2> HIDE DEF s
  <2> QED
    BY <1>3, <2>1, <2>3, <2>4 DEF UniqueKeys, IdsOf, ActiveIds
<1>4. CASE id \notin ActiveIds
  <2> DEFINE s == Append(active, e)
  <2>1. Register(id, v) = s
    BY <1>4 DEF Register
  <2>2. /\ s \in Seq(Entry)
        /\ DOMAIN s = 1 .. Len(active) + 1
        /\ s[Len(active) + 1] = e
        /\ \A i \in 1 .. Len(active) : s[i] = active[i]
    <3> HIDE DEF e
    <3> QED
      BY <1>1, <1>2, AppendProperties
  <2> HIDE DEF s, e
  <2>3. UniqueKeys(s)
    <3> SUFFICES ASSUME NEW i \in DOMAIN s, NEW j \in DOMAIN s, s[i].id = s[j].id
                 PROVE  i = j
      BY DEF UniqueKeys
    <3>1. \A k \in DOMAIN active : active[k].id # id
      BY <1>4 DEF ActiveIds
    <3>2. CASE i = Len(active) + 1 \/ j = Len(active) + 1
      BY <1>1, <1>2, <2>2, <3>1, <3>2
    <3>3. CASE i # Len(active) + 1 /\ j # Len(active) + 1
      BY <1>2, <2>2, <3>3 DEF UniqueKeys
    <3> QED
      BY <3>2, <3>3
  <2>4. IdsOf(s) = IdsOf(active) \cup {id}
    <3>1. DOMAIN s = DOMAIN active \cup {Len(active) + 1}
      BY <1>2, <2>2
    <3>2. \A i \in DOMAIN active : s[i].id = active[i].id
      BY <1>2, <2>2
    <3>3. s[Len(active) + 1].id = id
      BY <1>1, <2>2
    <3> QED
      BY <3>1, <3>2, <3>3 DEF IdsOf
  <2> QED
    BY <2>1, <2>2, <2>3, <2>4
<1> QED
  BY <1>3, <1>4

(* What the deletion of a Map's entry leaves: every element was there, and *)
(* two places that are left come from two places.                          *)
LEMMA RemoveAtElements ==
    ASSUME NEW S, NEW s \in Seq(S), NEW i \in DOMAIN s
    PROVE  /\ RemoveAt(s, i) \in Seq(S)
           /\ \E f \in [DOMAIN RemoveAt(s, i) -> DOMAIN s] :
                /\ \A k \in DOMAIN RemoveAt(s, i) : RemoveAt(s, i)[k] = s[f[k]]
                /\ \A k, n \in DOMAIN RemoveAt(s, i) : f[k] = f[n] => k = n
<1> DEFINE l == SubSeq(s, 1, i - 1)
           r == SubSeq(s, i + 1, Len(s))
           f == [k \in 1 .. Len(s) - 1 |-> IF k < i THEN k ELSE k + 1]
<1>1. DOMAIN s = 1 .. Len(s) /\ i \in 1 .. Len(s) /\ Len(s) \in Nat
  BY LenProperties
<1>2. l \in Seq(S) /\ Len(l) = i - 1 /\ \A k \in 1 .. i - 1 : l[k] = s[k]
  BY <1>1, SubSeqProperties
<1>3. r \in Seq(S) /\ Len(r) = Len(s) - i
      /\ \A k \in 1 .. Len(s) - i : r[k] = s[i + k]
  BY <1>1
<1>4. RemoveAt(s, i) = l \o r
  BY DEF RemoveAt
<1> HIDE DEF l, r
<1>5. l \o r \in Seq(S) /\ DOMAIN (l \o r) = 1 .. Len(s) - 1
  <2>1. l \o r \in Seq(S) /\ Len(l \o r) = Len(l) + Len(r)
    BY <1>2, <1>3, ConcatProperties
  <2>2. Len(l) + Len(r) = Len(s) - 1
    BY <1>1, <1>2, <1>3
  <2> QED
    BY <2>1, <2>2, LenProperties
<1>6. \A k \in 1 .. Len(s) - 1 : (l \o r)[k] = IF k < i THEN l[k] ELSE r[k - (i - 1)]
  BY <1>1, <1>2, <1>3, ConcatProperties
<1>7. ASSUME NEW k \in 1 .. Len(s) - 1 PROVE (l \o r)[k] = s[f[k]]
  <2>1. CASE k < i
    BY <1>1, <1>2, <1>6, <2>1
  <2>2. CASE ~(k < i)
    <3>1. k - (i - 1) \in 1 .. Len(s) - i /\ i + (k - (i - 1)) = k + 1
      BY <1>1, <2>2
    <3>2. f[k] = k + 1 /\ (l \o r)[k] = r[k - (i - 1)]
      BY <1>6, <2>2
    <3> QED
      BY <1>3, <3>1, <3>2
  <2> QED
    BY <2>1, <2>2
<1>8. f \in [1 .. Len(s) - 1 -> DOMAIN s]
      /\ \A k, n \in 1 .. Len(s) - 1 : f[k] = f[n] => k = n
  BY <1>1
<1> HIDE DEF f
<1> QED
  BY <1>4, <1>5, <1>7, <1>8

(* Deleting an entry adds no key and repeats none.                         *)
LEMMA DeleteKeys ==
    ASSUME active \in Seq(Entry), UniqueKeys(active), NEW n \in DOMAIN active
    PROVE  /\ RemoveAt(active, n) \in Seq(Entry)
           /\ UniqueKeys(RemoveAt(active, n))
           /\ IdsOf(RemoveAt(active, n)) \subseteq IdsOf(active)
<1> DEFINE r == RemoveAt(active, n)
<1>1. PICK f \in [DOMAIN r -> DOMAIN active] :
        /\ \A k \in DOMAIN r : r[k] = active[f[k]]
        /\ \A k, m \in DOMAIN r : f[k] = f[m] => k = m
  BY RemoveAtElements
<1>2. r \in Seq(Entry)
  BY RemoveAtElements
<1> HIDE DEF r
<1> QED
  BY <1>1, <1>2 DEF UniqueKeys, IdsOf, r

LEMMA AddKeepsRegistries ==
    ASSUME TypeOK, RegistriesAgree, NEW id \in VolumeIds, NEW v \in Vols,
           active' = Register(id, v), known' = known \cup {id},
           marked' \subseteq marked \cup {id}
    PROVE  RegistriesOK'
<1>1. active \in Seq(Entry) /\ UniqueKeys(active)
  BY DEF TypeOK, RegistriesAgree, UniqueKeys, Entry
<1>2. active' \in Seq(Entry) /\ UniqueKeys(active')
      /\ IdsOf(active') = IdsOf(active) \cup {id}
  BY <1>1, RegisterKeys
<1>3. IdsOf(active) \cup marked \subseteq known
  BY DEF RegistriesAgree, IdsOf, ActiveIds
<1>4. ActiveIds' = IdsOf(active')
  BY DEF ActiveIds, IdsOf
<1>5. ActiveIds' \cup marked' \subseteq known'
  BY <1>2, <1>3, <1>4
<1> QED
  BY <1>2, <1>5 DEF TypeOK, RegistriesOK, RegistriesAgree, UniqueKeys, Entry

-----------------------------------------------------------------------------
(* What the updates of an instance keep. *)
LEMMA MadeTyped ==
    ASSUME NEW v \in Vols, NEW id \in VolumeIds \cup {NoId}, NEW b \in BOOLEAN
    PROVE  /\ Made(v, id, b) \in Instance
           /\ ~Made(v, id, b).write /\ ~Made(v, id, b).maintain
BY DEF Made, Instance

LEMMA IdentifyTyped ==
    ASSUME vol \in [Vols -> Instance], NEW v \in Vols, NEW id \in VolumeIds
    PROVE  /\ Identify(v, id) \in [Vols -> Instance]
           /\ \A u \in Vols :
                /\ Identify(v, id)[u].write = vol[u].write
                /\ Identify(v, id)[u].maintain = vol[u].maintain
                /\ Identify(v, id)[u].made = vol[u].made
                /\ Identify(v, id)[u].imprinted = vol[u].imprinted
<1>1. vol[v] \in Instance
  OBVIOUS
<1> DEFINE r == [vol[v] EXCEPT !.id = id]
<1>2. r \in Instance
  BY <1>1 DEF Instance
<1>3. /\ r.write = vol[v].write /\ r.maintain = vol[v].maintain
      /\ r.made = vol[v].made /\ r.imprinted = vol[v].imprinted
  BY <1>1 DEF Instance
<1>4. Identify(v, id) = [vol EXCEPT ![v] = r]
  BY DEF Identify
<1> HIDE DEF r
<1> QED
  BY <1>2, <1>3, <1>4

LEMMA ImprintedTyped ==
    ASSUME vol \in [Vols -> Instance], NEW v \in Vols,
           NEW id \in VolumeIds \cup {NoId}
    PROVE  /\ Imprinted(v, id) \in [Vols -> Instance]
           /\ Imprinted(v, id)[v].imprinted
           /\ \A u \in Vols :
                /\ Imprinted(v, id)[u].write = vol[u].write
                /\ Imprinted(v, id)[u].maintain = vol[u].maintain
                /\ Imprinted(v, id)[u].made = vol[u].made
                /\ u # v => Imprinted(v, id)[u] = vol[u]
<1>1. vol[v] \in Instance
  OBVIOUS
<1> DEFINE x == IF id = NoId THEN vol[v].id ELSE id
           r == [vol[v] EXCEPT !.imprinted = TRUE, !.id = x]
<1>2. x \in VolumeIds \cup {NoId}
  BY <1>1 DEF Instance
<1>3. Imprinted(v, id) = [vol EXCEPT ![v] = r]
  BY DEF Imprinted
<1> HIDE DEF x
<1>4. r \in Instance
  BY <1>1, <1>2 DEF Instance
<1>5. /\ r.write = vol[v].write /\ r.maintain = vol[v].maintain
      /\ r.made = vol[v].made /\ r.imprinted
  BY <1>1 DEF Instance
<1> HIDE DEF r
<1> QED
  BY <1>3, <1>4, <1>5

LEMMA CheckedTyped ==
    ASSUME NEW f \in [Vols -> Instance], NEW vs
    PROVE  /\ Checked(f, vs) \in [Vols -> Instance]
           /\ \A u \in Vols :
                /\ Checked(f, vs)[u].write = f[u].write
                /\ Checked(f, vs)[u].maintain => f[u].maintain
                /\ Checked(f, vs)[u].made = f[u].made
                /\ Checked(f, vs)[u].imprinted = f[u].imprinted
<1>1. ASSUME NEW u \in Vols
      PROVE  /\ [f[u] EXCEPT !.maintain = FALSE] \in Instance
             /\ [f[u] EXCEPT !.maintain = FALSE].write = f[u].write
             /\ [f[u] EXCEPT !.maintain = FALSE].maintain = FALSE
             /\ [f[u] EXCEPT !.maintain = FALSE].made = f[u].made
             /\ [f[u] EXCEPT !.maintain = FALSE].imprinted = f[u].imprinted
  <2>1. f[u] \in Instance
    OBVIOUS
  <2>2. [f[u] EXCEPT !.maintain = FALSE] \in Instance
    BY <2>1 DEF Instance
  <2> QED
    BY <2>1, <2>2 DEF Instance
<1>2. \A u \in Vols : Checked(f, vs)[u] = IF u \in vs THEN [f[u] EXCEPT !.maintain = FALSE]
                                                      ELSE f[u]
  BY DEF Checked
<1>3. Checked(f, vs) \in [Vols -> Instance]
  BY <1>1 DEF Checked
<1> QED
  BY <1>1, <1>2, <1>3

LEMMA WriteMasksTyped ==
    ASSUME NEW f \in [Vols -> Instance], NEW v \in Vols
    PROVE  /\ BeginWrite(f, v) \in [Vols -> Instance]
           /\ EndWrite(f, v) \in [Vols -> Instance]
           /\ \A u \in Vols : u # v => BeginWrite(f, v)[u] = f[u]
           /\ \A u \in Vols : u # v => EndWrite(f, v)[u] = f[u]
           /\ LET r == BeginWrite(f, v)[v]
              IN r.write /\ r.made = f[v].made /\ r.imprinted = f[v].imprinted
           /\ LET r == EndWrite(f, v)[v]
              IN /\ ~r.write /\ ~r.maintain
                 /\ r.made = f[v].made /\ r.imprinted = f[v].imprinted
<1>1. f[v] \in Instance
  OBVIOUS
<1>2. ASSUME NEW b \in BOOLEAN
      PROVE  LET r == [f[v] EXCEPT !.write = b, !.maintain = b]
             IN  /\ r \in Instance
                 /\ r.write = b /\ r.maintain = b
                 /\ r.made = f[v].made /\ r.imprinted = f[v].imprinted
  <2> DEFINE r == [f[v] EXCEPT !.write = b, !.maintain = b]
  <2>1. r \in Instance
    BY <1>1 DEF Instance
  <2>2. r.write = b /\ r.maintain = b
    BY <1>1 DEF Instance
  <2>3. r.made = f[v].made /\ r.imprinted = f[v].imprinted
    BY <1>1 DEF Instance
  <2> QED
    BY <2>1, <2>2, <2>3
<1>3. /\ BeginWrite(f, v) = [f EXCEPT ![v] = [f[v] EXCEPT !.write = TRUE, !.maintain = TRUE]]
      /\ EndWrite(f, v) = [f EXCEPT ![v] = [f[v] EXCEPT !.write = FALSE, !.maintain = FALSE]]
  BY DEF BeginWrite, EndWrite
<1> QED
  BY <1>2, <1>3

-----------------------------------------------------------------------------
LEMMA ActiveIdKnown ==
    ASSUME TypeOK, NEW v \in Vols, NEW given \in Ids \cup {NoId}
    PROVE  ActiveId(v, given) \in VolumeIds
<1>1. FallbackId \in VolumeIds
  <2>1. Len(active) \in Nat
    BY LenProperties DEF TypeOK
  <2> QED
    BY <2>1 DEF FallbackId, SizedId, VolumeIds
<1>2. Ids \subseteq VolumeIds
  BY DEF VolumeIds
<1>3. vol[v].id \in VolumeIds \cup {NoId}
  BY DEF TypeOK, Instance
<1> QED
  BY <1>1, <1>2, <1>3 DEF ActiveId

(* The registries after an operation that may register an instance.        *)
LEMMA UnchangedRegistries ==
    ASSUME TypeOK, RegistriesAgree, UNCHANGED <<marked, active>>,
           known \subseteq known', known' \subseteq VolumeIds
    PROVE  RegistriesOK'
BY DEF TypeOK, RegistriesOK, RegistriesAgree, ActiveIds

LEMMA NewStep ==
    ASSUME IInv, NEW v \in Vols, NEW id \in VolumeIds \cup {NoId},
           NEW b \in BOOLEAN, New(v, id, b), op' = op
    PROVE  vol' \in [Vols -> Instance] /\ RegistriesOK' /\ Calm
<1> USE DEF IInv
<1>1. ~vol[v].made /\ vol' = [vol EXCEPT ![v] = Made(v, id, b)]
  BY DEF New
<1>2. vol' \in [Vols -> Instance]
  BY <1>1, MadeTyped DEF TypeOK
<1>3. Calm
  BY <1>1, MadeTyped DEF Calm, TypeOK
<1>4. RegistriesOK'
  <2>1. CASE id = NoId
    BY <2>1, UnchangedRegistries DEF New, registries, TypeOK
  <2>2. CASE id # NoId
    BY <2>2, AddKeepsRegistries DEF New
  <2> QED
    BY <2>1, <2>2
<1> QED
  BY <1>2, <1>3, <1>4

LEMMA MarkedStep ==
    ASSUME IInv, NEW v \in Vols, NEW id \in VolumeIds \cup {NoId}, Marked(v, id)
    PROVE  RegistriesOK'
<1>1. CASE id = NoId
  BY <1>1, UnchangedRegistries DEF IInv, Marked, registries, TypeOK
<1>2. CASE id # NoId
  BY <1>2, AddKeepsRegistries DEF IInv, Marked
<1> QED
  BY <1>1, <1>2

(* Every step keeps the registries in order and the instances typed, and   *)
(* is calm or a turn of one imprint.                                       *)
TurnOrCalm ==
    \/ Calm
    \/ \E i \in Imprints : BeginShape(i) \/ EndShape(i)
StepOK ==
    /\ vol' \in [Vols -> Instance]
    /\ mount' \in [Mounts -> Ids \cup {NoId, Unnamed}]
    /\ RegistriesOK'
    /\ TurnOrCalm

(* Operations that touch registries and mounts only. *)
LEMMA RegistryStep ==
    ASSUME IInv, UNCHANGED <<vol, op>>,
           \/ \E m \in Mounts, id \in Ids \cup {Unnamed} : MountBegin(m, id)
           \/ \E id \in ActiveIds : Unmount(id)
           \/ \E id \in Ids : AddKnown(id)
           \/ ClearRegistries
    PROVE  StepOK
<1> USE DEF IInv
<1>1. vol' \in [Vols -> Instance] /\ Calm
  BY DEF TypeOK, Calm
<1>2. Ids \subseteq VolumeIds
  BY DEF VolumeIds
<1>3. ASSUME NEW m \in Mounts, NEW id \in Ids \cup {Unnamed}, MountBegin(m, id)
      PROVE  StepOK
  <2>1. RegistriesOK'
    BY <1>2, <1>3, UnchangedRegistries DEF MountBegin, TypeOK
  <2>2. mount' \in [Mounts -> Ids \cup {NoId, Unnamed}]
    BY <1>3 DEF MountBegin, TypeOK
  <2> QED
    BY <1>1, <2>1, <2>2 DEF StepOK, TurnOrCalm
<1>4. ASSUME NEW id \in ActiveIds, Unmount(id)
      PROVE  StepOK
  <2>1. PICK n \in DOMAIN active : active' = RemoveAt(active, n)
    BY <1>4 DEF Unmount
  <2>2. active \in Seq(Entry) /\ UniqueKeys(active)
    BY DEF TypeOK, RegistriesAgree, UniqueKeys, Entry
  <2>3. active' \in Seq(Entry) /\ UniqueKeys(active') /\ IdsOf(active') \subseteq IdsOf(active)
    BY <2>1, <2>2, DeleteKeys
  <2>4. known' = known /\ marked' = marked /\ mount' = mount
    BY <1>4 DEF Unmount
  <2>5. ActiveIds' \subseteq ActiveIds
    BY <2>3 DEF ActiveIds, IdsOf
  <2>6. RegistriesOK'
    BY <2>3, <2>4, <2>5 DEF RegistriesOK, RegistriesAgree, UniqueKeys, Entry, TypeOK
  <2> QED
    BY <1>1, <2>4, <2>6 DEF StepOK, TurnOrCalm, TypeOK
<1>5. ASSUME NEW id \in Ids, AddKnown(id)
      PROVE  StepOK
  <2>1. RegistriesOK'
    BY <1>2, <1>5 DEF AddKnown, TypeOK, RegistriesOK, RegistriesAgree, ActiveIds
  <2> QED
    BY <1>1, <1>5, <2>1 DEF AddKnown, StepOK, TurnOrCalm, TypeOK
<1>6. CASE ClearRegistries
  <2>1. RegistriesOK'
    BY <1>6 DEF ClearRegistries, RegistriesOK, RegistriesAgree, ActiveIds
  <2> QED
    BY <1>1, <1>6, <2>1 DEF ClearRegistries, StepOK, TurnOrCalm, TypeOK
<1> QED
  BY <1>3, <1>4, <1>5, <1>6

(* Operations that set an instance's masks, id or species.                 *)
LEMMA InstanceStep ==
    ASSUME IInv, UNCHANGED <<op, mount>>,
           \/ \E v \in Vols, id \in Ids \cup {NoId} : AddActive(v, id) \/ ImprintSkipped(v, id)
           \/ \E v \in Vols, b \in BOOLEAN : SetType(v, b)
           \/ \E vs \in SUBSET Vols : vol' = Checked(vol, vs) /\ UNCHANGED registries
    PROVE  StepOK
<1> USE DEF IInv
<1>0. vol \in [Vols -> Instance] /\ mount' \in [Mounts -> Ids \cup {NoId, Unnamed}]
  BY DEF TypeOK
<1>1. Ids \subseteq VolumeIds
  BY DEF VolumeIds
<1>2. ASSUME NEW v \in Vols, NEW id \in Ids \cup {NoId}, AddActive(v, id)
      PROVE  StepOK
  <2> DEFINE key == ActiveId(v, id)
  <2>1. key \in VolumeIds
    BY ActiveIdKnown
  <2>2. /\ vol' = Identify(v, key) /\ active' = Register(key, v)
        /\ known' = known \cup {key} /\ marked' = marked
    BY <1>2 DEF AddActive, Learn
  <2> HIDE DEF key
  <2>3. RegistriesOK'
    BY <2>1, <2>2, AddKeepsRegistries
  <2>4. vol' \in [Vols -> Instance] /\ Calm
    BY <1>0, <2>1, <2>2, IdentifyTyped DEF Calm
  <2> QED
    BY <1>0, <2>3, <2>4 DEF StepOK, TurnOrCalm
<1>3. ASSUME NEW v \in Vols, NEW id \in Ids \cup {NoId}, ImprintSkipped(v, id)
      PROVE  StepOK
  <2>1. RegistriesOK'
    BY <1>1, <1>3, MarkedStep DEF ImprintSkipped
  <2>2. vol' = Imprinted(v, id) /\ id \in VolumeIds \cup {NoId}
    BY <1>1, <1>3 DEF ImprintSkipped
  <2>3. vol' \in [Vols -> Instance] /\ Calm
    BY <1>0, <2>2, ImprintedTyped DEF Calm
  <2> QED
    BY <1>0, <2>1, <2>3 DEF StepOK, TurnOrCalm
<1>4. ASSUME NEW v \in Vols, NEW b \in BOOLEAN, SetType(v, b)
      PROVE  StepOK
  <2> DEFINE r == [vol[v] EXCEPT !.volatile = b]
  <2>1. vol' = [vol EXCEPT ![v] = r]
    BY <1>4 DEF SetType
  <2>2. vol[v] \in Instance
    BY <1>0
  <2>3. r \in Instance
    BY <2>2 DEF Instance
  <2>4. /\ r.write = vol[v].write /\ r.maintain = vol[v].maintain
        /\ r.made = vol[v].made /\ r.imprinted = vol[v].imprinted
    BY <2>2 DEF Instance
  <2> HIDE DEF r
  <2>5. vol' \in [Vols -> Instance] /\ Calm
    BY <1>0, <2>1, <2>3, <2>4 DEF Calm
  <2>6. RegistriesOK'
    BY <1>4, UnchangedRegistries DEF SetType, registries, TypeOK
  <2> QED
    BY <1>0, <2>5, <2>6 DEF StepOK, TurnOrCalm
<1>5. ASSUME NEW vs \in SUBSET Vols, vol' = Checked(vol, vs), UNCHANGED registries
      PROVE  StepOK
  <2>1. vol' \in [Vols -> Instance] /\ Calm
    BY <1>0, <1>5, CheckedTyped DEF Calm
  <2>2. RegistriesOK'
    BY <1>5, UnchangedRegistries DEF registries, TypeOK
  <2> QED
    BY <1>0, <2>1, <2>2 DEF StepOK, TurnOrCalm
<1> QED
  BY <1>2, <1>3, <1>4, <1>5

(* The two turns of an imprint. *)
LEMMA ImprintStep ==
    ASSUME IInv, NEW i \in Imprints,
           \/ \E id \in Ids \cup {NoId} : ImprintBegin(i, id)
           \/ ImprintEnd(i)
    PROVE  StepOK
<1> USE DEF IInv
<1> DEFINE v == VolumeOf[i]
<1>0. vol \in [Vols -> Instance] /\ v \in Vols
  BY VolumeAssumption DEF TypeOK
<1>1. ASSUME NEW id \in Ids \cup {NoId}, ImprintBegin(i, id)
      PROVE  StepOK
  <2> DEFINE f == Imprinted(v, id)
  <2>1. /\ Marked(v, id) /\ Op!Begin(i) /\ mount' = mount
        /\ vol' = BeginWrite(f, v)
    BY <1>1 DEF ImprintBegin
  <2>2. id \in VolumeIds \cup {NoId} /\ vol[v].made
    BY <2>1 DEF VolumeIds, Marked
  <2>3. /\ f \in [Vols -> Instance] /\ f[v].imprinted /\ f[v].made = vol[v].made
        /\ \A u \in Vols : u # v => f[u] = vol[u]
    BY <1>0, <2>2, ImprintedTyped
  <2>4. RegistriesOK'
    BY <1>0, <2>1, <2>2, MarkedStep
  <2> HIDE DEF f, v
  <2>5. vol' \in [Vols -> Instance] /\ vol'[v].made /\ vol'[v].imprinted /\ vol'[v].write
        /\ \A u \in Vols : u # v => vol'[u] = vol[u]
    <3> DEFINE g == BeginWrite(f, v)
    <3>1. /\ g \in [Vols -> Instance] /\ g[v].write
          /\ g[v].made = f[v].made /\ g[v].imprinted = f[v].imprinted
          /\ \A u \in Vols : u # v => g[u] = f[u]
      BY <1>0, <2>3, WriteMasksTyped
    <3> HIDE DEF g
    <3>2. vol' = g
      BY <2>1 DEF g
    <3> QED
      BY <2>2, <2>3, <3>1, <3>2
  <2>6. BeginShape(i)
    BY <2>1, <2>5 DEF BeginShape, v
  <2> QED
    BY <2>1, <2>4, <2>5, <2>6 DEF StepOK, TurnOrCalm, TypeOK
<1>2. CASE ImprintEnd(i)
  <2> DEFINE f == EndWrite(vol, v)
  <2>1. /\ Op!BodySucceeds(i) /\ UNCHANGED <<registries, mount>>
        /\ vol' = Checked(f, Visited)
    BY <1>2 DEF ImprintEnd
  <2> HIDE DEF v
  <2>2. /\ f \in [Vols -> Instance] /\ ~f[v].write /\ ~f[v].maintain
        /\ f[v].made = vol[v].made /\ f[v].imprinted = vol[v].imprinted
        /\ \A u \in Vols : u # v => f[u] = vol[u]
    BY <1>0, WriteMasksTyped
  <2> HIDE DEF f
  <2>3. /\ vol' \in [Vols -> Instance]
        /\ \A u \in Vols :
             /\ vol'[u].write = f[u].write
             /\ vol'[u].maintain => f[u].maintain
             /\ vol'[u].made = f[u].made
             /\ vol'[u].imprinted = f[u].imprinted
    BY <2>1, <2>2, CheckedTyped
  <2>4. EndShape(i)
    BY <1>0, <2>1, <2>2, <2>3 DEF EndShape, v
  <2>5. RegistriesOK'
    BY <2>1, UnchangedRegistries DEF registries, TypeOK
  <2> QED
    BY <2>1, <2>3, <2>4, <2>5 DEF StepOK, TurnOrCalm, TypeOK
<1> QED
  BY <1>1, <1>2

LEMMA EveryStep == IInv /\ [Next]_vars => StepOK
<1> SUFFICES ASSUME IInv, [Next]_vars
             PROVE  StepOK
  OBVIOUS
<1> USE DEF IInv
<1>0. Ids \subseteq VolumeIds /\ vol \in [Vols -> Instance]
      /\ mount \in [Mounts -> Ids \cup {NoId, Unnamed}]
  BY DEF VolumeIds, TypeOK
<1>1. ASSUME NEW v \in Vols, NEW id \in Ids \cup {NoId}, NEW b \in BOOLEAN,
             Construct(v, id, b)
      PROVE  StepOK
  BY <1>0, <1>1, NewStep DEF Construct, StepOK, TurnOrCalm
<1>2. ASSUME NEW m \in Mounts, NEW v \in Vols, NEW b \in BOOLEAN, MountEnd(m, v, b)
      PROVE  StepOK
  <2>1. mount[m] \in VolumeIds /\ New(v, mount[m], b) /\ op' = op
    BY <1>0, <1>2 DEF MountEnd
  <2>2. vol' \in [Vols -> Instance] /\ RegistriesOK' /\ Calm
    BY <2>1, NewStep
  <2>3. mount' \in [Mounts -> Ids \cup {NoId, Unnamed}]
    BY <1>0, <1>2 DEF MountEnd
  <2> QED
    BY <2>2, <2>3 DEF StepOK, TurnOrCalm
<1>8. ASSUME NEW m \in Mounts, NEW v \in Vols, NEW b \in BOOLEAN, MountUnnamed(m, v, b)
      PROVE  StepOK
  <2> DEFINE key == FallbackId
  <2>1. /\ vol' = [vol EXCEPT ![v] = Made(v, key, b)]
        /\ active' = Register(key, v) /\ known' = known \cup {key}
        /\ UNCHANGED <<marked, op>>
    BY <1>8 DEF MountUnnamed, Learn
  <2>2. key \in VolumeIds
    <3>1. Len(active) \in Nat
      BY LenProperties DEF TypeOK
    <3> QED
      BY <3>1 DEF FallbackId, SizedId, VolumeIds
  <2> HIDE DEF key
  <2>3. RegistriesOK'
    BY <2>1, <2>2, AddKeepsRegistries
  <2>4. vol' \in [Vols -> Instance]
    BY <1>0, <2>1, <2>2, MadeTyped
  <2>5. Calm
    BY <1>0, <1>8, <2>1, <2>2, MadeTyped DEF MountUnnamed, Calm
  <2>6. mount' \in [Mounts -> Ids \cup {NoId, Unnamed}]
    BY <1>0, <1>8 DEF MountUnnamed
  <2> QED
    BY <2>3, <2>4, <2>5, <2>6 DEF StepOK, TurnOrCalm
<1>3. CASE \/ \E m \in Mounts, id \in Ids \cup {Unnamed} : MountBegin(m, id)
           \/ \E id \in ActiveIds : Unmount(id)
           \/ \E id \in Ids : AddKnown(id)
           \/ ClearRegistries
  <2>1. UNCHANGED <<vol, op>>
    BY <1>3 DEF MountBegin, Unmount, AddKnown, ClearRegistries
  <2> QED
    BY <1>3, <2>1, RegistryStep
<1>4. CASE \/ \E v \in Vols, id \in Ids \cup {NoId} : AddActive(v, id) \/ ImprintSkipped(v, id)
           \/ \E v \in Vols, b \in BOOLEAN : SetType(v, b)
  <2>1. UNCHANGED <<op, mount>>
    BY <1>4 DEF AddActive, ImprintSkipped, SetType
  <2> QED
    BY <1>4, <2>1, InstanceStep
<1>5. CASE Poll \/ \E v \in Vols : AssertVolume(v)
  <2>1. Visited \in SUBSET Vols
    <3>0. active \in Seq(Entry)
      BY DEF TypeOK, Entry
    <3>1. \A i \in DOMAIN active : active[i] \in Entry
      BY <3>0, ElementOfSeq, LenProperties
    <3>2. \A i \in DOMAIN active : active[i].vol \in Vols
      BY <3>1 DEF Entry
    <3> QED
      BY <3>2 DEF Visited
  <2>2. \E vs \in SUBSET Vols : vol' = Checked(vol, vs) /\ UNCHANGED registries
    BY <1>5, <2>1 DEF Poll, AssertVolume
  <2>3. UNCHANGED <<op, mount>>
    BY <1>5 DEF Poll, AssertVolume
  <2> QED
    BY <2>2, <2>3, InstanceStep
<1>6. ASSUME NEW i \in Imprints,
             \/ \E id \in Ids \cup {NoId} : ImprintBegin(i, id)
             \/ ImprintEnd(i)
      PROVE  StepOK
  BY <1>6, ImprintStep
<1>7. CASE UNCHANGED vars
  <2>1. RegistriesOK'
    BY <1>7, UnchangedRegistries DEF vars, TypeOK
  <2>2. Calm
    BY <1>7 DEF vars, Calm
  <2> QED
    BY <1>0, <1>7, <2>1, <2>2 DEF vars, StepOK, TurnOrCalm
<1> QED
  BY <1>1, <1>2, <1>3, <1>4, <1>5, <1>6, <1>7, <1>8 DEF Next

(* Masks: a calm step sets none, and of the volumes of one imprint's turn  *)
(* only its own changes.                                                   *)
LEMMA MasksKept == IInv /\ StepOK => MasksOK'
<1> SUFFICES ASSUME IInv, StepOK
             PROVE  MasksOK'
  OBVIOUS
<1> USE VolumeAssumption DEF IInv, MasksOK
<1>1. CASE Calm
  BY <1>1 DEF Calm, OpTyped, WritesMarked, Writing, NotBusyWhenIdle, Busy, InFlight
<1>2. ASSUME NEW i \in Imprints, BeginShape(i)
      PROVE  MasksOK'
  <2>1. OpTyped' /\ op'[i].pc = "body" /\ \A j \in Imprints : j # i => op'[j] = op[j]
    BY <1>2, BeginOp DEF BeginShape
  <2>2. WritesMarked'
    BY <1>2, <2>1 DEF BeginShape, WritesMarked, Writing
  <2>3. \A v \in Vols : InFlight(v) \/ v = VolumeOf[i] => InFlight(v)'
    <3>1. \A j \in Imprints : op[j].pc = "body" => op'[j].pc = "body"
      BY <2>1
    <3> QED
      BY <2>1, <3>1 DEF InFlight
  <2>4. NotBusyWhenIdle'
    BY <1>2, <2>3 DEF BeginShape, NotBusyWhenIdle, Busy
  <2> QED
    BY <2>1, <2>2, <2>4
<1>3. ASSUME NEW i \in Imprints, EndShape(i)
      PROVE  MasksOK'
  <2>1. OpTyped' /\ op'[i].pc # "body" /\ \A j \in Imprints : j # i => op'[j] = op[j]
    BY <1>3, EndOp DEF EndShape
  <2>2. WritesMarked'
    BY <1>3, <2>1 DEF EndShape, WritesMarked, Writing
  <2>3. \A v \in Vols : InFlight(v) /\ v # VolumeOf[i] => InFlight(v)'
    BY <2>1 DEF InFlight
  <2>4. NotBusyWhenIdle'
    BY <1>3, <2>3 DEF EndShape, NotBusyWhenIdle, Busy
  <2> QED
    BY <2>1, <2>2, <2>4
<1> QED
  BY <1>1, <1>2, <1>3 DEF StepOK, TurnOrCalm

-----------------------------------------------------------------------------
LEMMA InitIInv == Init => IInv
<1> SUFFICES ASSUME Init
             PROVE  IInv
  OBVIOUS
<1>1. Blank \in Instance /\ ~Blank.write /\ ~Blank.maintain
  BY DEF Blank, Instance
<1>2. TypeOK
  BY <1>1 DEF Init, TypeOK
<1>3. RegistriesAgree
  BY DEF Init, RegistriesAgree, ActiveIds
<1>4. \A i \in Imprints : op[i] \in OpRecord /\ op[i].pc = "idle"
  BY DEF Init, Op!Idle, OpRecord, Op!PcOK, Reasons
<1>5. OpTyped
  BY <1>4 DEF Init, OpTyped
<1>6. WritesMarked
  BY <1>4 DEF WritesMarked, Writing
<1>7. NotBusyWhenIdle
  BY <1>1 DEF Init, NotBusyWhenIdle, Busy
<1> QED
  BY <1>2, <1>3, <1>5, <1>6, <1>7 DEF IInv, MasksOK

LEMMA NextIInv == IInv /\ [Next]_vars => IInv'
<1> SUFFICES ASSUME IInv, [Next]_vars
             PROVE  IInv'
  OBVIOUS
<1>1. StepOK
  BY EveryStep
<1>2. MasksOK'
  BY <1>1, MasksKept
<1> QED
  BY <1>1, <1>2 DEF IInv, StepOK, RegistriesOK, TypeOK

THEOREM Invariance == Spec => []IInv
BY InitIInv, NextIInv, PTL DEF Spec

(* The variables keep their types: null never becomes a key, whichever id  *)
(* volume_add_active has to make up.                                       *)
THEOREM TypeCorrect == Spec => []TypeOK
<1>1. IInv => TypeOK
  BY DEF IInv
<1> QED
  BY Invariance, <1>1, PTL

(* Every active volume is known, every key is in the registry once.        *)
THEOREM RegistriesStayAgreed == Spec => []RegistriesAgree
<1>1. IInv => RegistriesAgree
  BY DEF IInv
<1> QED
  BY Invariance, <1>1, PTL

(* No mask outlives the imprints that need it.                             *)
THEOREM NoMaskLeftBehind == Spec => []NotBusyWhenIdle
<1>1. IInv => NotBusyWhenIdle
  BY DEF IInv, MasksOK
<1> QED
  BY Invariance, <1>1, PTL

(* A successful imprint leaves its volume accepted by the assertions: the  *)
(* mark made at the call survives everything until the end of the write.   *)
THEOREM ImprintTakesEffect == Spec => ImprintEffective
<1>1. ASSUME IInv, [Next]_vars, NEW i \in Imprints, ImprintEnd(i)
      PROVE  Accepted(VolumeOf[i])'
  <2> DEFINE v == VolumeOf[i]
  <2>1. Op!BodySucceeds(i) /\ vol' = Checked(EndWrite(vol, v), Visited)
    BY <1>1 DEF ImprintEnd
  <2>2. v \in Vols /\ vol \in [Vols -> Instance] /\ OpTyped
    BY <1>1, VolumeAssumption DEF IInv, MasksOK, TypeOK
  <2>3. vol[v].imprinted
    BY <1>1, <2>1, <2>2, EndOp DEF IInv, MasksOK, WritesMarked, Writing
  <2> DEFINE f == EndWrite(vol, v)
  <2>4. f \in [Vols -> Instance] /\ f[v].imprinted = vol[v].imprinted
    BY <2>2, WriteMasksTyped
  <2> HIDE DEF f, v
  <2>5. vol'[v].imprinted = f[v].imprinted
    BY <2>1, <2>2, <2>4, CheckedTyped DEF f
  <2> QED
    BY <2>3, <2>4, <2>5 DEF Accepted, v
<1>2. IInv /\ [Next]_vars
      => [\A i \in Imprints : ImprintEnd(i) /\ op'[i].pc = "done" =>
                                 Accepted(VolumeOf[i])']_vars
  BY <1>1
<1> QED
  BY Invariance, <1>2, PTL DEF Spec, ImprintEffective

-----------------------------------------------------------------------------
(* The write mask is set throughout an imprint, as long as no other imprint*)
(* of the same volume can clear it.                                        *)
WriteMaskHeld == \A i \in Imprints : Writing(i) => vol[VolumeOf[i]].write

OneImprintPerVolume ==
    \A i, j \in Imprints : VolumeOf[i] = VolumeOf[j] => i = j

LEMMA WriteMaskKept ==
    ASSUME OneImprintPerVolume, IInv, WriteMaskHeld, StepOK
    PROVE  WriteMaskHeld'
<1> USE VolumeAssumption DEF IInv, MasksOK
<1>1. CASE Calm
  BY <1>1 DEF Calm, WriteMaskHeld, WritesMarked, Writing
<1>2. ASSUME NEW i \in Imprints, BeginShape(i)
      PROVE  WriteMaskHeld'
  <2>1. op'[i].pc = "body" /\ \A j \in Imprints : j # i => op'[j] = op[j]
    BY <1>2, BeginOp DEF BeginShape
  <2> QED
    BY <1>2, <2>1 DEF BeginShape, WriteMaskHeld, Writing
<1>3. ASSUME NEW i \in Imprints, EndShape(i)
      PROVE  WriteMaskHeld'
  <2>1. op'[i].pc # "body" /\ \A j \in Imprints : j # i => op'[j] = op[j]
    BY <1>3, EndOp DEF EndShape
  <2> QED
    BY <1>3, <2>1 DEF EndShape, WriteMaskHeld, Writing, OneImprintPerVolume
<1> QED
  BY <1>1, <1>2, <1>3 DEF StepOK, TurnOrCalm

(* While no volume is imprinted twice at once, a volume that is written is *)
(* busy, whatever self checks, mounts and unmounts run meanwhile.          *)
THEOREM BusyThroughout ==
    ASSUME OneImprintPerVolume
    PROVE  Spec => []BusyWhileWriting
<1>1. Init => WriteMaskHeld
  BY DEF Init, Op!Idle, WriteMaskHeld, Writing
<1>2. IInv /\ WriteMaskHeld /\ [Next]_vars => WriteMaskHeld'
  BY EveryStep, WriteMaskKept
<1>3. WriteMaskHeld => BusyWhileWriting
  BY DEF WriteMaskHeld, Writing, BusyWhileWriting, InFlight, Busy
<1> QED
  BY Invariance, <1>1, <1>2, <1>3, PTL DEF Spec

(* So a volume is busy exactly while its imprint writes.                   *)
THEOREM BusyExactly ==
    ASSUME OneImprintPerVolume
    PROVE  Spec => []BusyExact
BY NoMaskLeftBehind, BusyThroughout, PTL DEF BusyExact

-----------------------------------------------------------------------------
(* A set of naturals that is not empty has a least element. *)
LEMMA Least ==
    ASSUME NEW T \in SUBSET Nat, T # {}
    PROVE  \E x \in T : \A y \in T : x <= y
<1> DEFINE R == {ss \in Nat \X Nat : ss[1] < ss[2]}
<1>1. IsWellFoundedOn(R, Nat)
  BY NatLessThanWellFounded DEF OpToRel
<1>2. \A x, y \in Nat : y < x => <<y, x>> \in R
  OBVIOUS
<1> HIDE DEF R
<1>3. PICK x \in T : \A y \in T : ~ (<<y, x>> \in R)
  BY <1>1, WFMin
<1>4. ASSUME NEW y \in T
      PROVE  x <= y
  <2>1. x \in Nat /\ y \in Nat /\ ~(<<y, x>> \in R)
    BY <1>3
  <2>2. ~(y < x)
    BY <1>2, <2>1
  <2> QED
    BY <2>1, <2>2
<1> QED
  BY <1>4

(* Induction, of a set instead of a predicate. *)
LEMMA SetInduction ==
    ASSUME NEW S, 0 \in S, \A n \in Nat : n \in S => n + 1 \in S
    PROVE  Nat \subseteq S
<1> DEFINE T == Nat \ S
<1>1. SUFFICES ASSUME T # {}
               PROVE  FALSE
  OBVIOUS
<1>2. PICK x \in T : \A y \in T : x <= y
  BY <1>1, Least
<1>3. x # 0 /\ x - 1 \in Nat
  OBVIOUS
<1>4. x - 1 \in S
  BY <1>2, <1>3
<1> QED
  BY <1>3, <1>4

(* What the entries of a scan are, step by step. *)
ScanRule(f, next) ==
    f = [n \in Nat |-> IF n = 0 THEN {0}
                       ELSE LET before == f[n - 1]
                            IN before \cup ({next[i] : i \in before} \ {-1})]

(* They are determined by the rule: whatever follows it is the scan.       *)
LEMMA ScanIs ==
    ASSUME NEW next, NEW g, ScanRule(g, next), NEW count \in Nat
    PROVE  Scanned(next, count) = g[count]
<1> DEFINE entries[n \in Nat] ==
               IF n = 0 THEN {0}
               ELSE LET before == entries[n - 1]
                    IN before \cup ({next[i] : i \in before} \ {-1})
<1>1. ScanRule(entries, next)
  BY DEF ScanRule
<1>2. Scanned(next, count) = entries[count]
  BY DEF Scanned
<1> HIDE DEF entries
<1> DEFINE S == {n \in Nat : entries[n] = g[n]}
<1>3. 0 \in S
  BY <1>1 DEF ScanRule
<1>4. ASSUME NEW n \in Nat, n \in S
      PROVE  n + 1 \in S
  <2>1. entries[n] = g[n] /\ n + 1 \in Nat /\ n + 1 # 0 /\ (n + 1) - 1 = n
    BY <1>4
  <2>2. /\ entries[n + 1] = entries[n] \cup ({next[i] : i \in entries[n]} \ {-1})
        /\ g[n + 1] = g[n] \cup ({next[i] : i \in g[n]} \ {-1})
    BY <1>1, <2>1 DEF ScanRule
  <2> QED
    BY <2>1, <2>2
<1> HIDE DEF S
<1>5. count \in S
  BY <1>3, <1>4, SetInduction
<1> QED
  BY <1>2, <1>5 DEF S

(* One entry after the other: after n answers the first n + 1 are visited. *)
LEMMA EveryEntryScanned ==
    ASSUME NEW count \in Nat \ {0}, NEW next,
           \A i \in 0 .. count - 1 : next[i] = IF i + 1 < count THEN i + 1 ELSE -1
    PROVE  Scanned(next, count) = 0 .. count - 1
<1> DEFINE g == [n \in Nat |-> {i \in 0 .. count - 1 : i <= n}]
<1>1. g[0] = {0}
  OBVIOUS
<1>2. ASSUME NEW n \in Nat \ {0}
      PROVE  g[n] = g[n - 1] \cup ({next[i] : i \in g[n - 1]} \ {-1})
  <2>1. n - 1 \in Nat
    OBVIOUS
  <2>2. ASSUME NEW x \in g[n]
        PROVE  x \in g[n - 1] \cup ({next[i] : i \in g[n - 1]} \ {-1})
    <3>1. x \in 0 .. count - 1 /\ x <= n
      BY <2>2
    <3>2. CASE x <= n - 1
      BY <2>1, <3>1, <3>2
    <3>3. CASE ~(x <= n - 1)
      <4>1. x - 1 \in g[n - 1] /\ x - 1 \in 0 .. count - 1 /\ (x - 1) + 1 = x
        BY <2>1, <3>1, <3>3
      <4>2. next[x - 1] = x /\ x # -1
        BY <3>1, <4>1
      <4> HIDE DEF g
      <4> QED
        BY <4>1, <4>2
    <3> QED
      BY <3>2, <3>3
  <2>3. ASSUME NEW i \in g[n - 1]
        PROVE  i \in g[n] /\ (next[i] # -1 => next[i] \in g[n])
    <3>1. i \in 0 .. count - 1 /\ i <= n - 1
      BY <2>1, <2>3
    <3>2. next[i] = IF i + 1 < count THEN i + 1 ELSE -1
      BY <3>1
    <3> QED
      BY <3>1, <3>2
  <2> HIDE DEF g
  <2> QED
    BY <2>2, <2>3
<1>3. g = [n \in Nat |-> g[n]] /\ g[count] = 0 .. count - 1
  OBVIOUS
<1> HIDE DEF g
<1>4. ScanRule(g, next)
  <2>1. \A n \in Nat : g[n] = IF n = 0 THEN {0}
                              ELSE g[n - 1] \cup ({next[i] : i \in g[n - 1]} \ {-1})
    BY <1>1, <1>2
  <2> QED
    BY <1>3, <2>1 DEF ScanRule
<1> QED
  BY <1>3, <1>4, ScanIs

(* The multiples of a stride. *)
LEMMA Multiples ==
    ASSUME NEW S \in Nat \ {0}
    PROVE  /\ \A i \in Nat : i % S = 0 <=> \E k \in Nat : i = k * S
           /\ \A k \in Nat : /\ (k + 1) * S = k * S + S
                             /\ k * S \in Nat
                             /\ k <= k * S
<1>1. ASSUME NEW i \in Nat, i % S = 0
      PROVE  \E k \in Nat : i = k * S
  <2>1. i = S * (i \div S) + (i % S)
    OBVIOUS
  <2>2. i \div S \in Nat
    OBVIOUS
  <2>3. S * (i \div S) = (i \div S) * S
    BY <2>2
  <2> WITNESS i \div S \in Nat
  <2> QED
    BY <1>1, <2>1, <2>2, <2>3
<1>2. \A k \in Nat : (k * S) % S = 0
  OBVIOUS
<1>3. \A k \in Nat : /\ (k + 1) * S = k * S + S
                     /\ k * S \in Nat
                     /\ k <= k * S
  OBVIOUS
<1> QED
  BY <1>1, <1>2, <1>3

(* One stride after the other: after n answers its first n + 1 are visited.*)
LEMMA StrideScanned ==
    ASSUME NEW count \in Nat \ {0}, NEW S \in Nat \ {0}, count > S, NEW next,
           \A i \in 0 .. count - 1 :
              next[i] = IF i + S < count THEN i + S
                        ELSE IF i + 1 < S /\ i + 1 < count THEN i + 1 ELSE -1
    PROVE  Scanned(next, count) = {i \in 0 .. count - 1 : i % S = 0}
<1> DEFINE g == [n \in Nat |-> {i \in 0 .. count - 1 : \E k \in 0 .. n : i = k * S}]
<1>0. \A n \in Nat : \A x :
         x \in g[n] <=> /\ x \in 0 .. count - 1
                       /\ \E k \in 0 .. n : x = k * S
  OBVIOUS
<1>d. g = [n \in Nat |-> g[n]]
  OBVIOUS
<1> HIDE DEF g
<1>z. 0 * S = 0 /\ 0 \in 0 .. count - 1
  OBVIOUS
<1>1. g[0] = {0}
  <2>0. \A x : x \in g[0] <=> /\ x \in 0 .. count - 1
                              /\ \E k \in 0 .. 0 : x = k * S
    BY <1>0
  <2>1. \A x : x \in g[0] <=> x = 0
    <3> TAKE x
    <3>1. (\E k \in 0 .. 0 : x = k * S) <=> x = 0 * S
      OBVIOUS
    <3> QED
      BY <1>z, <2>0, <3>1
  <2> QED
    BY <2>1
<1>2. ASSUME NEW n \in Nat \ {0}
      PROVE  g[n] = g[n - 1] \cup ({next[i] : i \in g[n - 1]} \ {-1})
  <2>1. n - 1 \in Nat /\ n \in Nat /\ n - 1 \in 0 .. n - 1
    OBVIOUS
  <2>2. ASSUME NEW x \in g[n]
        PROVE  x \in g[n - 1] \cup ({next[i] : i \in g[n - 1]} \ {-1})
    <3>1. PICK k \in 0 .. n : x = k * S
      BY <1>0, <2>1
    <3>2. x \in 0 .. count - 1
      BY <1>0, <2>1
    <3>3. CASE k # n
      <4>1. k \in 0 .. n - 1
        BY <3>3
      <4> QED
        BY <1>0, <2>1, <3>1, <3>2, <4>1
    <3>4. CASE k = n
      <4>1. x = (n - 1) * S + S /\ (n - 1) * S \in Nat
        <5>1. ((n - 1) + 1) * S = (n - 1) * S + S /\ (n - 1) * S \in Nat
          BY <2>1, Multiples
        <5>2. (n - 1) + 1 = n
          OBVIOUS
        <5> QED
          BY <3>1, <3>4, <5>1, <5>2
      <4> DEFINE y == (n - 1) * S
      <4>2. x = y + S /\ y \in Nat
        BY <4>1
      <4>3. y \in g[n - 1] <=> y \in 0 .. count - 1
        BY <1>0, <2>1
      <4> HIDE DEF y
      <4>4. y \in 0 .. count - 1 /\ y + S < count
        BY <3>2, <4>2
      <4>5. next[y] = x /\ x # -1
        BY <3>2, <4>2, <4>4
      <4> QED
        BY <4>3, <4>4, <4>5
    <3> QED
      BY <3>3, <3>4
  <2>3. ASSUME NEW i \in g[n - 1]
        PROVE  i \in g[n] /\ (next[i] # -1 => next[i] \in g[n])
    <3>1. PICK k \in 0 .. n - 1 : i = k * S
      BY <1>0, <2>1
    <3>2. i \in 0 .. count - 1
      BY <1>0, <2>1
    <3>3. k \in 0 .. n /\ k + 1 \in 0 .. n /\ k \in Nat
      OBVIOUS
    <3>4. i \in g[n]
      BY <1>0, <2>1, <3>1, <3>2, <3>3
    <3>5. (k + 1) * S = i + S
      BY <3>1, <3>3, Multiples
    <3>6. CASE i + S < count
      <4>1. next[i] = i + S /\ i + S \in 0 .. count - 1
        BY <3>2, <3>6
      <4> QED
        BY <1>0, <2>1, <3>3, <3>4, <3>5, <4>1
    <3>7. CASE ~(i + S < count)
      <4>1. k # 0
        BY <1>z, <3>1, <3>7
      <4>2. i = (k - 1) * S + S /\ (k - 1) * S \in Nat
        <5>1. k - 1 \in Nat /\ (k - 1) + 1 = k
          BY <3>3, <4>1
        <5>2. ((k - 1) + 1) * S = (k - 1) * S + S /\ (k - 1) * S \in Nat
          BY <5>1, Multiples
        <5> QED
          BY <3>1, <5>1, <5>2
      <4>3. ~(i + 1 < S)
        BY <3>2, <4>2
      <4> QED
        BY <3>2, <3>4, <3>7, <4>3
    <3> QED
      BY <3>6, <3>7
  <2> QED
    BY <2>2, <2>3
<1>3. g[count] = {i \in 0 .. count - 1 : i % S = 0}
  <2>1. ASSUME NEW x \in 0 .. count - 1
        PROVE  x % S = 0 <=> \E k \in 0 .. count : x = k * S
    <3>1. x \in Nat /\ x <= count
      OBVIOUS
    <3>2. \A k \in Nat : x = k * S => k \in 0 .. count
      <4>1. \A k \in Nat : k <= k * S
        BY Multiples
      <4> QED
        BY <3>1, <4>1
    <3>3. x % S = 0 <=> \E k \in Nat : x = k * S
      BY <3>1, Multiples
    <3>4. \A k \in 0 .. count : k \in Nat
      OBVIOUS
    <3> DEFINE Is(k) == x = k * S
    <3>5. (\E k \in Nat : Is(k)) <=> (\E k \in 0 .. count : Is(k))
      <4> HIDE DEF Is
      <4>1. \A k \in Nat : Is(k) => k \in 0 .. count
        BY <3>2 DEF Is
      <4> QED
        BY <3>4, <4>1
    <3> QED
      BY <3>3, <3>5
  <2> QED
    BY <1>0, <2>1
<1>4. ScanRule(g, next)
  <2>1. \A n \in Nat : g[n] = IF n = 0 THEN {0}
                              ELSE g[n - 1] \cup ({next[i] : i \in g[n - 1]} \ {-1})
    BY <1>1, <1>2
  <2> QED
    BY <1>d, <2>1 DEF ScanRule
<1> QED
  BY <1>3, <1>4, ScanIs

(* The mask says of an instance what its two bits say. *)
LEMMA BusyMask ==
    ASSUME NEW v
    PROVE  volume_is_busy(activity_mask(v)) <=> Busy(v)
BY DEF volume_is_busy, activity_mask, volume_has_mask, volume_add_mask, Busy

(* A scan of an instance that is not busy, by either strategy. *)
LEMMA QuietScan ==
    ASSUME NEW mask, ~volume_is_busy(mask), NEW count \in Nat \ {0}
    PROVE  /\ Scanned([i \in 0 .. count |-> sequential(i, count, mask)], count)
                 = 0 .. count - 1
           /\ Scanned([i \in 0 .. count |-> staggered(i, count, mask)], count)
                 = {i \in 0 .. count - 1 : count > Step => i % Step = 0}
<1> USE DiscoveryAssumption
<1>1. \A i \in 0 .. count - 1 : i \in 0 .. count /\ i \in Nat
  OBVIOUS
<1>2. Scanned([i \in 0 .. count |-> sequential(i, count, mask)], count) = 0 .. count - 1
  <2> DEFINE next == [i \in 0 .. count |-> sequential(i, count, mask)]
  <2>1. \A i \in 0 .. count - 1 : next[i] = IF i + 1 < count THEN i + 1 ELSE -1
    BY <1>1 DEF sequential
  <2> HIDE DEF next
  <2>2. Scanned(next, count) = 0 .. count - 1
    BY <2>1, EveryEntryScanned
  <2> QED
    BY <2>2 DEF next
<1> DEFINE next == [i \in 0 .. count |-> staggered(i, count, mask)]
<1>3. \A i \in 0 .. count - 1 :
         next[i] = IF i + Step < count THEN i + Step
                   ELSE IF i + 1 < Step /\ i + 1 < count THEN i + 1 ELSE -1
  BY <1>1 DEF staggered
<1> HIDE DEF next
<1>4. CASE count > Step
  <2>1. Scanned(next, count) = {i \in 0 .. count - 1 : i % Step = 0}
    BY <1>3, <1>4, StrideScanned
  <2> QED
    BY <1>2, <1>4, <2>1 DEF next
<1>5. CASE ~(count > Step)
  <2>1. \A i \in 0 .. count - 1 : next[i] = IF i + 1 < count THEN i + 1 ELSE -1
    BY <1>3, <1>5
  <2>2. Scanned(next, count) = 0 .. count - 1
    BY <2>1, EveryEntryScanned
  <2> QED
    BY <1>2, <1>5, <2>2 DEF next
<1> QED
  BY <1>4, <1>5

(* A scan is cut short exactly while an imprint writes, and otherwise it   *)
(* visits what its strategy promises, for any number of entries and stride.*)
THEOREM DiscoveryIsHonest ==
    ASSUME OneImprintPerVolume
    PROVE  Spec => []DiscoveryHonest
<1>1. BusyExact => DiscoveryHonest
  <2> SUFFICES ASSUME BusyExact, NEW v \in Vols, NEW count \in Counts
               PROVE  LET mask == activity_mask(v)
                          entries(c) == 0 .. c - 1
                      IN IF InFlight(v)
                         THEN /\ \A i \in entries(count) :
                                   /\ sequential(i, count, mask) = -1
                                   /\ staggered(i, count, mask) = -1
                              /\ random_sample(count, mask) = {-1}
                         ELSE /\ Scanned([i \in 0 .. count |-> sequential(i, count, mask)],
                                         count) = entries(count)
                              /\ random_sample(count, mask) = entries(count)
                              /\ Scanned([i \in 0 .. count |-> staggered(i, count, mask)],
                                         count)
                                   = {i \in entries(count) : count > Step => i % Step = 0}
    BY DEF DiscoveryHonest
  <2>1. volume_is_busy(activity_mask(v)) <=> InFlight(v)
    BY BusyMask DEF BusyExact, NotBusyWhenIdle, BusyWhileWriting
  <2>2. CASE InFlight(v)
    BY <2>1, <2>2 DEF sequential, staggered, random_sample
  <2>3. CASE ~InFlight(v)
    <3>1. count \in Nat \ {0}
      BY DiscoveryAssumption
    <3>2. random_sample(count, activity_mask(v)) = 0 .. count - 1
      BY <2>1, <2>3 DEF random_sample
    <3> QED
      BY <2>1, <2>3, <3>1, <3>2, QuietScan
  <2> QED
    BY <2>2, <2>3
<1> QED
  BY BusyExactly, <1>1, PTL

-----------------------------------------------------------------------------
(* The audits.  Events that the trail holds, and what an audit leaves.     *)
AuditEvent == [what : {"audit"}, key : Keys, strict : BOOLEAN, active : SUBSET Volumes,
               changes : SUBSET Volumes, alert : BOOLEAN]
Event == AuditEvent \cup [what : {"registration"}, key : Keys]

HostNames == {k.hostname : k \in Keys}

AuditTyped ==
    /\ me \in Keys
    /\ history \in [Volumes -> Seq(HostNames)]
    /\ known_ids \subseteq Volumes /\ active_ids \subseteq Volumes
    /\ trail \in Seq(Event)

AuditInv == AuditTyped /\ ChangesExact /\ AlertsExact

(* The greatest of some positions. *)
LEMMA Greatest ==
    ASSUME NEW n \in Nat, NEW T \in SUBSET (1 .. n)
    PROVE  /\ T # {} => Max(T) \in T /\ \A y \in T : y <= Max(T)
           /\ Max(T \cup {n + 1}) = n + 1
<1>1. ASSUME T # {}
      PROVE  \E x \in T : \A y \in T : x >= y
  <2> DEFINE D == {n - y : y \in T}
  <2>1. D \subseteq Nat
    <3>1. \A y \in T : n - y \in Nat
      OBVIOUS
    <3> QED
      BY <3>1
  <2>2. PICK d \in D : \A e \in D : d <= e
    <3>1. D # {}
      BY <1>1
    <3> HIDE DEF D
    <3> QED
      BY <2>1, <3>1, Least
  <2>3. PICK x \in T : d = n - x
    BY <2>2
  <2>4. ASSUME NEW y \in T
        PROVE  x >= y
    <3>1. n - x <= n - y
      BY <2>2, <2>3
    <3> QED
      BY <3>1
  <2> QED
    BY <2>4
<1>2. T # {} => Max(T) \in T /\ \A y \in T : Max(T) >= y
  BY <1>1 DEF Max
<1>3. n + 1 \in T \cup {n + 1} /\ \A y \in T \cup {n + 1} : n + 1 >= y
  OBVIOUS
<1>4. /\ Max(T \cup {n + 1}) \in T \cup {n + 1}
      /\ \A y \in T \cup {n + 1} : Max(T \cup {n + 1}) >= y
  BY <1>3 DEF Max
<1>5. Max(T \cup {n + 1}) >= n + 1
  BY <1>4
<1>6. Max(T \cup {n + 1}) = n + 1
  <2>1. \A y \in T \cup {n + 1} : y >= n + 1 => y = n + 1
    OBVIOUS
  <2> QED
    BY <1>4, <1>5, <2>1
<1>7. \A x, y \in T : x >= y <=> y <= x
  OBVIOUS
<1> QED
  BY <1>2, <1>6, <1>7

(* What there is of audits in the trail lies within its length.            *)
LEMMA Positions ==
    ASSUME AuditTyped
    PROVE  /\ Len(trail) \in Nat /\ DOMAIN trail = 1 .. Len(trail)
           /\ \A i \in 1 .. Len(trail) : trail[i] \in Event
           /\ Audits \subseteq 1 .. Len(trail)
           /\ \A v : AuditsOf(v) \subseteq 1 .. Len(trail)
           /\ \A v, i : Before(v, i) \subseteq 1 .. Len(trail)
<1>1. Len(trail) \in Nat /\ DOMAIN trail = 1 .. Len(trail)
  BY LenProperties DEF AuditTyped
<1>2. \A i \in 1 .. Len(trail) : trail[i] \in Event
  BY ElementOfSeq DEF AuditTyped
<1>3. Audits \subseteq 1 .. Len(trail)
  BY <1>1 DEF Audits
<1> QED
  BY <1>1, <1>2, <1>3 DEF AuditsOf, Before

(* An event is added to the end of the trail. *)
LEMMA TrailAppended ==
    ASSUME AuditTyped, NEW e \in Event, trail' = Append(trail, e)
    PROVE  /\ trail' \in Seq(Event)
           /\ DOMAIN trail' = 1 .. Len(trail) + 1
           /\ \A i \in 1 .. Len(trail) : trail'[i] = trail[i]
           /\ trail'[Len(trail) + 1] = e
BY AppendProperties DEF AuditTyped

(* Whatever is appended, what the trail tells of the audits before stays.  *)
LEMMA OldAudits ==
    ASSUME AuditTyped, NEW e \in Event, trail' = Append(trail, e),
           NEW n, n = Len(trail), NEW v
    PROVE  /\ \A i \in 1 .. n :
                /\ i \in Audits' <=> (i \in Audits)
                /\ i \in AuditsOf(v)' <=> (i \in AuditsOf(v))
                /\ Before(v, i)' = Before(v, i)
                /\ Differs(v, i)' <=> Differs(v, i)
           /\ n + 1 \in Audits' <=> (e.what = "audit")
           /\ n + 1 \in AuditsOf(v)' <=> (e.what = "audit" /\ v \in e.active)
           /\ Audits' \subseteq 1 .. n + 1
           /\ Before(v, n + 1)' = AuditsOf(v)
<1>1. n \in Nat /\ DOMAIN trail = 1 .. n /\ Audits \subseteq 1 .. n
  BY Positions
<1>2. /\ DOMAIN trail' = 1 .. n + 1 /\ trail'[n + 1] = e
      /\ \A i \in 1 .. n : trail'[i] = trail[i]
  BY TrailAppended
<1>3. \A i \in 1 .. n : i \in 1 .. n + 1
  BY <1>1
<1>4. n + 1 \in 1 .. n + 1 /\ \A i \in 1 .. n + 1 : i # n + 1 => i \in 1 .. n
  BY <1>1
<1>5. \A i \in 1 .. n : i \in Audits' <=> (i \in Audits)
  BY <1>1, <1>2, <1>3 DEF Audits
<1>6. \A i \in 1 .. n : i \in AuditsOf(v)' <=> (i \in AuditsOf(v))
  BY <1>2, <1>5 DEF AuditsOf
<1>7. n + 1 \in Audits' <=> (e.what = "audit")
  BY <1>2, <1>4 DEF Audits
<1>8. n + 1 \in AuditsOf(v)' <=> (e.what = "audit" /\ v \in e.active)
  BY <1>2, <1>7 DEF AuditsOf
<1>9. Audits' \subseteq 1 .. n + 1 /\ AuditsOf(v)' \subseteq 1 .. n + 1
  BY <1>2 DEF Audits, AuditsOf
<1>10. AuditsOf(v) \subseteq 1 .. n
  BY <1>1 DEF AuditsOf
<1>11. \A i \in 1 .. n : Before(v, i)' = Before(v, i)
  <2> SUFFICES ASSUME NEW i \in 1 .. n, NEW j
               PROVE  j \in AuditsOf(v)' /\ j < i <=> (j \in AuditsOf(v) /\ j < i)
    BY DEF Before
  <2>1. \A k \in 1 .. n + 1 : k < i => k \in 1 .. n
    BY <1>1
  <2> QED
    BY <1>6, <1>9, <1>10, <2>1
<1>12. Before(v, n + 1)' = AuditsOf(v)
  <2> SUFFICES ASSUME NEW j
               PROVE  j \in AuditsOf(v)' /\ j < n + 1 <=> (j \in AuditsOf(v))
    BY DEF Before
  <2>1. \A k \in 1 .. n + 1 : k < n + 1 <=> (k \in 1 .. n)
    BY <1>1
  <2> QED
    BY <1>6, <1>9, <1>10, <2>1
<1>13. ASSUME NEW i \in 1 .. n
       PROVE  Differs(v, i)' <=> Differs(v, i)
  <2>1. Before(v, i) # {} => Max(Before(v, i)) \in 1 .. n
    BY <1>1, Greatest, Positions
  <2>2. Before(v, i) # {} => (Previous(v, i)' = Previous(v, i))
    BY <1>2, <1>11, <2>1 DEF Previous
  <2> QED
    BY <1>2, <1>6, <1>11, <2>2 DEF Differs
<1> QED
  BY <1>5, <1>6, <1>7, <1>8, <1>9, <1>11, <1>12, <1>13

(* A step that leaves the audits and what came of them alone.              *)
LEMMA AuditsUntouched ==
    ASSUME AuditInv, me' \in Keys,
           known_ids' \subseteq Volumes, active_ids' \subseteq Volumes,
           UNCHANGED <<known_hosts, history, trail>>
    PROVE  AuditInv'
<1>1. AuditTyped'
  BY DEF AuditInv, AuditTyped
<1>2. ChangesExact'
  <2>1. Audits' = Audits
    BY DEF Audits
  <2>2. \A v : AuditsOf(v)' = AuditsOf(v)
    BY <2>1 DEF AuditsOf
  <2>3. \A v, i : Before(v, i)' = Before(v, i)
    BY <2>2 DEF Before
  <2>4. \A v, i : Differs(v, i)' <=> Differs(v, i)
    BY <2>2, <2>3 DEF Differs, Previous
  <2>5. ReportsExact'
    BY <2>1, <2>4 DEF AuditInv, ChangesExact, ReportsExact
  <2>6. HistoryExact'
    <3> SUFFICES ASSUME NEW v \in Volumes
                 PROVE  /\ AuditsOf(v)' = {} <=> (history'[v] = <<>>)
                        /\ AuditsOf(v)' # {} =>
                             /\ LastHost(v)' = trail'[Max(AuditsOf(v)')].key.hostname
                             /\ Len(history'[v])
                                  = 1 + Cardinality({i \in AuditsOf(v)' : Differs(v, i)'})
      BY DEF HistoryExact
    <3>1. {i \in AuditsOf(v)' : Differs(v, i)'} = {i \in AuditsOf(v) : Differs(v, i)}
      BY <2>2, <2>4
    <3>2. LastHost(v)' = LastHost(v)
      BY DEF LastHost
    <3> QED
      BY <2>2, <3>1, <3>2 DEF AuditInv, ChangesExact, HistoryExact
  <2> QED
    BY <2>5, <2>6 DEF ChangesExact
<1>3. AlertsExact'
  BY DEF AuditInv, AlertsExact, AlertsOnce, AllTrusted, VolumesOfHosts, Audits, AuditsAt
<1> QED
  BY <1>1, <1>2, <1>3 DEF AuditInv

(* An empty registry. *)
EmptyRegistry ==
    /\ me \in Keys
    /\ known_ids \subseteq Volumes /\ active_ids \subseteq Volumes
    /\ known_hosts = [k \in {} |-> {}]
    /\ history = [v \in Volumes |-> <<>>]
    /\ trail = <<>>

LEMMA NoAudits == EmptyRegistry => AuditInv
<1> SUFFICES ASSUME EmptyRegistry
             PROVE  AuditInv
  OBVIOUS
<1> USE DEF EmptyRegistry
<1>1. Audits = {} /\ DOMAIN trail = {}
  BY DEF Audits
<1>3. history \in [Volumes -> Seq(HostNames)] /\ trail \in Seq(Event)
  BY EmptySeq
<1>4. AuditTyped
  BY <1>3 DEF AuditTyped
<1>5. ChangesExact
  BY <1>1 DEF ChangesExact, ReportsExact, HistoryExact, AuditsOf
<1>6. AlertsExact
  BY <1>1 DEF AlertsExact, AlertsOnce, AllTrusted, VolumesOfHosts
<1> QED
  BY <1>4, <1>5, <1>6 DEF AuditInv

(* The hosts after an event of k, whose volumes are extended by more.      *)
LEMMA HostsKept ==
    ASSUME AuditInv, NEW e \in Event, trail' = Append(trail, e),
           NEW more, more = IF e.what = "audit" THEN e.active ELSE {},
           known_hosts' = [WithHost(e.key) EXCEPT ![e.key] = @ \cup more]
    PROVE  AllTrusted' /\ VolumesOfHosts'
<1>1. PICK m \in Nat : m = Len(trail)
  BY Positions DEF AuditInv
<1>2. /\ DOMAIN trail = 1 .. m /\ DOMAIN trail' = 1 .. m + 1
      /\ trail'[m + 1] = e /\ \A i \in 1 .. m : trail'[i] = trail[i]
      /\ Audits \subseteq 1 .. m
  BY <1>1, Positions, TrailAppended DEF AuditInv
<1>3. /\ \A i \in 1 .. m : i \in Audits' <=> (i \in Audits)
      /\ m + 1 \in Audits' <=> (e.what = "audit")
      /\ Audits' \subseteq 1 .. m + 1
  BY <1>1, OldAudits DEF AuditInv
<1>4. m + 1 \in 1 .. m + 1 /\ \A i : i \in 1 .. m + 1 <=> i = m + 1 \/ i \in 1 .. m
  OBVIOUS
<1>5. DOMAIN known_hosts = {trail[i].key : i \in 1 .. m}
  BY <1>2 DEF AuditInv, AlertsExact, AllTrusted
<1>6. DOMAIN known_hosts' = DOMAIN known_hosts \cup {e.key}
  BY DEF WithHost
<1>7. AllTrusted'
  <2>1. \A k : (\E i \in 1 .. m + 1 : k = trail'[i].key)
                 <=> (k = e.key \/ \E i \in 1 .. m : k = trail[i].key)
    BY <1>2, <1>4
  <2>2. \A k : k \in DOMAIN known_hosts <=> \E i \in 1 .. m : k = trail[i].key
    BY <1>5
  <2>3. \A k : k \in DOMAIN known_hosts' <=> \E i \in 1 .. m + 1 : k = trail'[i].key
    <3> TAKE k
    <3>1. k \in DOMAIN known_hosts' <=> (k = e.key \/ k \in DOMAIN known_hosts)
      BY <1>6
    <3>2. k \in DOMAIN known_hosts <=> \E i \in 1 .. m : k = trail[i].key
      BY <2>2
    <3>3. (\E i \in 1 .. m + 1 : k = trail'[i].key)
            <=> (k = e.key \/ \E i \in 1 .. m : k = trail[i].key)
      BY <2>1
    <3> QED
      BY <3>1, <3>2, <3>3, Zenon
  <2>4. DOMAIN known_hosts' = {trail'[i].key : i \in 1 .. m + 1}
    BY <2>3
  <2> QED
    BY <1>2, <2>4 DEF AllTrusted
<1>8. ASSUME NEW k \in DOMAIN known_hosts'
      PROVE  known_hosts'[k] = UNION {trail'[i].active : i \in AuditsAt(k)'}
  <2> DEFINE old == IF k \in DOMAIN known_hosts THEN known_hosts[k] ELSE {}
  <2>1. old = UNION {trail[i].active : i \in AuditsAt(k)}
    <3>1. CASE k \in DOMAIN known_hosts
      BY <3>1 DEF AuditInv, AlertsExact, VolumesOfHosts
    <3>2. CASE k \notin DOMAIN known_hosts
      <4>1. AuditsAt(k) = {}
        BY <1>2, <1>5, <3>2 DEF AuditsAt
      <4> QED
        BY <3>2, <4>1
    <3> QED
      BY <3>1, <3>2
  <2>2. known_hosts'[k] = IF k = e.key THEN old \cup more ELSE old
    BY <1>8, <1>6 DEF WithHost, IsKnown
  <2> HIDE DEF old
  <2>3. \A i \in 1 .. m : i \in AuditsAt(k)' <=> (i \in AuditsAt(k))
    BY <1>2, <1>3 DEF AuditsAt
  <2>4. m + 1 \in AuditsAt(k)' <=> (e.what = "audit" /\ e.key = k)
    BY <1>2, <1>3 DEF AuditsAt
  <2>5. AuditsAt(k) \subseteq 1 .. m /\ AuditsAt(k)' \subseteq 1 .. m + 1
    BY <1>2, <1>3 DEF AuditsAt
  <2>6. ASSUME NEW v
        PROVE  v \in known_hosts'[k] <=> (\E i \in AuditsAt(k)' : v \in trail'[i].active)
    <3>1. v \in old <=> \E i \in AuditsAt(k) : v \in trail[i].active
      BY <2>1
    <3>2. (\E i \in AuditsAt(k)' : v \in trail'[i].active)
            <=> \/ \E i \in AuditsAt(k) : v \in trail[i].active
                \/ m + 1 \in AuditsAt(k)' /\ v \in e.active
      BY <1>2, <1>4, <2>3, <2>5
    <3>3. v \in known_hosts'[k] <=> (v \in old \/ (k = e.key /\ v \in more))
      BY <2>2
    <3>4. v \in more <=> (e.what = "audit" /\ v \in e.active)
      OBVIOUS
    <3> QED
      BY <2>4, <3>1, <3>2, <3>3, <3>4
  <2> QED
    BY <2>6
<1> QED
  BY <1>7, <1>8 DEF VolumesOfHosts

(* A host is registered. *)
LEMMA RegisterKeeps ==
    ASSUME AuditInv, NEW k \in Keys, RegisterTrusted(k)
    PROVE  AuditInv'
<1> DEFINE e == Registration(k)
<1>1. e \in Event /\ e.what # "audit" /\ e.key = k /\ trail' = Append(trail, e)
  BY DEF Registration, Event, RegisterTrusted
<1> HIDE DEF e
<1>2. PICK n \in Nat : n = Len(trail)
  BY Positions DEF AuditInv
<1>3. /\ DOMAIN trail' = 1 .. n + 1 /\ \A i \in 1 .. n : trail'[i] = trail[i]
      /\ trail' \in Seq(Event)
  BY <1>1, <1>2, TrailAppended DEF AuditInv
<1>4. /\ Audits \subseteq 1 .. n
      /\ \A v : AuditsOf(v) \subseteq 1 .. n
  BY <1>2, Positions DEF AuditInv
<1>5. Audits' = Audits
  <2>1. /\ \A i \in 1 .. n : i \in Audits' <=> (i \in Audits)
        /\ n + 1 \notin Audits' /\ Audits' \subseteq 1 .. n + 1
    BY <1>1, <1>2, OldAudits DEF AuditInv
  <2>2. \A i \in 1 .. n + 1 : i = n + 1 \/ i \in 1 .. n
    OBVIOUS
  <2> QED
    BY <1>4, <2>1, <2>2
<1>6. \A v : AuditsOf(v)' = AuditsOf(v)
  BY <1>3, <1>4, <1>5 DEF AuditsOf
<1>7. \A v : \A i \in 1 .. n : Differs(v, i)' <=> Differs(v, i)
  BY <1>1, <1>2, OldAudits DEF AuditInv
<1>9. AuditTyped'
  BY <1>3 DEF AuditInv, AuditTyped, RegisterTrusted
<1>10. ReportsExact'
  BY <1>3, <1>4, <1>5, <1>7 DEF AuditInv, ChangesExact, ReportsExact
<1>11. HistoryExact'
  <2> SUFFICES ASSUME NEW v \in Volumes
               PROVE  /\ AuditsOf(v)' = {} <=> (history'[v] = <<>>)
                      /\ AuditsOf(v)' # {} =>
                           /\ LastHost(v)' = trail'[Max(AuditsOf(v)')].key.hostname
                           /\ Len(history'[v])
                                = 1 + Cardinality({i \in AuditsOf(v)' : Differs(v, i)'})
    BY DEF HistoryExact
  <2>1. {i \in AuditsOf(v)' : Differs(v, i)'} = {i \in AuditsOf(v) : Differs(v, i)}
    BY <1>4, <1>6, <1>7
  <2>2. history' = history /\ LastHost(v)' = LastHost(v)
    BY DEF LastHost, RegisterTrusted
  <2>3. AuditsOf(v) # {} => Max(AuditsOf(v)) \in 1 .. n
    BY <1>4, Greatest
  <2>4. AuditsOf(v) # {} =>
          trail'[Max(AuditsOf(v))].key.hostname = trail[Max(AuditsOf(v))].key.hostname
    BY <1>3, <2>3
  <2> QED
    BY <1>6, <2>1, <2>2, <2>4 DEF AuditInv, ChangesExact, HistoryExact
<1>12. ChangesExact'
  BY <1>10, <1>11 DEF ChangesExact
<1>13. AlertsOnce'
  <2> SUFFICES ASSUME NEW i \in Audits
               PROVE  trail'[i].alert <=> /\ \A j \in 1 .. i - 1 : trail'[j].key # trail'[i].key
                                          /\ i > 1 \/ trail'[i].strict
    BY <1>5 DEF AlertsOnce
  <2>1. i \in 1 .. n /\ \A j \in 1 .. i - 1 : j \in 1 .. n
    BY <1>4
  <2>2. trail'[i] = trail[i] /\ \A j \in 1 .. i - 1 : trail'[j] = trail[j]
    BY <1>3, <2>1
  <2>3. trail[i].alert <=> /\ \A j \in 1 .. i - 1 : trail[j].key # trail[i].key
                           /\ i > 1 \/ trail[i].strict
    BY DEF AuditInv, AlertsExact, AlertsOnce
  <2> QED
    BY <2>2, <2>3
<1>14. AllTrusted' /\ VolumesOfHosts'
  <2>1. known_hosts' = [WithHost(k) EXCEPT ![k] = @ \cup {}]
    BY DEF RegisterTrusted, WithHost
  <2> QED
    BY <1>1, <2>1, HostsKept
<1> QED
  BY <1>9, <1>12, <1>13, <1>14 DEF AuditInv, AlertsExact

(* An audit: its event, and what it says of each volume.                   *)
LEMMA AuditSays ==
    ASSUME AuditInv, NEW strict \in BOOLEAN, os_metadata_check_environment(strict),
           NEW e, e = Audit(strict, ChangedVolumes, UnknownHost(strict)),
           NEW n, n = Len(trail)
    PROVE  /\ e \in Event /\ trail' = Append(trail, e)
           /\ e.what = "audit" /\ e.key = me /\ e.active = active_ids
           /\ (n = 0 => e.strict = strict) /\ e.changes = ChangedVolumes
           /\ e.alert <=> UnknownHost(strict)
           /\ \A v \in Volumes :
                /\ v \in active_ids => AuditsOf(v)' = AuditsOf(v) \cup {n + 1}
                /\ v \notin active_ids => AuditsOf(v)' = AuditsOf(v)
                /\ Differs(v, n + 1)' <=> (v \in ChangedVolumes)
<1>2. /\ e.what = "audit" /\ e.key = me /\ e.active = active_ids
      /\ (n = 0 => e.strict = strict)
      /\ e.changes = ChangedVolumes /\ e.alert = UnknownHost(strict)
  <2>1. n = 0 => trail = <<>>
    BY EmptySeq, Positions DEF AuditInv, AuditTyped
  <2> QED
    BY <2>1 DEF Audit
<1>3. e \in AuditEvent
  <2>1. /\ ChangedVolumes \subseteq Volumes /\ active_ids \subseteq Volumes
         /\ known_ids \subseteq Volumes /\ me \in Keys
    BY DEF ChangedVolumes, AuditInv, AuditTyped
  <2>2. UnknownHost(strict) \in BOOLEAN
    BY DEF UnknownHost
  <2> HIDE DEF UnknownHost, ChangedVolumes
  <2> QED
    BY <2>1, <2>2 DEF Audit, AuditEvent
<1>4. e \in Event /\ trail' = Append(trail, e)
  BY <1>3 DEF Event, os_metadata_check_environment
<1>5. ASSUME NEW v \in Volumes
      PROVE  /\ v \in active_ids => AuditsOf(v)' = AuditsOf(v) \cup {n + 1}
             /\ v \notin active_ids => AuditsOf(v)' = AuditsOf(v)
             /\ Differs(v, n + 1)' <=> (v \in ChangedVolumes)
  <2>1. /\ \A i \in 1 .. n : i \in AuditsOf(v)' <=> (i \in AuditsOf(v))
        /\ n + 1 \in AuditsOf(v)' <=> (v \in active_ids)
        /\ AuditsOf(v)' \subseteq 1 .. n + 1
        /\ Before(v, n + 1)' = AuditsOf(v)
    BY <1>2, <1>4, OldAudits DEF AuditInv, AuditsOf
  <2>2. n \in Nat /\ AuditsOf(v) \subseteq 1 .. n
    BY Positions DEF AuditInv
  <2>3. \A i \in 1 .. n + 1 : i = n + 1 \/ i \in 1 .. n
    BY <2>2
  <2>4. /\ v \in active_ids => AuditsOf(v)' = AuditsOf(v) \cup {n + 1}
        /\ v \notin active_ids => AuditsOf(v)' = AuditsOf(v)
    <3>1. CASE v \in active_ids
      BY <2>1, <2>2, <2>3, <3>1
    <3>2. CASE v \notin active_ids
      BY <2>1, <2>2, <2>3, <3>2
    <3> QED
      BY <3>1, <3>2
  <2>5. trail'[n + 1] = e /\ \A i \in 1 .. n : trail'[i] = trail[i]
    BY <1>4, TrailAppended DEF AuditInv
  <2>6. AuditsOf(v) # {} => /\ Max(AuditsOf(v)) \in 1 .. n
                            /\ LastHost(v) = trail[Max(AuditsOf(v))].key.hostname
    BY <2>2, Greatest DEF AuditInv, ChangesExact, HistoryExact
  <2>7. AuditsOf(v) # {} => (Previous(v, n + 1)' = LastHost(v))
    BY <2>1, <2>5, <2>6 DEF Previous
  <2>8. AuditsOf(v) = {} <=> (history[v] = <<>>)
    BY DEF AuditInv, ChangesExact, HistoryExact
  <2>9. Differs(v, n + 1)'
          <=> /\ v \in active_ids
              /\ AuditsOf(v) # {}
              /\ Previous(v, n + 1)' # me.hostname
    BY <1>2, <2>1, <2>5 DEF Differs
  <2> QED
    BY <2>4, <2>7, <2>8, <2>9 DEF ChangedVolumes
<1> QED
  BY <1>2, <1>4, <1>5

(* What the history of a volume is after an audit. *)
LEMMA VolumeHistory ==
    ASSUME AuditInv, NEW strict \in BOOLEAN, os_metadata_check_environment(strict),
           NEW v \in Volumes
    PROVE  /\ history'[v] \in Seq(HostNames)
           /\ AuditsOf(v)' = {} <=> (history'[v] = <<>>)
           /\ AuditsOf(v)' # {} =>
                /\ LastHost(v)' = trail'[Max(AuditsOf(v)')].key.hostname
                /\ Len(history'[v]) = 1 + Cardinality({i \in AuditsOf(v)' : Differs(v, i)'})
<1> DEFINE D == {i \in AuditsOf(v) : Differs(v, i)}
           E == {i \in AuditsOf(v)' : Differs(v, i)'}
           h == history[v]
<1>1. PICK e : e = Audit(strict, ChangedVolumes, UnknownHost(strict))
  OBVIOUS
<1>2. PICK n \in Nat : n = Len(trail)
  BY Positions DEF AuditInv
<1>3. /\ e \in Event /\ trail' = Append(trail, e) /\ e.key = me
      /\ v \in active_ids => AuditsOf(v)' = AuditsOf(v) \cup {n + 1}
      /\ v \notin active_ids => AuditsOf(v)' = AuditsOf(v)
      /\ Differs(v, n + 1)' <=> (v \in ChangedVolumes)
  BY <1>1, <1>2, AuditSays
<1>4. AuditsOf(v) \subseteq 1 .. n
  BY <1>2, Positions DEF AuditInv
<1>5. \A i \in 1 .. n : trail'[i] = trail[i] /\ (Differs(v, i)' <=> Differs(v, i))
  BY <1>2, <1>3, TrailAppended, OldAudits DEF AuditInv
<1>6. trail'[n + 1] = e
  BY <1>2, <1>3, TrailAppended DEF AuditInv
<1>7. /\ h \in Seq(HostNames) /\ me.hostname \in HostNames
      /\ AuditsOf(v) = {} <=> (h = <<>>)
      /\ AuditsOf(v) # {} => /\ LastHost(v) = trail[Max(AuditsOf(v))].key.hostname
                             /\ Len(h) = 1 + Cardinality(D)
  BY DEF AuditInv, AuditTyped, ChangesExact, HistoryExact, HostNames
<1>8. IsFiniteSet(D) /\ n + 1 \notin D /\ Cardinality(D) \in Nat
  <2>1. IsFiniteSet(1 .. n) /\ D \subseteq 1 .. n
    BY <1>4, FS_Interval
  <2> QED
    BY <2>1, FS_Subset, FS_CardinalityType
<1>9. history'[v] = IF v \in active_ids /\ Noted(v) THEN Append(h, me.hostname) ELSE h
  BY DEF os_metadata_check_environment
<1>10. LastHost(v) = h[Len(h)] /\ LastHost(v)' = history'[v][Len(history'[v])]
  BY DEF LastHost
<1>11. v \in ChangedVolumes => v \in active_ids /\ h # <<>> /\ LastHost(v) # me.hostname
  BY DEF ChangedVolumes
<1>12. v \in active_ids /\ ~Noted(v) => h # <<>> /\ LastHost(v) = me.hostname
  BY DEF ChangedVolumes, Noted
<1>13. Noted(v) <=> (h = <<>> \/ v \in ChangedVolumes)
  BY DEF Noted
<1>14. E = IF v \in ChangedVolumes THEN D \cup {n + 1} ELSE D
  <2>1. CASE v \in ChangedVolumes
    BY <1>3, <1>4, <1>5, <1>11, <2>1
  <2>2. CASE v \notin ChangedVolumes /\ v \in active_ids
    BY <1>3, <1>4, <1>5, <2>2
  <2>3. CASE v \notin active_ids
    BY <1>3, <1>4, <1>5, <1>11, <2>3
  <2> QED
    BY <2>1, <2>2, <2>3
<1>15. SUFFICES /\ history'[v] \in Seq(HostNames)
                /\ AuditsOf(v)' = {} <=> (history'[v] = <<>>)
                /\ AuditsOf(v)' # {} =>
                     /\ LastHost(v)' = trail'[Max(AuditsOf(v)')].key.hostname
                     /\ Len(history'[v]) = 1 + Cardinality(E)
  OBVIOUS
<1>16. h = <<>> => D = {} /\ E = {} /\ Cardinality(E) = 0
  BY <1>7, <1>11, <1>14, FS_EmptySet
<1>17. /\ Len(h) \in Nat
       /\ Append(h, me.hostname) \in Seq(HostNames) /\ Append(h, me.hostname) # <<>>
       /\ Len(Append(h, me.hostname)) = Len(h) + 1
       /\ Append(h, me.hostname)[Len(h) + 1] = me.hostname
       /\ h = <<>> => Len(h) = 0
  BY <1>7, AppendProperties, LenProperties, EmptySeq
<1> HIDE DEF D, E, h
<1>18. CASE v \notin active_ids
  <2>1. AuditsOf(v)' = AuditsOf(v) /\ history'[v] = h /\ E = D
    BY <1>3, <1>9, <1>11, <1>14, <1>18
  <2>2. AuditsOf(v) # {} => Max(AuditsOf(v)) \in 1 .. n
    BY <1>4, Greatest
  <2>3. LastHost(v)' = LastHost(v)
    BY <1>10, <2>1
  <2> QED
    BY <1>5, <1>7, <2>1, <2>2, <2>3
<1>19. CASE v \in active_ids
  <2>1. AuditsOf(v)' = AuditsOf(v) \cup {n + 1}
    BY <1>3, <1>19
  <2>2. Max(AuditsOf(v)') = n + 1
    BY <1>4, <2>1, Greatest
  <2>3. trail'[Max(AuditsOf(v)')].key.hostname = me.hostname
    BY <1>3, <1>6, <2>2
  <2>4. CASE Noted(v)
    <3>1. history'[v] = Append(h, me.hostname)
      BY <1>9, <1>19, <2>4
    <3>2. LastHost(v)' = me.hostname
      BY <1>10, <1>17, <3>1
    <3>3. Len(history'[v]) = 1 + Cardinality(E)
      <4>1. CASE h = <<>>
        BY <1>16, <1>17, <3>1, <4>1
      <4>2. CASE h # <<>>
        <5>1. E = D \cup {n + 1}
          BY <1>13, <1>14, <2>4, <4>2
        <5>2. Cardinality(E) = Cardinality(D) + 1
          BY <1>8, <5>1, FS_AddElement
        <5>3. Len(h) = 1 + Cardinality(D)
          BY <1>7, <4>2
        <5> QED
          BY <1>8, <1>17, <3>1, <5>2, <5>3
      <4> QED
        BY <4>1, <4>2
    <3> QED
      BY <1>17, <2>1, <2>3, <3>1, <3>2, <3>3
  <2>5. CASE ~Noted(v)
    <3>1. history'[v] = h /\ h # <<>> /\ LastHost(v) = me.hostname /\ E = D
      BY <1>9, <1>12, <1>13, <1>14, <1>19, <2>5
    <3>2. LastHost(v)' = LastHost(v)
      BY <1>10, <3>1
    <3> QED
      BY <1>7, <2>1, <2>3, <3>1, <3>2
  <2> QED
    BY <2>4, <2>5
<1> QED
  BY <1>18, <1>19

LEMMA AuditKeeps ==
    ASSUME AuditInv, NEW strict \in BOOLEAN, os_metadata_check_environment(strict)
    PROVE  AuditInv'
<1>1. PICK e : e = Audit(strict, ChangedVolumes, UnknownHost(strict))
  OBVIOUS
<1>2. PICK n \in Nat : n = Len(trail)
  BY Positions DEF AuditInv
<1>3. /\ e \in Event /\ trail' = Append(trail, e)
      /\ e.what = "audit" /\ e.key = me /\ e.active = active_ids
      /\ (n = 0 => e.strict = strict) /\ e.changes = ChangedVolumes
      /\ e.alert <=> UnknownHost(strict)
      /\ \A v \in Volumes : Differs(v, n + 1)' <=> (v \in ChangedVolumes)
  BY <1>1, <1>2, AuditSays
<1>4. /\ trail' \in Seq(Event) /\ DOMAIN trail' = 1 .. n + 1
      /\ trail'[n + 1] = e
      /\ \A i \in 1 .. n : trail'[i] = trail[i]
  BY <1>2, <1>3, TrailAppended DEF AuditInv
<1>5. Audits \subseteq 1 .. n /\ DOMAIN trail = 1 .. n
  BY <1>2, Positions DEF AuditInv
<1>6. Audits' = Audits \cup {n + 1} /\ n + 1 \notin Audits
  <2>1. /\ \A i \in 1 .. n : i \in Audits' <=> (i \in Audits)
        /\ n + 1 \in Audits' /\ Audits' \subseteq 1 .. n + 1
    BY <1>2, <1>3, OldAudits DEF AuditInv
  <2>2. n + 1 \notin 1 .. n /\ \A i \in 1 .. n + 1 : i = n + 1 \/ i \in 1 .. n
    OBVIOUS
  <2> QED
    BY <1>5, <2>1, <2>2
<1>8. HistoryExact'
  BY VolumeHistory DEF HistoryExact
<1>9. ReportsExact'
  <2> SUFFICES ASSUME NEW i \in Audits'
               PROVE  trail'[i].changes = {v \in Volumes : Differs(v, i)'}
    BY DEF ReportsExact
  <2>1. CASE i = n + 1
    <3>1. ChangedVolumes \subseteq Volumes
      BY DEF ChangedVolumes, AuditInv, AuditTyped
    <3> QED
      BY <1>3, <1>4, <2>1, <3>1
  <2>2. CASE i # n + 1
    <3>1. i \in Audits /\ i \in 1 .. n
      BY <1>5, <1>6, <2>2
    <3>2. \A v : Differs(v, i)' <=> Differs(v, i)
      BY <1>2, <1>3, <3>1, OldAudits DEF AuditInv
    <3>3. trail[i].changes = {v \in Volumes : Differs(v, i)}
      BY <3>1 DEF AuditInv, ChangesExact, ReportsExact
    <3> QED
      BY <1>4, <3>1, <3>2, <3>3
  <2> QED
    BY <2>1, <2>2
<1>10. AuditTyped'
  <2>1. history' \in [Volumes -> Seq(HostNames)]
    <3>1. \A v \in Volumes : history'[v] \in Seq(HostNames)
      BY VolumeHistory
    <3>2. history' = [v \in Volumes |-> history'[v]]
      BY DEF os_metadata_check_environment
    <3> QED
      BY <3>1, <3>2
  <2> QED
    BY <1>4, <2>1 DEF AuditInv, AuditTyped, os_metadata_check_environment
<1>11. AlertsOnce'
  <2> SUFFICES ASSUME NEW i \in Audits'
               PROVE  trail'[i].alert <=> /\ \A j \in 1 .. i - 1 : trail'[j].key # trail'[i].key
                                          /\ i > 1 \/ trail'[i].strict
    BY DEF AlertsOnce
  <2>1. CASE i = n + 1
    <3>1. 1 .. i - 1 = 1 .. n /\ (i > 1 <=> 1 .. n # {})
      <4>1. i - 1 = n /\ (i > 1 <=> n # 0)
        BY <2>1
      <4>2. 1 .. n # {} <=> n # 0
        <5>1. n # 0 => 1 \in 1 .. n
          OBVIOUS
        <5>2. n = 0 => 1 .. n = {}
          OBVIOUS
        <5> QED
          BY <5>1, <5>2
      <4> QED
        BY <4>1, <4>2
    <3>2. DOMAIN known_hosts = {trail[j].key : j \in 1 .. n}
      BY <1>5 DEF AuditInv, AlertsExact, AllTrusted
    <3>3. ~IsKnown(me) <=> \A j \in 1 .. n : trail'[j].key # me
      BY <1>4, <3>2 DEF IsKnown
    <3>4. DOMAIN known_hosts # {} <=> 1 .. n # {}
      BY <3>2
    <3>5. i > 1 \/ trail'[i].strict <=> i > 1 \/ strict
      BY <1>2, <1>3, <1>4, <2>1
    <3> QED
      BY <1>3, <1>4, <2>1, <3>1, <3>3, <3>4, <3>5 DEF UnknownHost
  <2>2. CASE i # n + 1
    <3>1. i \in Audits /\ i \in 1 .. n /\ \A j \in 1 .. i - 1 : j \in 1 .. n
      BY <1>5, <1>6, <2>2
    <3>2. trail'[i] = trail[i] /\ \A j \in 1 .. i - 1 : trail'[j] = trail[j]
      BY <1>4, <3>1
    <3>3. trail[i].alert <=> /\ \A j \in 1 .. i - 1 : trail[j].key # trail[i].key
                             /\ i > 1 \/ trail[i].strict
      BY <3>1 DEF AuditInv, AlertsExact, AlertsOnce
    <3> QED
      BY <3>2, <3>3
  <2> QED
    BY <2>1, <2>2
<1>12. AllTrusted' /\ VolumesOfHosts'
  <2>1. known_hosts' = [WithHost(e.key) EXCEPT ![e.key] = @ \cup active_ids]
    BY <1>3 DEF os_metadata_check_environment
  <2> QED
    BY <1>3, <2>1, HostsKept
<1> QED
  BY <1>8, <1>9, <1>10, <1>11, <1>12 DEF AuditInv, ChangesExact, AlertsExact

LEMMA AuditsInvariant == AuditSpec => []AuditInv
<1>1. AuditInit => AuditInv
  BY NoAudits DEF AuditInit, EmptyRegistry
<1>2. AuditInv /\ [AuditNext]_audit_vars => AuditInv'
  <2> SUFFICES ASSUME AuditInv, [AuditNext]_audit_vars
               PROVE  AuditInv'
    OBVIOUS
  <2>0. /\ me \in Keys /\ known_ids \subseteq Volumes
        /\ active_ids \subseteq Volumes
    BY DEF AuditInv, AuditTyped
  <2>1. ASSUME NEW k \in Keys, RegisterTrusted(k)
        PROVE  AuditInv'
    BY <2>1, RegisterKeeps
  <2>2. ASSUME NEW k \in Keys, BecomeKey(k)
        PROVE  AuditInv'
    BY <2>0, <2>2, AuditsUntouched DEF BecomeKey
  <2>3. ASSUME NEW k \in Keys, Restart(k)
        PROVE  AuditInv'
    <3>1. EmptyRegistry'
      BY <2>3 DEF Restart, EmptyRegistry
    <3> QED
      BY <3>1, NoAudits, PTL
  <2>4. ASSUME NEW v \in Volumes, volume_add_known_id(v) \/ volume_add_active(v)
        PROVE  AuditInv'
    BY <2>0, <2>4, AuditsUntouched DEF volume_add_known_id, volume_add_active
  <2>5. ASSUME NEW v \in Volumes, volume_remove_active(v)
        PROVE  AuditInv'
    BY <2>0, <2>5, AuditsUntouched DEF volume_remove_active
  <2>6. CASE os_metadata_check_environment(TRUE) \/ host_fingerprint
    BY <2>6, AuditKeeps DEF host_fingerprint
  <2>7. CASE os_metadata_reset
    <3>1. EmptyRegistry'
      BY <2>0, <2>7 DEF os_metadata_reset, EmptyRegistry
    <3> QED
      BY <3>1, NoAudits, PTL
  <2>9. CASE volume_clear_registries
    BY <2>0, <2>9, AuditsUntouched DEF volume_clear_registries
  <2>8. CASE UNCHANGED audit_vars
    BY <2>0, <2>8, AuditsUntouched DEF audit_vars
  <2> QED
    BY <2>1, <2>2, <2>3, <2>4, <2>5, <2>6, <2>7, <2>8, <2>9 DEF AuditNext
<1> QED
  BY <1>1, <1>2, PTL DEF AuditSpec

(* A volume is reported by an audit exactly when its host differs from the *)
(* one of the audit before that saw it, and its history holds just these   *)
(* changes, for any hosts, users and volumes and any number of audits.     *)
THEOREM ReportsAreExact == AuditSpec => []ChangesExact
BY AuditsInvariant, PTL DEF AuditInv

(* A host or user is reported once, unless it was registered or the first. *)
THEOREM AlertsAreExact == AuditSpec => []AlertsExact
BY AuditsInvariant, PTL DEF AuditInv
=============================================================================
