-------------------------------- MODULE Volume --------------------------------
(***************************************************************************)
(* The volume registries and imprints of lib/storage/libcd_volume.mjs, the *)
(* mounts of lib/hardware that fill them, and the imprint assertions of    *)
(* lib/internal/self_check/libcd_assert_vol_id.mjs that read them and      *)
(* touch the volumes' masks.  An imprint runs as a pipeline of Operation   *)
(* whose self check is the polling of the active volumes.                  *)
(*                                                                         *)
(* Of a volume's masks only write and maintain are kept: present is always *)
(* set and read never.  Of the metadata of a known id only `imprinted`     *)
(* decides anything; absent and false are the same.                        *)
(***************************************************************************)
EXTENDS Integers, FiniteSets, SequencesExt

CONSTANTS
    Vols,        \* libcd_Volume instances that may be constructed
    Ids,         \* hardware ids and uuids
    NoId,        \* null
    Unnamed,     \* the empty string, which a fingerprint may be
    Removable,   \* instances with removable, a volatile one's default, or added_by_default
    Volatile,    \* instances constructed with the volatile species, the others are fixed
    Imprints,    \* calls of volume_imprint
    VolumeOf,    \* the instance each of them is called on
    Mounts       \* calls of hardware_controller_mount_volume

ASSUME VolumeAssumption ==
    /\ NoId \notin Ids
    /\ Unnamed \notin Ids \cup {NoId}
    /\ Removable \subseteq Vols
    /\ Volatile \subseteq Vols
    /\ VolumeOf \in [Imprints -> Vols]

VARIABLES
    vol,       \* the instances
    known,     \* keys of _known_volume_ids
    marked,    \* those whose metadata says imprinted: true
    active,    \* _active_volumes: [id, vol] entries in insertion order
    op,        \* the pipelines of the imprints
    mount      \* per mount call, the uuid identified, NoId before and after

vars == <<vol, known, marked, active, op, mount>>
registries == <<known, marked, active>>

-----------------------------------------------------------------------------
SizedId(n) == <<"vol_", n>>
ActiveIds == {active[i].id : i \in DOMAIN active}

VolumeIds == Ids \cup ({"vol_"} \X Nat)
Instance == [made : BOOLEAN, id : VolumeIds \cup {NoId},
             volatile : BOOLEAN, imprinted : BOOLEAN,
             write : BOOLEAN, maintain : BOOLEAN]

(* _active_volumes.set: a key that is present keeps its place. *)
Register(id, v) ==
    IF id \in ActiveIds
    THEN [i \in DOMAIN active |-> IF active[i].id = id THEN [id |-> id, vol |-> v]
                                                       ELSE active[i]]
    ELSE Append(active, [id |-> id, vol |-> v])

-----------------------------------------------------------------------------
(* assert_disk_vol_id *)
NeedsImprint(v) == v \in Removable \/ vol[v].volatile
Accepted(v) == NeedsImprint(v) => vol[v].imprinted \/ vol[v].id \in marked

(* assert_polling_disk_vol_ids looks at the active volumes in turn and     *)
(* throws at the first it does not accept; each it looked at has maintain  *)
(* set and cleared again.                                                  *)
PollPasses == \A i \in DOMAIN active : Accepted(active[i].vol)
Visited == {active[i].vol : i \in {j \in DOMAIN active :
                                     \A k \in 1 .. j - 1 : Accepted(active[k].vol)}}
Checked(f, vs) == [v \in Vols |-> IF v \in vs THEN [f[v] EXCEPT !.maintain = FALSE]
                                              ELSE f[v]]

(* An imprint composes one step, and only a pause is awaited in it: it does*)
(* not throw, so of Operation's actions it takes Begin and BodySucceeds.   *)
Op == INSTANCE Operation
          WITH Pipelines <- Imprints,
               StepsOf <- [i \in Imprints |-> 1],
               MaxRetriesOption <- [i \in Imprints |-> 3],
               SelfChecking <- {},
               SkipPostCheck <- {},
               healthy <- PollPasses

InFlight(v) == \E i \in Imprints : VolumeOf[i] = v /\ op[i].pc = "body"

(* The masks while the step writes, and after its finally. *)
Bug_BeginWriteMaintainOnly(f, v) == [f EXCEPT ![v].maintain = TRUE]
BeginWrite(f, v) == [f EXCEPT ![v].write = TRUE, ![v].maintain = TRUE]
Bug_EndWriteLeavesMaintain(f, v) == [f EXCEPT ![v].write = FALSE]
EndWrite(f, v) == [f EXCEPT ![v].write = FALSE, ![v].maintain = FALSE]

-----------------------------------------------------------------------------
Blank == [made |-> FALSE, id |-> NoId, volatile |-> FALSE, imprinted |-> FALSE,
          write |-> FALSE, maintain |-> FALSE]

Init ==
    /\ vol = [v \in Vols |-> Blank]
    /\ known = {}
    /\ marked = {}
    /\ active = <<>>
    /\ op = [i \in Imprints |-> Op!Idle(i)]
    /\ mount = [m \in Mounts |-> NoId]

(* new libcd_Volume(options) with the hardware id or identifier id; an     *)
(* instance without one is not registered.                                 *)
Made(v, id, imprinted) ==
    [made |-> TRUE, id |-> id, volatile |-> v \in Volatile,
     imprinted |-> imprinted, write |-> FALSE, maintain |-> FALSE]
New(v, id, imprinted) ==
    /\ ~vol[v].made
    /\ vol' = [vol EXCEPT ![v] = Made(v, id, imprinted)]
    /\ IF id = NoId
       THEN UNCHANGED registries
       ELSE /\ known' = known \cup {id}
            /\ marked' = IF imprinted THEN marked \cup {id} ELSE marked \ {id}
            /\ active' = Register(id, v)

Construct(v, id, imprinted) ==
    /\ New(v, id, imprinted)
    /\ UNCHANGED <<op, mount>>

(* hardware_identify_disk: makes the fingerprint known, unless it is empty.*)
(* Without a fingerprint or a fallback the mount rejects and nothing       *)
(* happened.                                                               *)
MountBegin(m, id) ==
    /\ mount[m] = NoId
    /\ mount' = [mount EXCEPT ![m] = id]
    /\ known' = known \cup ({id} \ {Unnamed})
    /\ UNCHANGED <<vol, marked, active, op>>

(* The rest of the mount, after its await: construct and register.         *)
MountEnd(m, v, imprinted) ==
    /\ mount[m] \in Ids
    /\ New(v, mount[m], imprinted)
    /\ mount' = [mount EXCEPT ![m] = NoId]
    /\ UNCHANGED op

(* hardware_controller_unmount_volume / volume_remove_active. *)
Unmount(id) ==
    /\ \E n \in DOMAIN active : /\ active[n].id = id
                               /\ active' = RemoveAt(active, n)
    /\ UNCHANGED <<vol, known, marked, op, mount>>

(* volume_add_known_id: the metadata given may say imprinted, or that it is*)
(* not, or nothing of it.                                                  *)
AddKnown(id) ==
    /\ known' = known \cup {id}
    /\ marked' \in {marked, marked \cup {id}, marked \ {id}}
    /\ UNCHANGED <<vol, active, op, mount>>

(* volume_add_active: the id given, else the instance's, else one made of  *)
(* the size of the registry.                                               *)
FallbackId == SizedId(Len(active))
ActiveId(v, given) == IF given # NoId THEN given
                      ELSE IF vol[v].id # NoId THEN vol[v].id
                      ELSE FallbackId
Bug_LearnNothing(id) == known
Learn(id) == known \cup {id}
Identify(v, id) == [vol EXCEPT ![v].id = id]
AddActive(v, given) ==
    /\ vol[v].made
    /\ LET id == ActiveId(v, given)
       IN /\ vol' = Identify(v, id)
          /\ active' = Register(id, v)
          /\ known' = Learn(id)
    /\ UNCHANGED <<marked, op, mount>>

(* The rest of a mount whose fingerprint was empty: the constructor does   *)
(* not register the instance, volume_add_active makes up an id for it.     *)
MountUnnamed(m, v, imprinted) ==
    /\ mount[m] = Unnamed
    /\ ~vol[v].made
    /\ vol' = [vol EXCEPT ![v] = Made(v, FallbackId, imprinted)]
    /\ active' = Register(FallbackId, v)
    /\ known' = Learn(FallbackId)
    /\ mount' = [mount EXCEPT ![m] = NoId]
    /\ UNCHANGED <<marked, op>>

(* volume_clear_registries. *)
ClearRegistries ==
    /\ known' = {}
    /\ marked' = {}
    /\ active' = <<>>
    /\ UNCHANGED <<vol, op, mount>>

(* set_type: ram is volatile, the other types are fixed. *)
SetType(v, volatile) ==
    /\ vol[v].made
    /\ vol' = [vol EXCEPT ![v].volatile = volatile]
    /\ UNCHANGED <<registries, op, mount>>

(* The synchronous part of volume_imprint: the instance and its id count   *)
(* as imprinted from here on.                                              *)
Marked(v, id) ==
    /\ vol[v].made
    /\ IF id = NoId
       THEN UNCHANGED registries
       ELSE /\ known' = known \cup {id}
            /\ marked' = marked \cup {id}
            /\ active' = Register(id, v)
Bug_ImprintedIdOnly(v, id) == [vol EXCEPT ![v].id = IF id = NoId THEN @ ELSE id]
Imprinted(v, id) == [vol EXCEPT ![v].imprinted = TRUE,
                                ![v].id = IF id = NoId THEN @ ELSE id]

(* volume_imprint of a fixed volume with skip_fixed. *)
ImprintSkipped(v, id) ==
    /\ Marked(v, id)
    /\ ~vol[v].volatile
    /\ vol' = Imprinted(v, id)
    /\ UNCHANGED <<op, mount>>

(* volume_imprint up to the await of its write. *)
ImprintBegin(i, id) ==
    /\ Marked(VolumeOf[i], id)
    /\ Op!Begin(i)
    /\ vol' = BeginWrite(Imprinted(VolumeOf[i], id), VolumeOf[i])
    /\ UNCHANGED mount

(* The write is over: the finally clears the masks, the pipeline ends with *)
(* the self check of every active volume.                                  *)
ImprintEnd(i) ==
    /\ Op!BodySucceeds(i)
    /\ vol' = Checked(EndWrite(vol, VolumeOf[i]), Visited)
    /\ UNCHANGED <<registries, mount>>

(* A self check of some other operation. *)
Poll ==
    /\ vol' = Checked(vol, Visited)
    /\ UNCHANGED <<registries, op, mount>>

(* assert_disk_vol_id(v) by itself. *)
AssertVolume(v) ==
    /\ vol[v].made
    /\ vol' = Checked(vol, {v})
    /\ UNCHANGED <<registries, op, mount>>

-----------------------------------------------------------------------------
Next ==
    \/ \E v \in Vols, id \in Ids \cup {NoId}, b \in BOOLEAN : Construct(v, id, b)
    \/ \E m \in Mounts, id \in Ids \cup {Unnamed} : MountBegin(m, id)
    \/ \E m \in Mounts, v \in Vols, b \in BOOLEAN : MountEnd(m, v, b) \/ MountUnnamed(m, v, b)
    \/ \E id \in ActiveIds : Unmount(id)
    \/ \E id \in Ids : AddKnown(id)
    \/ \E v \in Vols, id \in Ids \cup {NoId} : AddActive(v, id) \/ ImprintSkipped(v, id)
    \/ \E i \in Imprints, id \in Ids \cup {NoId} : ImprintBegin(i, id)
    \/ \E i \in Imprints : ImprintEnd(i)
    \/ \E v \in Vols, b \in BOOLEAN : SetType(v, b)
    \/ \E v \in Vols : AssertVolume(v)
    \/ Poll
    \/ ClearRegistries

Spec == Init /\ [][Next]_vars

-----------------------------------------------------------------------------
(* The variables hold values of their kinds; null is never a key. *)
TypeOK ==
    /\ vol \in [Vols -> Instance]
    /\ known \subseteq VolumeIds
    /\ marked \subseteq VolumeIds
    /\ active \in Seq([id : VolumeIds, vol : Vols])
    /\ mount \in [Mounts -> Ids \cup {NoId, Unnamed}]

(* The two registries agree: every active volume's id is known and has its *)
(* metadata, and a key is there once, whichever of the many operations that*)
(* register an instance put it there.                                      *)
RegistriesAgree ==
    /\ ActiveIds \cup marked \subseteq known
    /\ \A i, j \in DOMAIN active : active[i].id = active[j].id => i = j

(* volume_is_busy *)
Busy(v) == vol[v].write \/ vol[v].maintain

(* No mask is left behind: a volume is busy only while an imprint writes.  *)
(* A mask left set would end every discovery of the volume at once.        *)
NotBusyWhenIdle == \A v \in Vols : Busy(v) => InFlight(v)

(* `busy` "indicates any active lock on a volume" (README): a volume whose *)
(* imprint is being written is busy, whatever self checks run meanwhile.   *)
BusyWhileWriting == \A v \in Vols : InFlight(v) => Busy(v)

(* So discovery of a volume waits for its imprints and for nothing else.   *)
BusyExact == NotBusyWhenIdle /\ BusyWhileWriting

(* An imprint that reports success leaves its volume accepted, although    *)
(* registries may have been cleared and other instances of the same disk   *)
(* constructed while it was writing.                                       *)
ImprintEffective ==
    [][\A i \in Imprints : ImprintEnd(i) /\ op'[i].pc = "done" =>
                               Accepted(VolumeOf[i])']_vars

=============================================================================
