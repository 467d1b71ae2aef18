------------------------------- MODULE HostAudit -------------------------------
(***************************************************************************)
(* The audit of hosts and volumes in lib/os/libcd__os_metadata.mjs, which  *)
(* host_fingerprint (lib/host/libcd_host.mjs) runs as a session starts:    *)
(* an unknown host, user or binary is reported, and a volume that was last *)
(* seen under another platform, host name or binary.                       *)
(*                                                                         *)
(* The registry lives in memory.  While a process runs its platform and    *)
(* binary are fixed, and only its host name and its user can change: a     *)
(* host key is a pair of them.  Of the volume registries (Volume) only the *)
(* ids count.  Release, architecture, directory and time stamps are left   *)
(* out, and so is os_metadata_inspect_volume, which only reads.            *)
(***************************************************************************)
EXTENDS Integers, Sequences, FiniteSets, FiniteSetsExt

CONSTANTS
    Keys,       \* host keys: [hostname, user]
    Volumes,    \* volume ids
    MaxEvents   \* bound on the audits and registrations of one registry

ASSUME HostAuditAssumption == MaxEvents \in Nat

VARIABLES
    me,           \* what os.hostname() and os.userInfo() say now
    known_hosts,  \* per host key that is known, the set of its volume_ids
    history,      \* per volume, the host names of its os_history
    known_ids,    \* keys of _known_volume_ids
    active_ids,   \* keys of _active_volumes
    trail         \* history: audits and registrations since the registry was empty

audit_vars == <<me, known_hosts, history, known_ids, active_ids, trail>>

-----------------------------------------------------------------------------
AuditInit ==
    /\ me \in Keys
    /\ known_hosts = [k \in {} |-> {}]
    /\ history = [v \in Volumes |-> <<>>]
    /\ known_ids = {}
    /\ active_ids = {}
    /\ trail = <<>>

IsKnown(k) == k \in DOMAIN known_hosts

(* os_metadata_register_trusted_host: a host that is known keeps its ids.  *)
WithHost(k) ==
    [h \in DOMAIN known_hosts \cup {k} |-> IF IsKnown(h) THEN known_hosts[h] ELSE {}]

Registration(k) == [what |-> "registration", key |-> k]

RegisterTrusted(k) ==
    /\ Len(trail) < MaxEvents
    /\ known_hosts' = WithHost(k)
    /\ trail' = Append(trail, Registration(k))
    /\ UNCHANGED <<me, history, known_ids, active_ids>>

(* A host that nobody knows is reported, unless it is the first one ever   *)
(* and the check is not strict.                                            *)
Bug_NeverStrict(strict) == ~IsKnown(me) /\ DOMAIN known_hosts # {}
UnknownHost(strict) == ~IsKnown(me) /\ (DOMAIN known_hosts # {} \/ strict)

LastHost(v) == history[v][Len(history[v])]

(* The active volumes whose last host is another one.                      *)
ChangedVolumes == {v \in active_ids : history[v] # <<>> /\ LastHost(v) # me.hostname}

(* A volume that is new or has changed gets an entry.                      *)
Bug_FirstSeenOnly(v) == history[v] = <<>>
Noted(v) == history[v] = <<>> \/ v \in ChangedVolumes

(* known_volume_ids is a Map, and the Set made of it holds a new [id,      *)
(* record] pair per known id, which is looked up, not found, and entered   *)
(* under a key that nobody looks up again: only the ids of the active      *)
(* volumes come as ids.  What is returned is kept in the trail, and of the *)
(* first event whether it was strict, which matters to no later one.       *)
Audit(strict, changes, alert) ==
    [what |-> "audit", key |-> me, strict |-> strict /\ trail = <<>>,
     active |-> active_ids, changes |-> changes, alert |-> alert]

os_metadata_check_environment(strict) ==
    /\ Len(trail) < MaxEvents
    /\ known_hosts' = [WithHost(me) EXCEPT ![me] = @ \cup active_ids]
    /\ history' = [v \in Volumes |-> IF v \in active_ids /\ Noted(v)
                                     THEN Append(history[v], me.hostname)
                                     ELSE history[v]]
    /\ trail' = Append(trail, Audit(strict, ChangedVolumes, UnknownHost(strict)))
    /\ UNCHANGED <<me, known_ids, active_ids>>

host_fingerprint == os_metadata_check_environment(FALSE)

os_metadata_reset ==
    /\ known_hosts' = [k \in {} |-> {}]
    /\ history' = [v \in Volumes |-> <<>>]
    /\ trail' = <<>>
    /\ UNCHANGED <<me, known_ids, active_ids>>

-----------------------------------------------------------------------------
(* The host is renamed, or the process changes its user.                   *)
BecomeKey(k) ==
    /\ me' = k
    /\ UNCHANGED <<known_hosts, history, known_ids, active_ids, trail>>

volume_add_known_id(v) ==
    /\ known_ids' = known_ids \cup {v}
    /\ UNCHANGED <<me, known_hosts, history, active_ids, trail>>

volume_add_active(v) ==
    /\ known_ids' = known_ids \cup {v}
    /\ active_ids' = active_ids \cup {v}
    /\ UNCHANGED <<me, known_hosts, history, trail>>

volume_remove_active(v) ==
    /\ active_ids' = active_ids \ {v}
    /\ UNCHANGED <<me, known_hosts, history, known_ids, trail>>

volume_clear_registries ==
    /\ known_ids' = {}
    /\ active_ids' = {}
    /\ UNCHANGED <<me, known_hosts, history, trail>>

(* The process ends and another one starts, on any host: nothing is kept.  *)
Restart(k) ==
    /\ me' = k
    /\ known_hosts' = [h \in {} |-> {}]
    /\ history' = [v \in Volumes |-> <<>>]
    /\ known_ids' = {}
    /\ active_ids' = {}
    /\ trail' = <<>>

AuditNext ==
    \/ \E k \in Keys : RegisterTrusted(k) \/ BecomeKey(k) \/ Restart(k)
    \/ \E v \in Volumes : \/ volume_add_known_id(v)
                         \/ volume_add_active(v)
                         \/ volume_remove_active(v)
    \/ os_metadata_check_environment(TRUE)
    \/ host_fingerprint
    \/ os_metadata_reset
    \/ volume_clear_registries

AuditSpec == AuditInit /\ [][AuditNext]_audit_vars

-----------------------------------------------------------------------------
Audits == {i \in DOMAIN trail : trail[i].what = "audit"}
AuditsOf(v) == {i \in Audits : v \in trail[i].active}

(* The audit of v before the i-th event. *)
Before(v, i) == {j \in AuditsOf(v) : j < i}
Previous(v, i) == trail[Max(Before(v, i))].key.hostname

Differs(v, i) ==
    /\ i \in AuditsOf(v)
    /\ Before(v, i) # {}
    /\ Previous(v, i) # trail[i].key.hostname

ReportsExact == \A i \in Audits : trail[i].changes = {v \in Volumes : Differs(v, i)}

HistoryExact ==
    \A v \in Volumes :
      /\ AuditsOf(v) = {} <=> history[v] = <<>>
      /\ AuditsOf(v) # {} =>
           /\ LastHost(v) = trail[Max(AuditsOf(v))].key.hostname
           /\ Len(history[v]) = 1 + Cardinality({i \in AuditsOf(v) : Differs(v, i)})

(* Of a volume that is mounted an audit reports a change exactly when the  *)
(* host name differs from the one of the audit before in which it was      *)
(* mounted too, however many audits came in between: no move is reported   *)
(* twice, one that went back while the volume was away is not reported at  *)
(* all, and no change of the user is.                                      *)
ChangesExact == ReportsExact /\ HistoryExact

AlertsOnce ==
    \A i \in Audits :
      trail[i].alert <=> /\ \A j \in 1 .. i - 1 : trail[j].key # trail[i].key
                         /\ i > 1 \/ trail[i].strict

AllTrusted == DOMAIN known_hosts = {trail[i].key : i \in DOMAIN trail}

AuditsAt(k) == {i \in Audits : trail[i].key = k}
VolumesOfHosts ==
    \A k \in DOMAIN known_hosts : known_hosts[k] = UNION {trail[i].active : i \in AuditsAt(k)}

(* A host, or another user of it, is reported once, at its first audit,    *)
(* unless it was registered before or is the first of this registry: that  *)
(* one is trusted silently, also after a reset or a restart, since nothing *)
(* of the registry is kept.  Every audited host is known from then on, with*)
(* the volumes that were mounted at its audits.                            *)
AlertsExact == AlertsOnce /\ AllTrusted /\ VolumesOfHosts
=============================================================================
