---------------------------- MODULE VolumeDiscovery ----------------------------
(***************************************************************************)
(* The discovery strategies of lib/storage/libcd_volume.mjs over the       *)
(* volumes of Volume: a scan asks a strategy for the next of `count`       *)
(* entries, starting at entry 0, until it is told -1.  The activity mask is*)
(* the set of its bits.                                                    *)
(***************************************************************************)
EXTENDS Volume

CONSTANTS
    Counts,  \* numbers of entries a scan is tried with
    Step     \* the stride of the staggered strategy, 4 in the code

ASSUME DiscoveryAssumption ==
    /\ Counts \subseteq Nat \ {0}
    /\ Step \in Nat \ {0}

-----------------------------------------------------------------------------
volume_has_mask(mask, bits) == bits \subseteq mask
volume_add_mask(mask, bits) == mask \cup bits

(* A constructed volume has present, set_type touches no activity bit, and *)
(* an imprint adds write and maintain and clears them.                     *)
activity_mask(v) ==
    volume_add_mask({"present"}, {b \in {"write", "maintain"} :
                                    /\ b = "write" => vol[v].write
                                    /\ b = "maintain" => vol[v].maintain})

volume_is_busy(mask) ==
    /\ volume_has_mask(mask, {"present"})
    /\ mask \cap {"read", "write", "maintain"} # {}

-----------------------------------------------------------------------------
(* LIBCD_VOL_DISCOVER_STRATEGY: the next entry, or -1. *)
Bug_PastTheEnd(index, count, mask) ==
    IF volume_is_busy(mask) THEN -1 ELSE IF index < count THEN index + 1 ELSE -1
sequential(index, count, mask) ==
    IF volume_is_busy(mask) THEN -1
    ELSE IF index + 1 < count THEN index + 1 ELSE -1

staggered(index, count, mask) ==
    IF volume_is_busy(mask) THEN -1
    ELSE IF index + Step < count THEN index + Step
    ELSE IF index + 1 < Step /\ index + 1 < count THEN index + 1 ELSE -1

(* Any of the entries, whatever the index. *)
random_sample(count, mask) == IF volume_is_busy(mask) THEN {-1} ELSE 0 .. count - 1

(* The entries of a scan that starts at 0, as long as the mask stays: next *)
(* is what the strategy answers at each index.                             *)
Scanned(next, count) ==
    LET entries[n \in Nat] ==
            IF n = 0 THEN {0}
            ELSE LET before == entries[n - 1]
                 IN before \cup ({next[i] : i \in before} \ {-1})
    IN entries[count]

-----------------------------------------------------------------------------
(* While an imprint of its volume writes, every strategy tells a scan that *)
(* it is over, at whatever entry it is, as it does at the end: the scan    *)
(* cannot tell that it left entries out.  Otherwise, whatever imprints,    *)
(* self checks and mounts came before, the sequential scan visits every    *)
(* entry, the random one may visit any and never ends, and the staggered   *)
(* one visits one stride of a volume with more entries than Step, and never*)
(* those in between, but every entry of a smaller one.                     *)
DiscoveryHonest ==
    \A v \in Vols : vol[v].made =>
        LET mask == activity_mask(v)
            entries(count) == 0 .. count - 1
        IN \A count \in Counts :
             IF InFlight(v)
             THEN /\ \A i \in entries(count) : /\ sequential(i, count, mask) = -1
                                               /\ staggered(i, count, mask) = -1
                  /\ random_sample(count, mask) = {-1}
             ELSE /\ Scanned([i \in 0 .. count |-> sequential(i, count, mask)], count)
                       = entries(count)
                  /\ random_sample(count, mask) = entries(count)
                  /\ Scanned([i \in 0 .. count |-> staggered(i, count, mask)], count)
                       = {i \in entries(count) : count > Step => i % Step = 0}
=============================================================================
