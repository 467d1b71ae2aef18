---------------------------- MODULE MCKnownVolumes ----------------------------
(* The instance of HostAudit with a history of what audits could have      *)
(* compared: per volume, the host name at the last audit at which its id   *)
(* was known, mounted or not.                                              *)
EXTENDS MCHostAudit

CONSTANT never

VARIABLE known_on

known_vars == <<audit_vars, known_on>>

Seen ==
    IF trail' = <<>> THEN [v \in Volumes |-> never]
    ELSE IF Len(trail') = Len(trail) \/ trail'[Len(trail')].what # "audit" THEN known_on
    ELSE [v \in Volumes |-> IF v \in known_ids THEN me.hostname ELSE known_on[v]]

KnownInit == AuditInit /\ known_on = [v \in Volumes |-> never]
KnownNext == AuditNext /\ known_on' = Seen
KnownSpec == KnownInit /\ [][KnownNext]_known_vars

(* What a comment of the check says: it compares "across all known and     *)
(* active volumes", so a volume is reported when it is known under another *)
(* host name than at the last audit at which it was known.  The ids that   *)
(* are known come in pairs that are never found again, so that of these    *)
(* only the volumes that are mounted are compared.                         *)
KnownCompared ==
    [][\A v \in known_ids :
         Len(trail') > Len(trail) /\ trail'[Len(trail')].what = "audit"
           /\ known_on[v] \notin {never, me.hostname}
         => v \in trail'[Len(trail')].changes]_known_vars
=============================================================================
