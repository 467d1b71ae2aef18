-------------------------------- MODULE MCParts --------------------------------
(***************************************************************************)
(* Four parts of the library that share no state, each in its small        *)
(* instance: the runtime, sessions, the audit of hosts, and the hasher.  A *)
(* behaviour is one of the part chosen at its start.                       *)
(***************************************************************************)
EXTENDS MCRuntime, MCSession, MCHostAudit, Blake3

VARIABLE part

parts_vars == <<part, runtime_vars, vars, audit_vars, hasher_vars>>

(* Only the state of that part changes: it stands for the whole.           *)
PartState ==
    CASE part = "runtime" -> <<part, runtime_vars>>
      [] part = "session" -> <<part, vars>>
      [] part = "audit"   -> <<part, audit_vars>>
      [] part = "hasher"  -> <<part, hasher_vars>>

PartsInit ==
    /\ part \in {"runtime", "session", "audit", "hasher"}
    /\ RuntimeInit
    /\ Init
    /\ AuditInit
    /\ part # "audit" => me = CHOOSE k \in Keys : TRUE
    /\ HasherInit

PartsNext ==
    \/ /\ part = "runtime"
       /\ RuntimeNext
       /\ UNCHANGED <<part, vars, audit_vars, hasher_vars>>
    \/ /\ part = "session"
       /\ Next
       /\ UNCHANGED <<part, runtime_vars, audit_vars, hasher_vars>>
    \/ /\ part = "audit"
       /\ AuditNext
       /\ UNCHANGED <<part, runtime_vars, vars, hasher_vars>>
    \/ /\ part = "hasher"
       /\ HasherNext
       /\ UNCHANGED <<part, runtime_vars, vars, audit_vars>>

PartsSpec == PartsInit /\ [][PartsNext]_parts_vars
=============================================================================
