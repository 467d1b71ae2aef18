------------------------------ MODULE MCHostAudit ------------------------------
(* A small instance of HostAudit for TLC. *)
EXTENDS HostAudit

CONSTANTS laptop, server, ann, bob, disk, stick

(* Two hosts, and another user on one of them.                             *)
MCKeys == {[hostname |-> laptop, user |-> ann], [hostname |-> laptop, user |-> bob],
           [hostname |-> server, user |-> ann]}
MCVolumes == {disk, stick}
=============================================================================
