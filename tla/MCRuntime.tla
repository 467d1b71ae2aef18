------------------------------- MODULE MCRuntime -------------------------------
(* A small instance of Runtime for TLC. *)
EXTENDS Runtime

CONSTANTS bucket, shared, other

Plain(profile) ==
    [profile |-> profile, bg |-> "unset", fg |-> "unset", gate |-> "unset",
     nolimits |-> "unset", nested |-> "unset", secret |-> NoSecret]
Bare == Plain(NoProfile)

(* A side named by an option and by a profile in contradiction; the gate   *)
(* asked for and taken back in each of the two ways, with options of its   *)
(* own and with another secret.  The limits, which nothing else depends on,*)
(* stay on.                                                                *)
MCRequests ==
    {Plain({"+bg"}), Plain({"+bg", "-bg", "-fg"}), Plain({"+gate"}), Plain({"-gate"}),
     [Bare EXCEPT !.bg = "off"],
     [Bare EXCEPT !.fg = "on", !.gate = "off"],
     [Plain({"+bg"}) EXCEPT !.gate = "off", !.nested = "off"],
     [Bare EXCEPT !.nested = "on"],
     [Plain({"+fg"}) EXCEPT !.secret = other]}

(* One modifier of one side at a time, and nothing else.                   *)
MCOneSided == {Plain({m}) : m \in {"+bg", "-bg", "+fg", "-fg"}}

MCSecrets == {shared, other}

MCMasks == {[kind |-> "session_only", date |-> 0], [kind |-> "span", date |-> 0],
            [kind |-> "date", date |-> 1]}

MCBuckets == {bucket}
=============================================================================
