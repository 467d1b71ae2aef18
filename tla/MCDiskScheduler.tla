--------------------------- MODULE MCDiskScheduler ---------------------------
(* Small instances of DiskScheduler for TLC. *)
EXTENDS DiskScheduler

CONSTANTS h1, h2, h3, s1, s2, b1, b2

(* Two HDD tasks contend for bus b1, a third has b2, and two SSD tasks sit *)
(* on the contended bus without needing it.                                *)
MCTasks == {h1, h2, h3, s1, s2}
MCBuses == {b1, b2}
MCBusOf == h1 :> b1 @@ h2 :> b1 @@ h3 :> b2 @@ s1 :> b1 @@ s2 :> b1
MCTypeOf == h1 :> "HDD" @@ h2 :> "HDD" @@ h3 :> "HDD" @@ s1 :> "SSD" @@ s2 :> "SSD"

MCOneStuck == {h1}
=============================================================================
