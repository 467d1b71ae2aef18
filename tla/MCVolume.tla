------------------------------- MODULE MCVolume -------------------------------
(* Small instances of Volume, with its discovery, for TLC. *)
EXTENDS VolumeDiscovery, TLC

CONSTANTS usb, ssd, idA, i1, i2, m1

(* A volatile stick, removable as these are by default, and a fixed disk;  *)
(* each is imprinted once, or the stick twice.  Ids beside idA are the ones*)
(* the registry makes up.                                                  *)
MCVols == {usb, ssd}
MCVolatile == {usb}
MCIds == {idA}
MCNone == {}
MCCounts == {1, 4, 9}
MCMounts == {m1}
MCImprints == {i1, i2}
MCOneEach == i1 :> usb @@ i2 :> ssd
MCSameVolume == i1 :> usb @@ i2 :> usb
=============================================================================
