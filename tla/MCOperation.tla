----------------------------- MODULE MCOperation -----------------------------
(* Small instances of Operation for TLC. *)
EXTENDS Operation, TLC

CONSTANTS composed, keeper, unchecked, empty

(* A two-step pipeline with one retry, a house keeping with two, a single  *)
(* step without post check on the default of three, and no step at all.    *)
MCPipelines == {composed, keeper, unchecked, empty}
MCStepsOf == composed :> 2 @@ keeper :> 1 @@ unchecked :> 1 @@ empty :> 0
MCMaxRetriesOption == composed :> 1 @@ keeper :> 2 @@ unchecked :> 0 @@ empty :> 1
MCSelfChecking == {keeper}
MCSkipPostCheck == {unchecked}
=============================================================================
