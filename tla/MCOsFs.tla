-------------------------------- MODULE MCOsFs --------------------------------
(* A small instance of OsFs for TLC. *)
EXTENDS OsFs, TLC

CONSTANTS top, sub, leaf, vault, inner, byName, byPrefix, w1

(* top holds a directory with a file, and one that the OS does not list.   *)
MCPaths == {top, sub, leaf, vault, inner}
MCDirs == {top, sub, vault}
MCParent == top :> NoPath @@ sub :> top @@ vault :> top
              @@ leaf :> sub @@ inner :> vault
MCAncestors == top :> {top} @@ sub :> {sub, top}
                 @@ vault :> {vault, top} @@ leaf :> {leaf, sub, top}
                 @@ inner :> {inner, vault, top}
MCDepth == top :> 0 @@ sub :> 1 @@ vault :> 1 @@ leaf :> 2 @@ inner :> 2
MCUnreadable == {vault}

(* A rule by name excludes sub and a file in it; one by a part of the     *)
(* path excludes two files, and is a default of the platform.              *)
MCRules == {byName, byPrefix}
MCRuleType == byName :> "filenames" @@ byPrefix :> "path_prefixes"
MCMatches == byName :> {sub, leaf} @@ byPrefix :> {leaf, inner}
MCDefaults == {byPrefix}

MCWalks == {w1}
MCRootOf == w1 :> top
===============================================================================
