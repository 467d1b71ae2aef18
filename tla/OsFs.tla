--------------------------------- MODULE OsFs ---------------------------------
(***************************************************************************)
(* The filesystem gateway lib/os/libcd_os_fs.mjs and the exclusion filter  *)
(* lib/os/libcd__os_filter.mjs it asks about every path.  Walks are async  *)
(* generators: between two of their awaits and yields the application may  *)
(* change the filter, and this and other processes the tree on disk.       *)
(*                                                                         *)
(* A rule is known by the paths it matches: by their name, by their        *)
(* extension, or by containing its prefix.  The tree of paths is given,    *)
(* disk says which of them exist.  Contents are left out.                  *)
(***************************************************************************)
EXTENDS Integers, FiniteSets

CONSTANTS
    Paths,       \* every path there may be
    Dirs,        \* those that are directories when they exist
    NoPath,      \* the parent of a top directory
    Parent,      \* dirname of a path
    Ancestors,   \* a path and all the directories above it
    Depth,       \* how many directories are above it
    Unreadable,  \* directories whose listing the OS refuses
    Rules,       \* filter rules
    RuleType,    \* their type
    Matches,     \* the paths each of them matches
    Defaults,    \* the rules of this platform (WIN_FILTERS, NIX_FILTERS, OSX_FILTERS)
    Walks,       \* calls of os_fs_walk
    RootOf,      \* their dir_path
    MaxCalls,    \* bound: calls of the other gateway functions
    MaxChanges   \* bound: changes of the filter, and of the disk by others

Levels == 0 .. 2
RuleTypes == {"filenames", "extensions", "path_prefixes"}

ASSUME OsFsAssumption ==
    /\ NoPath \notin Paths
    /\ Parent \in [Paths -> Dirs \cup {NoPath}]
    /\ Dirs \subseteq Paths
    /\ \A p \in Paths \ Dirs : Parent[p] \in Dirs
    /\ IsFiniteSet(Paths)
    /\ Ancestors \in [Paths -> SUBSET Paths]
    /\ Depth \in [Paths -> Nat]
    /\ \A p \in Paths :
         IF Parent[p] = NoPath
         THEN Ancestors[p] = {p}
         ELSE /\ Ancestors[p] = {p} \cup Ancestors[Parent[p]]
              /\ Depth[p] = Depth[Parent[p]] + 1
    /\ \A p \in Paths : \A a \in Ancestors[p] :
         /\ Ancestors[a] \subseteq Ancestors[p]
         /\ Depth[a] <= Depth[p]
         /\ a # p => \E c \in Ancestors[p] : Parent[c] = a
    /\ RuleType \in [Rules -> RuleTypes]
    /\ Matches \in [Rules -> SUBSET Paths]
    /\ Defaults \subseteq Rules
    /\ RootOf \in [Walks -> Dirs]
    /\ MaxCalls \in Nat
    /\ MaxChanges \in Nat

VARIABLES
    layers,   \* _filter_layers: the rules of each precedence level
    metrics,  \* _skip_metrics
    disk,     \* the paths that exist
    pending,  \* gateway calls that await the OS
    walk,     \* the generators, and the history each is measured by
    calls,    \* gateway calls so far
    changes   \* changes so far

vars == <<layers, metrics, disk, pending, walk, calls, changes>>

-----------------------------------------------------------------------------
(* os_filter_check: the highest level with a matching rule decides, and in *)
(* a level names come before extensions, extensions before prefixes.       *)
Matching(l, p) == {r \in layers[l] : p \in Matches[r]}
Blocking(p) == {l \in Levels : Matching(l, p) # {}}
Blocked(p) == Blocking(p) # {}

DecidingLevel(p) == CHOOSE l \in Blocking(p) : \A k \in Blocking(p) : k <= l
DecidingType(p) ==
    LET types == {RuleType[r] : r \in Matching(DecidingLevel(p), p)}
    IN CHOOSE t \in types :
         /\ t = "extensions" => "filenames" \notin types
         /\ t = "path_prefixes" => types = {"path_prefixes"}

(* os_filter_record_skip for each blocked path of the set.                 *)
CountType(skipped, t) == Cardinality({p \in skipped : DecidingType(p) = t})

Check(checked) ==
    LET skipped == {p \in checked : Blocked(p)}
    IN metrics' =
         [total_skipped |-> metrics.total_skipped + Cardinality(skipped),
          by_precedence |-> [l \in Levels |-> metrics.by_precedence[l] +
                               Cardinality({p \in skipped : DecidingLevel(p) = l})],
          by_type |-> [t \in RuleTypes |-> metrics.by_type[t] + CountType(skipped, t)]]

NoSkips == [total_skipped |-> 0, by_precedence |-> [l \in Levels |-> 0],
            by_type |-> [t \in RuleTypes |-> 0]]

(* The metrics after a reset. *)
Bug_ClearedNotByType(clear) ==
    IF clear THEN [NoSkips EXCEPT !.by_type = metrics.by_type] ELSE metrics
Cleared(clear) == IF clear THEN NoSkips ELSE metrics

Children(d) == {p \in disk : Parent[p] = d}

(* mkdir with recursive: true makes every directory that is missing.       *)
Made(p) == Ancestors[p]
Below(p) == {q \in Paths : p \in Ancestors[q]}

-----------------------------------------------------------------------------
(* What a walk may know of: paths that stood on disk unblocked ever since  *)
(* it began, that existed at some time since, that were allowed at some.   *)
Allowed == {p \in Paths : ~Blocked(p)}

NotStarted == [pc |-> "idle", at |-> NoPath, entries |-> {}, todo |-> {},
               yielded |-> {}, twice |-> {},
               stable |-> {}, existed |-> {}, allowed |-> {}]

Begun(w) == [NotStarted EXCEPT !.pc = "reading", !.at = RootOf[w],
                               !.stable = disk \cap Allowed,
                               !.existed = disk, !.allowed = Allowed]

Watch == walk' = [w \in Walks |->
            [walk[w] EXCEPT !.stable = @ \cap disk' \cap Allowed',
                            !.existed = @ \cup disk',
                            !.allowed = @ \cup Allowed']]

Init ==
    /\ layers = [l \in Levels |-> IF l = 0 THEN Defaults ELSE {}]
    /\ metrics = NoSkips
    /\ disk \in {d \in SUBSET Paths : \A p \in d : Ancestors[p] \subseteq d}
    /\ pending = {}
    /\ walk = [w \in Walks |-> NotStarted]
    /\ calls = 0
    /\ changes = 0

-----------------------------------------------------------------------------
(* The filter's operations. *)
Change == changes < MaxChanges /\ changes' = changes + 1

FilterAdd(level, r) ==
    /\ Change
    /\ layers' = [layers EXCEPT ![level] = @ \cup {r}]
    /\ UNCHANGED <<metrics, disk, pending, calls>>
    /\ Watch

FilterRemove(level, r) ==
    /\ Change
    /\ layers' = [layers EXCEPT ![level] = @ \ {r}]
    /\ UNCHANGED <<metrics, disk, pending, calls>>
    /\ Watch

(* os_filter_init(true): the platform's rules again in level 0. *)
FilterInit ==
    /\ Change
    /\ layers' = [layers EXCEPT ![0] = Defaults]
    /\ UNCHANGED <<metrics, disk, pending, calls>>
    /\ Watch

FilterReset(clear_metrics) ==
    /\ Change
    /\ layers' = [l \in Levels |-> IF l = 0 THEN Defaults ELSE {}]
    /\ metrics' = Cleared(clear_metrics)
    /\ UNCHANGED <<disk, pending, calls>>
    /\ Watch

(* Another process creates or deletes a path. *)
OthersChange ==
    /\ Change
    /\ \/ \E p \in Paths \ disk : /\ Ancestors[p] \ {p} \subseteq disk
                                  /\ disk' = disk \cup {p}
       \/ \E p \in disk : disk' = disk \ Below(p)
    /\ UNCHANGED <<layers, metrics, pending, calls>>
    /\ Watch

-----------------------------------------------------------------------------
(* The single calls of the gateway: the filter is asked at the call, the OS*)
(* acts later.                                                             *)
Call == calls < MaxCalls /\ calls' = calls + 1

(* os_fs_stat, os_fs_lstat and os_fs_read_file change nothing else.        *)
Query(p) ==
    /\ Call
    /\ Check({p})
    /\ UNCHANGED <<layers, disk, pending, walk, changes>>

Await(op, p) == pending' = IF Blocked(p) THEN pending
                                         ELSE pending \cup {[op |-> op, path |-> p]}

Mkdir(p) ==
    /\ Call
    /\ Check({p})
    /\ Await("mkdir", p)
    /\ UNCHANGED <<layers, disk, walk, changes>>

Rm(p) ==
    /\ Call
    /\ Check({p})
    /\ Await("rm", p)
    /\ UNCHANGED <<layers, disk, walk, changes>>

(* os_fs_write_file: a missing directory is made first, if it may be.      *)
WriteFile(p) ==
    /\ Call
    /\ IF Blocked(p) \/ Parent[p] \in disk
       THEN Check({p}) /\ Await("write", p)
       ELSE Check({p, Parent[p]}) /\ IF Blocked(Parent[p]) THEN UNCHANGED pending
                                                           ELSE Await("mkdir_write", p)
    /\ UNCHANGED <<layers, disk, walk, changes>>

OsActs(c) ==
    /\ c \in pending
    /\ LET p == c.path
       IN /\ disk' = CASE c.op = "mkdir" -> disk \cup Made(p)
                       [] c.op = "rm" -> disk \ Below(p)
                       [] c.op = "mkdir_write" -> disk \cup Made(Parent[p])
                       [] c.op = "write" -> IF Parent[p] \in disk THEN disk \cup {p}
                                                                  ELSE disk
          /\ pending' = (pending \ {c}) \cup
               (IF c.op = "mkdir_write" THEN {[op |-> "write", path |-> p]} ELSE {})
    /\ UNCHANGED <<layers, metrics, calls, changes>>
    /\ Watch

-----------------------------------------------------------------------------
(* os_fs_walk.  One generator waits at each level, for the entries left in *)
(* its directory: the deepest of them are the next to be yielded.          *)
Deepest(todo) == {p \in todo : \A q \in todo : Depth[q] <= Depth[p]}

Bug_TakeKeeps(o, e) == [o EXCEPT !.pc = "yielded", !.at = e, !.yielded = @ \cup {e}]
Take(o, e) == [o EXCEPT !.pc = "yielded", !.at = e, !.todo = @ \ {e},
                        !.yielded = @ \cup {e}, !.twice = @ \cup ({e} \cap o.yielded)]

(* The locals of a walk after it goes on from o to its next yield or end.  *)
Advance(w, o) ==
    IF o.todo = {}
    THEN walk' = [walk EXCEPT ![w] = [o EXCEPT !.pc = "done", !.at = NoPath]]
    ELSE \E e \in Deepest(o.todo) : walk' = [walk EXCEPT ![w] = Take(o, e)]

WalkStart(w) ==
    /\ walk[w].pc = "idle"
    /\ Check({RootOf[w]})
    /\ IF Blocked(RootOf[w])
       THEN Advance(w, Begun(w))
       ELSE walk' = [walk EXCEPT ![w] = Begun(w)]
    /\ UNCHANGED <<layers, disk, pending, calls, changes>>

(* The OS lists the directory, or refuses to. *)
WalkRead(w) ==
    /\ walk[w].pc = "reading"
    /\ LET d == walk[w].at
           listed == IF d \in disk \ Unreadable THEN Children(d) ELSE {}
       IN walk' = [walk EXCEPT ![w] = [@ EXCEPT !.pc = "listed", !.entries = listed]]
    /\ UNCHANGED <<layers, metrics, disk, pending, calls, changes>>

(* os_fs_readdir goes on after its await: the filter as it is by now.      *)
CleanEntries(entries) == entries \cap Allowed

Bug_ForgetSiblings(o, clean) == [o EXCEPT !.entries = {}, !.todo = clean]
Descend(o, clean) == [o EXCEPT !.entries = {}, !.todo = @ \cup clean]

WalkListed(w) ==
    /\ walk[w].pc = "listed"
    /\ Check(walk[w].entries)
    /\ Advance(w, Descend(walk[w], CleanEntries(walk[w].entries)))
    /\ UNCHANGED <<layers, disk, pending, calls, changes>>

(* The consumer asks for more: a directory is entered, a file is passed.   *)
WalkResume(w) ==
    /\ walk[w].pc = "yielded"
    /\ LET e == walk[w].at
       IN IF e \notin Dirs
          THEN Advance(w, walk[w]) /\ UNCHANGED metrics
          ELSE /\ Check({e})
               /\ IF Blocked(e)
                  THEN Advance(w, walk[w])
                  ELSE walk' = [walk EXCEPT ![w].pc = "reading"]
    /\ UNCHANGED <<layers, disk, pending, calls, changes>>

WalkStep(w) == WalkRead(w) \/ WalkListed(w) \/ WalkResume(w)

-----------------------------------------------------------------------------
Next ==
    \/ \E l \in Levels, r \in Rules : FilterAdd(l, r) \/ FilterRemove(l, r)
    \/ FilterInit
    \/ \E b \in BOOLEAN : FilterReset(b)
    \/ OthersChange
    \/ \E p \in Paths : Query(p) \/ Rm(p)
    \/ \E p \in Dirs : Mkdir(p)
    \/ \E p \in Paths \ Dirs : WriteFile(p)
    \/ \E c \in pending : OsActs(c)
    \/ \E w \in Walks : WalkStart(w) \/ WalkStep(w)

Spec == Init /\ [][Next]_vars

(* The OS answers, and the consumer of a walk asks until it ends.          *)
FairSpec == Spec /\ \A w \in Walks : WF_vars(WalkStep(w))

-----------------------------------------------------------------------------
WalkStates == [pc : {"idle", "reading", "listed", "yielded", "done"},
               at : Paths \cup {NoPath}, entries : SUBSET Paths,
               todo : SUBSET Paths, yielded : SUBSET Paths, twice : SUBSET Paths,
               stable : SUBSET Paths, existed : SUBSET Paths,
               allowed : SUBSET Paths]
Pendings == [op : {"mkdir", "rm", "mkdir_write", "write"}, path : Paths]

(* The variables hold values of their kinds; nothing is on disk outside of *)
(* a directory.                                                            *)
TypeOK ==
    /\ layers \in [Levels -> SUBSET Rules]
    /\ metrics \in [total_skipped : Nat, by_precedence : [Levels -> Nat],
                    by_type : [RuleTypes -> Nat]]
    /\ disk \subseteq Paths
    /\ \A p \in disk : Ancestors[p] \subseteq disk
    /\ pending \subseteq Pendings
    /\ walk \in [Walks -> WalkStates]
    /\ calls \in 0 .. MaxCalls
    /\ changes \in 0 .. MaxChanges

(* The three ways of counting skips agree, over checks of single paths, of *)
(* listings, and resets that clear or keep the counts.                     *)
MetricsAgree ==
    /\ metrics.total_skipped = metrics.by_precedence[0] + metrics.by_precedence[1]
                                 + metrics.by_precedence[2]
    /\ metrics.total_skipped = metrics.by_type["filenames"]
         + metrics.by_type["extensions"] + metrics.by_type["path_prefixes"]

(* The way down from the root of w to p, both included. *)
Way(w, p) == {a \in Ancestors[p] : RootOf[w] \in Ancestors[a]}
Inside(w) == Below(RootOf[w]) \ {RootOf[w]}

(* "Automatically skipping filtered subdirectories", while filter and disk *)
(* change under the walk: nothing is yielded twice, or before the directory*)
(* it is in, and nothing that all along was missing or excluded, itself or *)
(* any directory on the way to it.                                         *)
WalkSound ==
    \A w \in Walks :
        /\ walk[w].twice = {}
        /\ \A p \in walk[w].yielded :
             /\ p \in Inside(w)
             /\ Way(w, p) \ {RootOf[w]} \subseteq walk[w].yielded
             /\ Way(w, p) \subseteq walk[w].existed \cap walk[w].allowed

(* A walk that ended missed nothing that was there to see all along: every *)
(* path that existed and passed the filter ever since the walk began, with *)
(* every directory on the way readable, was yielded.                       *)
WalkComplete ==
    \A w \in Walks : walk[w].pc = "done" =>
        \A p \in Inside(w) :
            Way(w, p) \subseteq walk[w].stable /\ (Way(w, p) \ {p}) \cap Unreadable = {}
                => p \in walk[w].yielded

(* os_fs_walk over a tree that changes under it: no path too many, none too*)
(* few.                                                                    *)
WalkExact == WalkSound /\ WalkComplete

(* A walk ends, whatever is created under it while it goes on.             *)
WalkEnds == \A w \in Walks : walk[w].pc # "idle" ~> walk[w].pc = "done"
=============================================================================
