------------------------------ MODULE OsFsProofs ------------------------------
(***************************************************************************)
(* Proofs about OsFs: for every tree, rule set and number of walks, what   *)
(* a walk yields is sound and, once it ended, complete, and the ways of    *)
(* counting skipped paths agree.                                           *)
(***************************************************************************)
EXTENDS OsFs, FiniteSetTheorems, TLAPS

-----------------------------------------------------------------------------
(* The tree of paths.                                                      *)

(* A path is on its own way, above it is no path of its depth or deeper,   *)
(* and a parent is above its child.                                        *)
LEMMA TreeFacts ==
    /\ \A p \in Paths : p \in Ancestors[p]
    /\ \A p \in Paths : \A a \in Ancestors[p] :
         /\ a \in Paths
         /\ Ancestors[a] \subseteq Ancestors[p]
         /\ p \in Ancestors[a] => a = p
    /\ \A p \in Paths : Parent[p] \in Paths =>
         /\ Ancestors[p] = {p} \cup Ancestors[Parent[p]]
         /\ Parent[p] # p
         /\ Parent[p] \in Dirs
<1>1. \A p \in Paths : p \in Ancestors[p]
  BY OsFsAssumption
<1>2. \A p \in Paths : \A a \in Ancestors[p] :
        a \in Paths /\ Ancestors[a] \subseteq Ancestors[p]
  BY OsFsAssumption
<1>3. \A p \in Paths : Parent[p] \in Paths =>
        /\ Ancestors[p] = {p} \cup Ancestors[Parent[p]]
        /\ Depth[p] = Depth[Parent[p]] + 1
        /\ Depth[p] \in Nat /\ Depth[Parent[p]] \in Nat
        /\ Parent[p] \in Dirs
  BY OsFsAssumption
<1>4. ASSUME NEW p \in Paths, NEW a \in Ancestors[p], p \in Ancestors[a], a # p
      PROVE  FALSE
  <2>1. PICK c \in Ancestors[p] : Parent[c] = a
    BY <1>4, OsFsAssumption
  <2>2. c \in Paths /\ a \in Paths
    BY <1>2, <1>4, <2>1
  <2>3. Depth[c] <= Depth[p] /\ Depth[p] <= Depth[a] /\ Depth[c] = Depth[a] + 1
    BY <1>3, <1>4, <2>1, <2>2, OsFsAssumption
  <2> QED
    BY <2>2, <2>3, OsFsAssumption
<1>5. \A p \in Paths : Parent[p] \in Paths => Parent[p] # p
  BY <1>3
<1> QED
  BY <1>1, <1>2, <1>3, <1>4, <1>5

(* The ways from a walk's root: to itself, and on from a path to a child.  *)
LEMMA Ways ==
  ASSUME NEW w \in Walks
  PROVE  /\ RootOf[w] \in Paths /\ RootOf[w] \in Dirs
         /\ Way(w, RootOf[w]) = {RootOf[w]}
         /\ \A q \in Inside(w) : /\ q \in Paths
                                 /\ q # RootOf[w]
                                 /\ RootOf[w] \in Way(w, q)
                                 /\ q \in Way(w, q)
                                 /\ Way(w, q) \subseteq Paths
         /\ \A d \in Inside(w) \cup {RootOf[w]}, q \in Paths : Parent[q] = d =>
              /\ q \in Inside(w)
              /\ Way(w, q) = {q} \cup Way(w, d)
         /\ \A q \in Inside(w) : \A a \in Way(w, q) \ {q} :
              /\ a \in Dirs
              /\ \E c \in Way(w, q) : Parent[c] = a
<1> DEFINE r == RootOf[w]
<1>1. r \in Paths /\ r \in Dirs
  BY OsFsAssumption
<1>2. Way(w, r) = {r}
  BY <1>1, TreeFacts DEF Way
<1>3. ASSUME NEW q \in Inside(w)
      PROVE  q \in Paths /\ q # r /\ r \in Ancestors[q] /\ r \in Way(w, q) /\ q \in Way(w, q)
             /\ Way(w, q) \subseteq Paths
  BY <1>1, TreeFacts DEF Way, Inside, Below
<1>4. ASSUME NEW d \in Inside(w) \cup {r}, NEW q \in Paths, Parent[q] = d
      PROVE  q \in Inside(w) /\ Way(w, q) = {q} \cup Way(w, d)
  <2>1. d \in Paths /\ r \in Ancestors[d]
    BY <1>1, TreeFacts DEF Inside, Below
  <2>2. Ancestors[q] = {q} \cup Ancestors[d] /\ d # q /\ d \in Ancestors[q]
    BY <1>4, <2>1, TreeFacts
  <2>3. q # r
    BY <2>1, <2>2, TreeFacts
  <2> QED
    BY <2>1, <2>2, <2>3 DEF Inside, Below, Way
<1>5. ASSUME NEW q \in Inside(w), NEW a \in Way(w, q) \ {q}
      PROVE  a \in Dirs /\ \E c \in Way(w, q) : Parent[c] = a
  <2>1. q \in Paths /\ a \in Ancestors[q] /\ r \in Ancestors[a] /\ a \in Paths
    BY <1>3, TreeFacts DEF Way
  <2>2. PICK c \in Ancestors[q] : Parent[c] = a
    BY <2>1, OsFsAssumption
  <2>3. c \in Paths /\ r \in Ancestors[c] /\ a \in Dirs
    BY <2>1, <2>2, TreeFacts
  <2> QED
    BY <2>2, <2>3 DEF Way
<1> QED
  BY <1>1, <1>2, <1>3, <1>4, <1>5

-----------------------------------------------------------------------------
(* What is checked in one go, counted in three ways.                       *)

(* The deciding level and type of a blocked path are a level and a type.   *)
LEMMA DecidingKinds ==
  ASSUME layers \in [Levels -> SUBSET Rules], NEW p, Blocked(p)
  PROVE  DecidingLevel(p) \in Levels /\ DecidingType(p) \in RuleTypes
<1>1. DecidingLevel(p) \in Blocking(p)
  <2> DEFINE Highest(l) == l \in Blocking(p) /\ \A k \in Blocking(p) : k <= l
  <2>1. Blocking(p) \subseteq {0, 1, 2} /\ Blocking(p) # {}
    BY DEF Blocked, Blocking, Levels
  <2>2. \E l : Highest(l)
    <3>1. CASE 2 \in Blocking(p)
      BY <2>1, <3>1
    <3>2. CASE 2 \notin Blocking(p) /\ 1 \in Blocking(p)
      <4>1. Blocking(p) \subseteq {0, 1}
        BY <2>1, <3>2
      <4>2. \A k \in Blocking(p) : k <= 1
        BY <4>1
      <4> QED
        BY <3>2, <4>2
    <3>3. CASE Blocking(p) = {0}
      BY <3>3
    <3> QED
      BY <2>1, <3>1, <3>2, <3>3
  <2>3. DecidingLevel(p) = CHOOSE l \in Blocking(p) : \A k \in Blocking(p) : k <= l
    BY DEF DecidingLevel
  <2> QED
    BY <2>2, <2>3
<1>2. DecidingType(p) \in RuleTypes
  <2> DEFINE types == {RuleType[r] : r \in Matching(DecidingLevel(p), p)}
             Deciding(t) == /\ t = "extensions" => "filenames" \notin types
                            /\ t = "path_prefixes" => types = {"path_prefixes"}
  <2>1. DecidingLevel(p) \in Levels /\ Matching(DecidingLevel(p), p) # {}
    BY <1>1 DEF Blocking
  <2>2. types \subseteq RuleTypes /\ types # {}
    <3>1. Matching(DecidingLevel(p), p) \subseteq Rules
      BY <2>1 DEF Matching
    <3> QED
      BY <2>1, <3>1, OsFsAssumption
  <2>3. DecidingType(p) = CHOOSE t \in types : Deciding(t)
    BY DEF DecidingType
  <2> HIDE DEF types
  <2>4. \E t \in types : Deciding(t)
    <3>1. CASE "filenames" \in types
      BY <3>1
    <3>2. CASE "filenames" \notin types /\ "extensions" \in types
      BY <3>2
    <3>3. CASE "filenames" \notin types /\ "extensions" \notin types
      <4>1. types = {"path_prefixes"}
        BY <2>2, <3>3 DEF RuleTypes
      <4> QED
        BY <4>1
    <3> QED
      BY <3>1, <3>2, <3>3
  <2>5. DecidingType(p) \in types
    BY <2>3, <2>4
  <2> QED
    BY <2>2, <2>5
<1> QED
  BY <1>1, <1>2 DEF Blocking

(* A finite set is counted by counting the disjoint parts it falls into.   *)
LEMMA TwoParts ==
  ASSUME NEW S, IsFiniteSet(S), NEW T, IsFiniteSet(T), S \cap T = {}
  PROVE  /\ IsFiniteSet(S \cup T)
         /\ Cardinality(S \cup T) = Cardinality(S) + Cardinality(T)
<1>1. /\ IsFiniteSet(S \cup T)
      /\ Cardinality(S \cup T) = Cardinality(S) + Cardinality(T) - Cardinality(S \cap T)
  BY FS_Union
<1>2. Cardinality(S \cap T) = 0
  <2>1. Cardinality({}) = 0
    BY FS_EmptySet
  <2> QED
    BY <2>1
<1>3. Cardinality(S) \in Nat /\ Cardinality(T) \in Nat
  BY FS_CardinalityType
<1> QED
  BY <1>1, <1>2, <1>3

LEMMA ThreeParts ==
  ASSUME NEW S, IsFiniteSet(S), NEW A, NEW B, NEW C, S = A \cup B \cup C,
         A \cap B = {}, A \cap C = {}, B \cap C = {}
  PROVE  /\ Cardinality(S) = Cardinality(A) + Cardinality(B) + Cardinality(C)
         /\ Cardinality(S) \in Nat
         /\ Cardinality(A) \in Nat /\ Cardinality(B) \in Nat /\ Cardinality(C) \in Nat
<1>1. IsFiniteSet(A) /\ IsFiniteSet(B) /\ IsFiniteSet(C)
  BY FS_Subset
<1>2. /\ Cardinality(A) \in Nat /\ Cardinality(B) \in Nat /\ Cardinality(C) \in Nat
      /\ Cardinality(S) \in Nat
  BY <1>1, FS_CardinalityType
<1>3. IsFiniteSet(A \cup B) /\ Cardinality(A \cup B) = Cardinality(A) + Cardinality(B)
  BY <1>1, TwoParts
<1>4. (A \cup B) \cap C = {}
  OBVIOUS
<1>5. Cardinality((A \cup B) \cup C) = Cardinality(A \cup B) + Cardinality(C)
  <2> DEFINE D == A \cup B
  <2>1. IsFiniteSet(D) /\ D \cap C = {}
    BY <1>3, <1>4
  <2> HIDE DEF D
  <2>2. Cardinality(D \cup C) = Cardinality(D) + Cardinality(C)
    BY <1>1, <2>1, TwoParts
  <2> QED
    BY <2>2 DEF D
<1> QED
  BY <1>2, <1>3, <1>5

(* A check keeps the kinds of the counts and their agreement.              *)
MetricsOK == metrics \in [total_skipped : Nat, by_precedence : [Levels -> Nat],
                          by_type : [RuleTypes -> Nat]]

LEMMA CheckKeeps ==
  ASSUME layers \in [Levels -> SUBSET Rules], MetricsOK, MetricsAgree,
         NEW checked \in SUBSET Paths, Check(checked)
  PROVE  MetricsOK' /\ MetricsAgree'
<1> DEFINE skipped == {p \in checked : Blocked(p)}
           L(l) == {p \in skipped : DecidingLevel(p) = l}
           T(t) == {p \in skipped : DecidingType(p) = t}
           total == metrics.total_skipped + Cardinality(skipped)
           byp == [l \in Levels |-> metrics.by_precedence[l] + Cardinality(L(l))]
           byt == [t \in RuleTypes |-> metrics.by_type[t] + Cardinality(T(t))]
<1>1. metrics' = [total_skipped |-> total, by_precedence |-> byp, by_type |-> byt]
  BY Zenon DEF Check, CountType
<1>2. IsFiniteSet(skipped) /\ skipped \subseteq Paths
  BY FS_Subset, OsFsAssumption
<1>3. \A p \in skipped : DecidingLevel(p) \in Levels /\ DecidingType(p) \in RuleTypes
  BY DecidingKinds
<1>4. /\ Cardinality(skipped) = Cardinality(L(0)) + Cardinality(L(1)) + Cardinality(L(2))
      /\ Cardinality(skipped) \in Nat
      /\ Cardinality(L(0)) \in Nat /\ Cardinality(L(1)) \in Nat /\ Cardinality(L(2)) \in Nat
  <2>1. skipped = L(0) \cup L(1) \cup L(2)
    BY <1>3 DEF Levels
  <2>2. L(0) \cap L(1) = {} /\ L(0) \cap L(2) = {} /\ L(1) \cap L(2) = {}
    OBVIOUS
  <2> DEFINE A == L(0)
             B == L(1)
             C == L(2)
  <2>3. /\ IsFiniteSet(skipped)
        /\ skipped = A \cup B \cup C
        /\ A \cap B = {} /\ A \cap C = {} /\ B \cap C = {}
    BY <1>2, <2>1, <2>2
  <2> HIDE DEF skipped, A, B, C
  <2>4. /\ Cardinality(skipped) = Cardinality(A) + Cardinality(B) + Cardinality(C)
        /\ Cardinality(A) \in Nat /\ Cardinality(B) \in Nat /\ Cardinality(C) \in Nat
    BY <2>3, ThreeParts
  <2>5. Cardinality(skipped) \in Nat
    BY <2>3, FS_CardinalityType
  <2> QED
    BY <2>4, <2>5 DEF A, B, C
<1>5. /\ Cardinality(skipped) = Cardinality(T("filenames"))
           + Cardinality(T("extensions")) + Cardinality(T("path_prefixes"))
      /\ Cardinality(T("filenames")) \in Nat /\ Cardinality(T("extensions")) \in Nat
      /\ Cardinality(T("path_prefixes")) \in Nat
  <2>1. skipped = T("filenames") \cup T("extensions") \cup T("path_prefixes")
    BY <1>3 DEF RuleTypes
  <2>2. /\ T("filenames") \cap T("extensions") = {}
        /\ T("filenames") \cap T("path_prefixes") = {}
        /\ T("extensions") \cap T("path_prefixes") = {}
    OBVIOUS
  <2> DEFINE A == T("filenames")
             B == T("extensions")
             C == T("path_prefixes")
  <2>3. /\ IsFiniteSet(skipped)
        /\ skipped = A \cup B \cup C
        /\ A \cap B = {} /\ A \cap C = {} /\ B \cap C = {}
    BY <1>2, <2>1, <2>2
  <2> HIDE DEF skipped, A, B, C
  <2>4. /\ Cardinality(skipped) = Cardinality(A) + Cardinality(B) + Cardinality(C)
        /\ Cardinality(A) \in Nat /\ Cardinality(B) \in Nat /\ Cardinality(C) \in Nat
    BY <2>3, ThreeParts
  <2> QED
    BY <2>4 DEF A, B, C
<1> HIDE DEF skipped, L, T
<1>6. /\ metrics.total_skipped \in Nat
      /\ metrics.by_precedence \in [Levels -> Nat]
      /\ metrics.by_type \in [RuleTypes -> Nat]
  BY DEF MetricsOK
<1>7. total \in Nat /\ byp \in [Levels -> Nat] /\ byt \in [RuleTypes -> Nat]
  BY <1>4, <1>5, <1>6 DEF Levels, RuleTypes
<1>8. /\ total = byp[0] + byp[1] + byp[2]
      /\ total = byt["filenames"] + byt["extensions"] + byt["path_prefixes"]
  BY <1>4, <1>5, <1>6 DEF MetricsAgree, Levels, RuleTypes
<1> HIDE DEF total, byp, byt
<1> QED
  BY <1>1, <1>7, <1>8 DEF MetricsOK, MetricsAgree

-----------------------------------------------------------------------------
(* The invariant of a walk o with number w.  What it knows is a tree below *)
(* its root: whatever it has yielded or will, it came to by yielding each  *)
(* directory on the way.                                                   *)
Known(w, o) == o.yielded \cup {RootOf[w]}
Met(o) == o.todo \cup o.yielded

Tree(w, o) ==
    /\ o.twice = {}
    /\ o.todo \cap o.yielded = {}
    /\ \A q \in Met(o) :
         /\ q \in Inside(w)
         /\ Parent[q] \in Known(w, o)
         /\ Way(w, q) \ {q} \subseteq Known(w, o)
         /\ Way(w, q) \subseteq o.existed \cap o.allowed

(* Where it stands is a directory whose entries it has not met yet.        *)
Stand(w, o) ==
    o.pc \in {"reading", "listed", "yielded"} =>
        /\ o.at \in Known(w, o)
        /\ RootOf[w] \in o.allowed
        /\ \A q \in Met(o) : Parent[q] # o.at
        /\ o.pc = "reading" => o.at \in Dirs

Listing(o) ==
    IF o.pc = "listed"
    THEN /\ \A q \in o.entries : Parent[q] = o.at /\ q \in o.existed
         /\ o.entries # {} => o.at \in o.existed
    ELSE o.entries = {}

Ends(o) ==
    /\ o.pc = "idle" => Met(o) = {}
    /\ o.pc = "done" => o.todo = {}

(* The history it is measured by is that of the disk and the filter.       *)
Ghost(o) ==
    /\ o.stable \subseteq disk \cap Allowed
    /\ disk \subseteq o.existed
    /\ Allowed \subseteq o.allowed

(* What it owes its consumer is still ahead of it: an entry on the way is  *)
(* waiting, or listed, or it is about to list a directory on the way.      *)
Owed(w, o, p) ==
    /\ Way(w, p) \subseteq o.stable
    /\ (Way(w, p) \ {p}) \cap Unreadable = {}

Ahead(w, o, p) == p \in o.yielded \/ Way(w, p) \cap o.todo # {}
Entering(w, o, p) == o.pc \in {"reading", "yielded"} /\ o.at \in Way(w, p) \ {p}
Entered(w, o, p) == o.pc = "listed" /\ Way(w, p) \cap o.entries # {}

Covered(w, o) ==
    \A p \in Inside(w) : Owed(w, o, p) =>
        Ahead(w, o, p) \/ Entering(w, o, p) \/ Entered(w, o, p)

WalkInv(w, o) ==
    /\ Tree(w, o) /\ Stand(w, o) /\ Listing(o) /\ Ends(o)
    /\ o.pc # "idle" => Ghost(o) /\ Covered(w, o)

Writes == \A c \in pending : c.op = "mkdir_write" => c.path \notin Dirs

IInv == TypeOK /\ MetricsAgree /\ Writes /\ \A w \in Walks : WalkInv(w, walk[w])

WalksOK == walk \in [Walks -> WalkStates] /\ \A w \in Walks : WalkInv(w, walk[w])

(* A change of disk or filter keeps every walk's invariant: what stood all *)
(* along only shrinks, what was seen at some time only grows.              *)
LEMMA WatchKeeps ==
  ASSUME WalksOK, Watch, disk' \subseteq Paths
  PROVE  WalksOK'
<1>1. Allowed' \subseteq Paths
  BY DEF Allowed
<1>2. ASSUME NEW w \in Walks
      PROVE  walk'[w] \in WalkStates /\ WalkInv(w, walk[w])'
  <2> DEFINE o == walk[w]
             n == walk'[w]
  <2>1. o \in WalkStates /\ WalkInv(w, o)
    BY DEF WalksOK
  <2>2. n = [o EXCEPT !.stable = @ \cap disk' \cap Allowed',
                      !.existed = @ \cup disk', !.allowed = @ \cup Allowed']
    BY DEF Watch
  <2>3. /\ n.pc = o.pc /\ n.at = o.at /\ n.entries = o.entries /\ n.todo = o.todo
        /\ n.yielded = o.yielded /\ n.twice = o.twice
        /\ n.stable = o.stable \cap disk' \cap Allowed'
        /\ n.existed = o.existed \cup disk' /\ n.allowed = o.allowed \cup Allowed'
        /\ n \in WalkStates
    <3> HIDE DEF n, o
    <3> QED
      BY <1>1, <2>1, <2>2 DEF WalkStates
  <2> HIDE DEF n, o
  <2>4. Tree(w, n)
    BY <2>1, <2>3 DEF WalkInv, Tree, Met, Known
  <2>5. Stand(w, n)
    BY <2>1, <2>3 DEF WalkInv, Stand, Met, Known
  <2>6. Listing(n) /\ Ends(n)
    BY <2>1, <2>3 DEF WalkInv, Listing, Ends, Met
  <2>7. /\ n.stable \subseteq disk' \cap Allowed'
        /\ disk' \subseteq n.existed /\ Allowed' \subseteq n.allowed
    BY <2>3
  <2>8. n.pc # "idle" => Covered(w, n)
    <3>1. SUFFICES ASSUME n.pc # "idle", NEW p \in Inside(w), Owed(w, n, p)
                   PROVE  Ahead(w, n, p) \/ Entering(w, n, p) \/ Entered(w, n, p)
      BY DEF Covered
    <3>2. Owed(w, o, p)
      BY <2>3, <3>1 DEF Owed
    <3>3. Ahead(w, o, p) \/ Entering(w, o, p) \/ Entered(w, o, p)
      BY <2>1, <2>3, <3>1, <3>2 DEF WalkInv, Covered
    <3> QED
      BY <2>3, <3>3 DEF Ahead, Entering, Entered
  <2> QED
    BY <2>3, <2>4, <2>5, <2>6, <2>7, <2>8 DEF n, WalkInv, Ghost
<1> QED
  BY <1>2 DEF WalksOK, Watch

(* Nor does a step of one walk touch another.                              *)
LEMMA OneWalkSteps ==
  ASSUME WalksOK, NEW w \in Walks, NEW n \in WalkStates, WalkInv(w, n),
         walk' = [walk EXCEPT ![w] = n], UNCHANGED <<disk, layers>>
  PROVE  WalksOK'
<1>1. Allowed' = Allowed
  BY DEF Allowed, Blocked, Blocking, Matching
<1>2. ASSUME NEW v \in Walks
      PROVE  walk'[v] \in WalkStates /\ WalkInv(v, walk[v])'
  <2>1. walk'[v] \in WalkStates /\ WalkInv(v, walk'[v])
    BY DEF WalksOK
  <2> QED
    BY <1>1, <2>1 DEF WalkInv, Ghost
<1> QED
  BY <1>2 DEF WalksOK

(* A walk may go on to its next yield, or end, once everything it owes is  *)
(* yielded or waits to be.                                                 *)
Ready(w, o) ==
    /\ o \in WalkStates
    /\ Tree(w, o)
    /\ o.entries = {}
    /\ Ghost(o)
    /\ \A p \in Inside(w) : Owed(w, o, p) => Ahead(w, o, p)

LEMMA AdvanceKeeps ==
  ASSUME WalksOK, NEW w \in Walks, NEW o, Ready(w, o), Advance(w, o),
         UNCHANGED <<disk, layers>>
  PROVE  WalksOK'
<1>1. ASSUME o.todo = {}, walk' = [walk EXCEPT ![w] = [o EXCEPT !.pc = "done", !.at = NoPath]]
      PROVE  WalksOK'
  <2> DEFINE n == [o EXCEPT !.pc = "done", !.at = NoPath]
  <2>1. /\ n.pc = "done" /\ n.entries = {} /\ n.todo = {}
        /\ n.yielded = o.yielded /\ n.twice = o.twice /\ n.stable = o.stable
        /\ n.existed = o.existed /\ n.allowed = o.allowed /\ n \in WalkStates
    BY <1>1 DEF Ready, WalkStates
  <2>2. walk' = [walk EXCEPT ![w] = n]
    BY <1>1
  <2> HIDE DEF n
  <2>3. Tree(w, n)
    BY <1>1, <2>1 DEF Ready, Tree, Met, Known
  <2>4. Stand(w, n) /\ Listing(n) /\ Ends(n) /\ Ghost(n)
    BY <2>1 DEF Ready, Stand, Listing, Ends, Ghost
  <2>5. Covered(w, n)
    BY <1>1, <2>1 DEF Ready, Covered, Owed, Ahead
  <2> QED
    BY <2>1, <2>2, <2>3, <2>4, <2>5, OneWalkSteps DEF WalkInv
<1>2. ASSUME NEW e \in o.todo, walk' = [walk EXCEPT ![w] = Take(o, e)]
      PROVE  WalksOK'
  <2> DEFINE n == Take(o, e)
  <2>1. /\ o \in WalkStates /\ Tree(w, o) /\ e \in Inside(w) /\ e \in Paths
        /\ o.todo \subseteq Paths /\ e \notin o.yielded
    BY <1>2, Ways DEF Ready, WalkStates, Tree, Met
  <2>2. /\ n.pc = "yielded" /\ n.at = e /\ n.entries = {} /\ n.todo = o.todo \ {e}
        /\ n.yielded = o.yielded \cup {e} /\ n.twice = {} /\ n.stable = o.stable
        /\ n.existed = o.existed /\ n.allowed = o.allowed /\ n \in WalkStates
    BY <2>1 DEF Ready, Take, WalkStates, Tree
  <2>3. walk' = [walk EXCEPT ![w] = n]
    BY <1>2
  <2> HIDE DEF n
  <2>4. Met(n) = Met(o) /\ Known(w, o) \subseteq Known(w, n)
    BY <1>2, <2>2 DEF Met, Known
  <2>5. Tree(w, n)
    BY <2>1, <2>2, <2>4 DEF Tree
  <2>6. Stand(w, n)
    <3>1. e \in Known(w, n)
      BY <2>2 DEF Known
    <3>2. RootOf[w] \in o.allowed
      BY <1>2, <2>1, Ways DEF Tree, Met
    <3>3. ASSUME NEW q \in Met(o), Parent[q] = e
          PROVE  FALSE
      BY <2>1, <3>3, Ways DEF Tree, Known
    <3> QED
      BY <2>2, <2>4, <3>1, <3>2, <3>3 DEF Stand
  <2>7. Listing(n) /\ Ends(n) /\ Ghost(n)
    BY <2>2 DEF Ready, Listing, Ends, Ghost
  <2>8. Covered(w, n)
    <3>1. SUFFICES ASSUME NEW p \in Inside(w), Owed(w, n, p)
                   PROVE  Ahead(w, n, p) \/ Entering(w, n, p)
      BY DEF Covered
    <3>2. Ahead(w, o, p)
      BY <2>2, <3>1 DEF Ready, Owed
    <3> QED
      BY <2>2, <3>2 DEF Ahead, Entering
  <2> QED
    BY <2>2, <2>3, <2>5, <2>6, <2>7, <2>8, OneWalkSteps DEF WalkInv
<1> QED
  BY <1>1, <1>2 DEF Advance, Deepest

-----------------------------------------------------------------------------
(* The steps of a walk. *)

LEMMA StartKeeps ==
  ASSUME IInv, NEW w \in Walks, WalkStart(w)
  PROVE  WalksOK'
<1> DEFINE o == Begun(w)
           r == RootOf[w]
<1>1. WalksOK /\ disk \subseteq Paths /\ Allowed \subseteq Paths
  BY DEF IInv, TypeOK, WalksOK, Allowed
<1>2. r \in Paths /\ r \in Dirs /\ Way(w, r) = {r}
  BY Ways
<1>3. /\ o.pc = "reading" /\ o.at = r /\ o.entries = {} /\ o.todo = {}
      /\ o.yielded = {} /\ o.twice = {} /\ o.stable = disk \cap Allowed
      /\ o.existed = disk /\ o.allowed = Allowed /\ o \in WalkStates
  BY <1>1, <1>2 DEF Begun, NotStarted, WalkStates
<1>4. UNCHANGED <<disk, layers>>
  BY DEF WalkStart
<1>5. Tree(w, o) /\ Listing(o) /\ Ends(o) /\ Ghost(o)
  BY <1>3 DEF Tree, Met, Listing, Ends, Ghost
<1>6. r \in Allowed <=> ~Blocked(r)
  BY <1>2 DEF Allowed
<1>7. CASE Blocked(r)
  <2> HIDE DEF o
  <2>1. \A p \in Inside(w) : ~Owed(w, o, p)
    BY <1>3, <1>6, <1>7, Ways DEF Owed
  <2>2. Ready(w, o)
    BY <1>3, <1>5, <2>1 DEF Ready
  <2>3. Advance(w, o)
    BY <1>7 DEF WalkStart, o
  <2> QED
    BY <1>1, <1>4, <2>2, <2>3, AdvanceKeeps
<1>8. CASE ~Blocked(r)
  <2>1. walk' = [walk EXCEPT ![w] = o]
    BY <1>8 DEF WalkStart
  <2> HIDE DEF o
  <2>2. Stand(w, o)
    BY <1>2, <1>3, <1>6, <1>8 DEF Stand, Known, Met
  <2>3. Covered(w, o)
    BY <1>3, Ways DEF Covered, Entering
  <2> QED
    BY <1>1, <1>3, <1>4, <1>5, <2>1, <2>2, <2>3, OneWalkSteps DEF WalkInv
<1> QED
  BY <1>7, <1>8

LEMMA ReadKeeps ==
  ASSUME IInv, NEW w \in Walks, WalkRead(w)
  PROVE  WalksOK'
<1> DEFINE o == walk[w]
           listed == IF o.at \in disk \ Unreadable THEN Children(o.at) ELSE {}
           n == [o EXCEPT !.pc = "listed", !.entries = listed]
<1>1. WalksOK /\ disk \subseteq Paths /\ o \in WalkStates /\ WalkInv(w, o)
  BY DEF IInv, TypeOK, WalksOK
<1>2. o.pc = "reading" /\ walk' = [walk EXCEPT ![w] = n] /\ UNCHANGED <<disk, layers>>
  BY DEF WalkRead
<1>3. /\ Tree(w, o) /\ Stand(w, o) /\ Ghost(o) /\ Covered(w, o)
  BY <1>1, <1>2 DEF WalkInv
<1>4. listed \subseteq {q \in disk : Parent[q] = o.at} /\ listed \subseteq Paths
      /\ (listed # {} => o.at \in disk)
  BY <1>1 DEF Children
<1>5. /\ n.pc = "listed" /\ n.at = o.at /\ n.entries = listed /\ n.todo = o.todo
      /\ n.yielded = o.yielded /\ n.twice = o.twice /\ n.stable = o.stable
      /\ n.existed = o.existed /\ n.allowed = o.allowed /\ n \in WalkStates
  <2> HIDE DEF o, listed
  <2> QED
    BY <1>1, <1>4 DEF WalkStates
<1>6. o.at \in disk \ Unreadable => \A q \in disk : Parent[q] = o.at => q \in listed
  BY DEF Children
<1> HIDE DEF o, listed, n
<1>7. Tree(w, n) /\ Stand(w, n) /\ Ends(n) /\ Ghost(n)
  BY <1>2, <1>3, <1>5 DEF Tree, Stand, Ends, Ghost, Met, Known
<1>8. Listing(n)
  BY <1>3, <1>4, <1>5 DEF Listing, Ghost
<1>9. Covered(w, n)
  <2>1. SUFFICES ASSUME NEW p \in Inside(w), Owed(w, n, p)
                 PROVE  Ahead(w, n, p) \/ Entered(w, n, p)
    BY DEF Covered
  <2>2. Owed(w, o, p)
    BY <1>5, <2>1 DEF Owed
  <2>3. Ahead(w, o, p) \/ Entering(w, o, p)
    BY <1>2, <1>3, <2>2 DEF Covered, Entered
  <2>4. ASSUME Entering(w, o, p)
        PROVE  Entered(w, n, p)
    <3>1. PICK c \in Way(w, p) : Parent[c] = o.at
      BY <2>4, Ways DEF Entering
    <3>2. c \in disk /\ o.at \in disk \ Unreadable
      BY <1>3, <2>2, <2>4, <3>1 DEF Ghost, Owed, Entering
    <3> QED
      BY <1>5, <1>6, <3>1, <3>2 DEF Entered
  <2> QED
    BY <1>5, <2>3, <2>4 DEF Ahead
<1> QED
  BY <1>1, <1>2, <1>5, <1>7, <1>8, <1>9, OneWalkSteps DEF WalkInv

LEMMA ListedKeeps ==
  ASSUME IInv, NEW w \in Walks, WalkListed(w)
  PROVE  WalksOK'
<1> DEFINE o == walk[w]
           clean == CleanEntries(o.entries)
           n == Descend(o, clean)
<1>1. WalksOK /\ o \in WalkStates /\ WalkInv(w, o)
  BY DEF IInv, TypeOK, WalksOK
<1>2. o.pc = "listed" /\ Advance(w, n) /\ UNCHANGED <<disk, layers>>
  BY DEF WalkListed
<1>3. Tree(w, o) /\ Stand(w, o) /\ Ghost(o) /\ Covered(w, o) /\ Listing(o)
  BY <1>1, <1>2 DEF WalkInv
<1>4. clean = o.entries \cap Allowed /\ clean \subseteq Paths
  BY <1>1 DEF CleanEntries, WalkStates
<1>5. /\ n.entries = {} /\ n.todo = o.todo \cup clean
      /\ n.yielded = o.yielded /\ n.twice = o.twice /\ n.stable = o.stable
      /\ n.existed = o.existed /\ n.allowed = o.allowed /\ n \in WalkStates
  <2> HIDE DEF o, clean
  <2> QED
    BY <1>1, <1>4 DEF Descend, WalkStates
<1> HIDE DEF o, clean, n
<1>6. ASSUME NEW q \in clean
      PROVE  /\ q \in Inside(w) /\ q \notin Met(o)
             /\ Parent[q] \in Known(w, o)
             /\ Way(w, q) \ {q} \subseteq Known(w, o)
             /\ Way(w, q) \subseteq o.existed \cap o.allowed
  <2> DEFINE d == o.at
  <2>1. /\ q \in Paths /\ Parent[q] = d /\ q \in o.existed \cap o.allowed
        /\ d \in o.existed /\ d \in Known(w, o) /\ RootOf[w] \in o.allowed
        /\ q \notin Met(o)
    BY <1>2, <1>3, <1>4 DEF Listing, Stand, Ghost
  <2> HIDE DEF d
  <2>2. /\ d \in Inside(w) \cup {RootOf[w]}
        /\ Way(w, d) \subseteq Known(w, o)
        /\ Way(w, d) \subseteq o.existed \cap o.allowed
    <3>1. CASE d \in o.yielded
      BY <1>3, <2>1, <3>1 DEF Tree, Met
    <3>2. CASE d = RootOf[w]
      BY <2>1, <3>2, Ways DEF Known
    <3> QED
      BY <2>1, <3>1, <3>2 DEF Known
  <2>3. q \in Inside(w) /\ Way(w, q) = {q} \cup Way(w, d)
    BY <2>1, <2>2, Ways
  <2> QED
    BY <2>1, <2>2, <2>3
<1>7. Tree(w, n)
  <2>1. Met(n) = Met(o) \cup clean /\ Known(w, n) = Known(w, o)
    BY <1>5 DEF Met, Known
  <2>2. n.todo \cap n.yielded = {}
    BY <1>3, <1>5, <1>6 DEF Tree, Met
  <2> QED
    BY <1>3, <1>5, <1>6, <2>1, <2>2 DEF Tree
<1>8. Ready(w, n)
  <2>1. Ghost(n)
    BY <1>3, <1>5 DEF Ghost
  <2>2. ASSUME NEW p \in Inside(w), Owed(w, n, p)
        PROVE  Ahead(w, n, p)
    <3>1. Owed(w, o, p)
      BY <1>5, <2>2 DEF Owed
    <3>2. Ahead(w, o, p) \/ Entered(w, o, p)
      BY <1>2, <1>3, <3>1 DEF Covered, Entering
    <3>3. Way(w, p) \cap o.entries \subseteq clean
      BY <1>3, <1>4, <3>1 DEF Owed, Ghost
    <3> QED
      BY <1>5, <3>2, <3>3 DEF Ahead, Entered
  <2> QED
    BY <1>5, <1>7, <2>1, <2>2 DEF Ready
<1> QED
  BY <1>1, <1>2, <1>8, AdvanceKeeps

LEMMA ResumeKeeps ==
  ASSUME IInv, NEW w \in Walks, WalkResume(w)
  PROVE  WalksOK'
<1> DEFINE o == walk[w]
<1>1. WalksOK /\ o \in WalkStates /\ WalkInv(w, o)
  BY DEF IInv, TypeOK, WalksOK
<1>2. o.pc = "yielded" /\ UNCHANGED <<disk, layers>>
  BY DEF WalkResume
<1>3. Tree(w, o) /\ Stand(w, o) /\ Ghost(o) /\ Covered(w, o) /\ Listing(o)
  BY <1>1, <1>2 DEF WalkInv
<1>4. ASSUME o.at \notin Dirs \/ Blocked(o.at), Advance(w, o)
      PROVE  WalksOK'
  <2> HIDE DEF o
  <2>1. ASSUME NEW p \in Inside(w), Owed(w, o, p)
        PROVE  Ahead(w, o, p)
    <3>1. Ahead(w, o, p) \/ Entering(w, o, p)
      BY <1>2, <1>3, <2>1 DEF Covered, Entered
    <3>2. ~Entering(w, o, p)
      BY <1>3, <1>4, <2>1, Ways DEF Entering, Owed, Ghost, Allowed
    <3> QED
      BY <3>1, <3>2
  <2>2. Ready(w, o)
    BY <1>1, <1>2, <1>3, <2>1 DEF Ready, Listing
  <2> QED
    BY <1>1, <1>2, <1>4, <2>2, AdvanceKeeps
<1>5. ASSUME o.at \in Dirs, walk' = [walk EXCEPT ![w].pc = "reading"]
      PROVE  WalksOK'
  <2> DEFINE n == [o EXCEPT !.pc = "reading"]
  <2>1. walk' = [walk EXCEPT ![w] = n]
    BY <1>1, <1>5 DEF WalksOK
  <2>2. /\ n.pc = "reading" /\ n.at = o.at /\ n.entries = o.entries /\ n.todo = o.todo
        /\ n.yielded = o.yielded /\ n.twice = o.twice /\ n.stable = o.stable
        /\ n.existed = o.existed /\ n.allowed = o.allowed /\ n \in WalkStates
    <3> HIDE DEF o
    <3> QED
      BY <1>1 DEF WalkStates
  <2> HIDE DEF o, n
  <2>3. Tree(w, n) /\ Stand(w, n) /\ Listing(n) /\ Ends(n) /\ Ghost(n)
    BY <1>2, <1>3, <1>5, <2>2 DEF Tree, Stand, Listing, Ends, Ghost, Met, Known
  <2>4. Covered(w, n)
    BY <1>2, <1>3, <2>2 DEF Covered, Owed, Ahead, Entering, Entered
  <2> QED
    BY <1>1, <1>2, <2>1, <2>2, <2>3, <2>4, OneWalkSteps DEF WalkInv
<1>6. CASE o.at \notin Dirs
  BY <1>4, <1>6 DEF WalkResume
<1>7. CASE o.at \in Dirs /\ Blocked(o.at)
  BY <1>4, <1>7 DEF WalkResume
<1>8. CASE o.at \in Dirs /\ ~Blocked(o.at)
  BY <1>5, <1>8 DEF WalkResume
<1> QED
  BY <1>6, <1>7, <1>8

-----------------------------------------------------------------------------
(* The other steps. *)

(* Nothing that is done to the tree leaves a path without its directory.   *)
TreeOK(d) == d \subseteq Paths /\ \A p \in d : Ancestors[p] \subseteq d

LEMMA TreesKept ==
  ASSUME NEW d, TreeOK(d), NEW p \in Paths
  PROVE  /\ TreeOK(d \cup Made(p))
         /\ TreeOK(d \ Below(p))
         /\ Ancestors[p] \ {p} \subseteq d => TreeOK(d \cup {p})
         /\ Parent[p] \in d => TreeOK(d \cup {p})
<1>1. TreeOK(d \cup Made(p))
  BY TreeFacts DEF TreeOK, Made
<1>2. TreeOK(d \ Below(p))
  BY TreeFacts DEF TreeOK, Below
<1>3. ASSUME Ancestors[p] \ {p} \subseteq d
      PROVE  TreeOK(d \cup {p})
  BY <1>3 DEF TreeOK
<1>4. Parent[p] \in d => Ancestors[p] \ {p} \subseteq d
  BY TreeFacts DEF TreeOK
<1> QED
  BY <1>1, <1>2, <1>3, <1>4

Rest ==
    /\ layers \in [Levels -> SUBSET Rules]
    /\ TreeOK(disk)
    /\ pending \subseteq Pendings /\ Writes
    /\ calls \in 0 .. MaxCalls
    /\ changes \in 0 .. MaxChanges

LEMMA Parts == IInv <=> Rest /\ MetricsOK /\ MetricsAgree /\ WalksOK
BY DEF IInv, Rest, MetricsOK, WalksOK, TypeOK, TreeOK

LEMMA PartsNext == IInv' <=> (Rest /\ MetricsOK /\ MetricsAgree /\ WalksOK)'
BY DEF IInv, Rest, MetricsOK, WalksOK, TypeOK, TreeOK

(* Where only the counts, the pending calls or other walks change.         *)
LEMMA SameWalks ==
  ASSUME WalksOK, UNCHANGED <<walk, disk, layers>>
  PROVE  WalksOK'
BY DEF WalksOK, WalkInv, Tree, Stand, Listing, Ends, Covered, Ghost, Allowed,
       Blocked, Blocking, Matching

LEMMA SameMetrics ==
  ASSUME MetricsOK, MetricsAgree, UNCHANGED metrics
  PROVE  MetricsOK' /\ MetricsAgree'
BY DEF MetricsOK, MetricsAgree

LEMMA FilterKeeps ==
  ASSUME IInv,
         \/ \E l \in Levels, r \in Rules : FilterAdd(l, r) \/ FilterRemove(l, r)
         \/ FilterInit
         \/ \E b \in BOOLEAN : FilterReset(b)
         \/ OthersChange
  PROVE  IInv'
<1>1. Rest /\ MetricsOK /\ MetricsAgree /\ WalksOK
  BY Parts
<1>2. changes' \in 0 .. MaxChanges /\ UNCHANGED <<pending, calls>> /\ Watch
  <2>1. Change /\ UNCHANGED <<pending, calls>> /\ Watch
    BY DEF FilterAdd, FilterRemove, FilterInit, FilterReset, OthersChange
  <2> QED
    BY <1>1, <2>1, OsFsAssumption DEF Change, Rest
<1>3. layers' \in [Levels -> SUBSET Rules] /\ TreeOK(disk')
  <2>1. ASSUME NEW l \in Levels, NEW r \in Rules, FilterAdd(l, r) \/ FilterRemove(l, r)
        PROVE  layers' \in [Levels -> SUBSET Rules] /\ disk' = disk
    BY <1>1, <2>1 DEF Rest, FilterAdd, FilterRemove
  <2>2. ASSUME FilterInit
        PROVE  layers' \in [Levels -> SUBSET Rules] /\ disk' = disk
    BY <1>1, <2>2, OsFsAssumption DEF Rest, FilterInit
  <2>3. ASSUME NEW b \in BOOLEAN, FilterReset(b)
        PROVE  layers' \in [Levels -> SUBSET Rules] /\ disk' = disk
    BY <2>3, OsFsAssumption DEF FilterReset
  <2>4. ASSUME OthersChange
        PROVE  layers' = layers /\ TreeOK(disk')
    BY <1>1, <2>4, TreesKept DEF OthersChange, Rest, TreeOK
  <2> QED
    BY <1>1, <2>1, <2>2, <2>3, <2>4 DEF Rest
<1>4. MetricsOK' /\ MetricsAgree'
  <2>1. CASE UNCHANGED metrics
    BY <1>1, <2>1, SameMetrics
  <2>2. CASE metrics' = NoSkips
    BY <2>2 DEF NoSkips, MetricsOK, MetricsAgree, Levels, RuleTypes
  <2> QED
    BY <2>1, <2>2 DEF FilterAdd, FilterRemove, FilterInit, FilterReset, OthersChange, Cleared
<1>5. WalksOK'
  BY <1>1, <1>2, <1>3, WatchKeeps DEF TreeOK
<1>6. Rest'
  BY <1>1, <1>2, <1>3 DEF Rest, TreeOK, Writes
<1> QED
  BY <1>4, <1>5, <1>6, PartsNext

LEMMA CallKeeps ==
  ASSUME IInv,
         \/ \E p \in Paths : Query(p) \/ Rm(p)
         \/ \E p \in Dirs : Mkdir(p)
         \/ \E p \in Paths \ Dirs : WriteFile(p)
  PROVE  IInv'
<1>1. Rest /\ MetricsOK /\ MetricsAgree /\ WalksOK
  BY Parts
<1>2. Call /\ UNCHANGED <<layers, disk, walk, changes>>
  BY DEF Query, Rm, Mkdir, WriteFile
<1>3. calls' \in 0 .. MaxCalls
  BY <1>1, <1>2, OsFsAssumption DEF Call, Rest
<1>4. WalksOK'
  BY <1>1, <1>2, SameWalks
<1>5. \E checked \in SUBSET Paths : Check(checked)
  <2>1. ASSUME NEW p \in Paths, Query(p) \/ Rm(p) \/ Mkdir(p)
        PROVE  {p} \in SUBSET Paths /\ Check({p})
    BY <2>1 DEF Query, Rm, Mkdir
  <2>2. ASSUME NEW p \in Paths \ Dirs, WriteFile(p)
        PROVE  \/ {p} \in SUBSET Paths /\ Check({p})
               \/ {p, Parent[p]} \in SUBSET Paths /\ Check({p, Parent[p]})
    <3>1. Parent[p] \in Paths
      BY OsFsAssumption
    <3> QED
      BY <2>2, <3>1 DEF WriteFile
  <2>3. Dirs \subseteq Paths
    BY OsFsAssumption
  <2> QED
    BY <2>1, <2>2, <2>3
<1>6. MetricsOK' /\ MetricsAgree'
  BY <1>1, <1>5, CheckKeeps DEF Rest
<1>7. pending' \subseteq Pendings /\ Writes'
  <2>1. ASSUME NEW p \in Paths, NEW op \in {"mkdir", "rm", "mkdir_write", "write"},
               Await(op, p), op = "mkdir_write" => p \notin Dirs
        PROVE  pending' \subseteq Pendings /\ Writes'
    BY <1>1, <2>1 DEF Await, Rest, Writes, Pendings
  <2>2. UNCHANGED pending => pending' \subseteq Pendings /\ Writes'
    BY <1>1 DEF Rest, Writes
  <2>3. \A p : Query(p) => UNCHANGED pending
    BY DEF Query
  <2>4. \A p \in Paths : Rm(p) => pending' \subseteq Pendings /\ Writes'
    BY <2>1 DEF Rm
  <2>5. \A p \in Dirs : Mkdir(p) => pending' \subseteq Pendings /\ Writes'
    BY <2>1, OsFsAssumption DEF Mkdir
  <2>6. \A p \in Paths \ Dirs : WriteFile(p) => pending' \subseteq Pendings /\ Writes'
    BY <2>1, <2>2 DEF WriteFile
  <2> QED
    BY <2>2, <2>3, <2>4, <2>5, <2>6
<1>8. Rest'
  BY <1>1, <1>2, <1>3, <1>7 DEF Rest
<1> QED
  BY <1>4, <1>6, <1>8, PartsNext

LEMMA OsActsKeeps ==
  ASSUME IInv, NEW c \in pending, OsActs(c)
  PROVE  IInv'
<1> DEFINE p == c.path
<1>1. Rest /\ MetricsOK /\ MetricsAgree /\ WalksOK
  BY Parts
<1>2. /\ p \in Paths /\ c.op \in {"mkdir", "rm", "mkdir_write", "write"}
      /\ c.op = "mkdir_write" => Parent[p] \in Paths
  BY <1>1, OsFsAssumption DEF Rest, Writes, Pendings
<1>3. UNCHANGED <<layers, metrics, calls, changes>> /\ Watch
  BY DEF OsActs
<1>4. TreeOK(disk')
  <2>1. CASE c.op = "mkdir"
    BY <1>1, <1>2, <2>1, TreesKept DEF OsActs, Rest
  <2>2. CASE c.op = "rm"
    BY <1>1, <1>2, <2>2, TreesKept DEF OsActs, Rest
  <2>3. CASE c.op = "mkdir_write"
    BY <1>1, <1>2, <2>3, TreesKept DEF OsActs, Rest
  <2>4. CASE c.op = "write"
    BY <1>1, <1>2, <2>4, TreesKept DEF OsActs, Rest
  <2> QED
    BY <1>2, <2>1, <2>2, <2>3, <2>4
<1>5. pending' \subseteq Pendings /\ Writes'
  BY <1>1, <1>2 DEF OsActs, Rest, Writes, Pendings
<1>6. WalksOK'
  BY <1>1, <1>3, <1>4, WatchKeeps DEF TreeOK
<1>7. MetricsOK' /\ MetricsAgree'
  BY <1>1, <1>3, SameMetrics
<1>8. Rest'
  BY <1>1, <1>3, <1>4, <1>5 DEF Rest
<1> QED
  BY <1>6, <1>7, <1>8, PartsNext

LEMMA WalkKeeps ==
  ASSUME IInv, NEW w \in Walks, WalkStart(w) \/ WalkStep(w)
  PROVE  IInv'
<1>1. Rest /\ MetricsOK /\ MetricsAgree /\ WalksOK
  BY Parts
<1>2. WalksOK'
  BY StartKeeps, ReadKeeps, ListedKeeps, ResumeKeeps DEF WalkStep
<1>3. UNCHANGED <<layers, disk, pending, calls, changes>>
  BY DEF WalkStart, WalkStep, WalkRead, WalkListed, WalkResume
<1>4. MetricsOK' /\ MetricsAgree'
  <2>1. UNCHANGED metrics \/ \E checked \in SUBSET Paths : Check(checked)
    <3>1. RootOf[w] \in Paths /\ walk[w] \in WalkStates
      BY <1>1, Ways DEF WalksOK
    <3>2. CASE WalkStart(w)
      BY <3>1, <3>2 DEF WalkStart
    <3>3. CASE WalkRead(w)
      BY <3>3 DEF WalkRead
    <3>4. CASE WalkListed(w)
      BY <3>1, <3>4 DEF WalkListed, WalkStates
    <3>5. CASE WalkResume(w)
      <4>1. Dirs \subseteq Paths
        BY OsFsAssumption
      <4> QED
        BY <3>5, <4>1 DEF WalkResume
    <3> QED
      BY <3>2, <3>3, <3>4, <3>5 DEF WalkStep
  <2> QED
    BY <1>1, <2>1, SameMetrics, CheckKeeps DEF Rest
<1>5. Rest'
  BY <1>1, <1>3 DEF Rest, Writes
<1> QED
  BY <1>2, <1>4, <1>5, PartsNext

-----------------------------------------------------------------------------
LEMMA Initially == Init => IInv
<1> SUFFICES ASSUME Init
             PROVE  IInv
  OBVIOUS
<1>1. Rest
  BY OsFsAssumption DEF Init, Rest, TreeOK, Writes, Levels
<1>2. MetricsOK /\ MetricsAgree
  BY DEF Init, NoSkips, MetricsOK, MetricsAgree, Levels, RuleTypes
<1>3. WalksOK
  <2>1. NotStarted \in WalkStates
    BY DEF NotStarted, WalkStates
  <2>2. \A w \in Walks : WalkInv(w, NotStarted)
    BY DEF NotStarted, WalkInv, Tree, Stand, Listing, Ends, Met, Known
  <2> QED
    BY <2>1, <2>2 DEF Init, WalksOK
<1> QED
  BY <1>1, <1>2, <1>3, Parts

LEMMA Inductive == IInv /\ [Next]_vars => IInv'
<1> SUFFICES ASSUME IInv, [Next]_vars
             PROVE  IInv'
  OBVIOUS
<1>1. CASE UNCHANGED vars
  <2>1. UNCHANGED <<layers, metrics, disk, pending, walk, calls, changes>>
    BY <1>1 DEF vars
  <2>2. WalksOK' /\ MetricsOK' /\ MetricsAgree'
    BY <2>1, Parts, SameWalks, SameMetrics
  <2>3. Rest'
    BY <2>1, Parts DEF Rest, Writes
  <2> QED
    BY <2>2, <2>3, PartsNext
<1>2. CASE Next
  <2>1. \/ \E l \in Levels, r \in Rules : FilterAdd(l, r) \/ FilterRemove(l, r)
        \/ FilterInit
        \/ \E b \in BOOLEAN : FilterReset(b)
        \/ OthersChange
        \/ \E p \in Paths : Query(p) \/ Rm(p)
        \/ \E p \in Dirs : Mkdir(p)
        \/ \E p \in Paths \ Dirs : WriteFile(p)
        \/ \E c \in pending : OsActs(c)
        \/ \E w \in Walks : WalkStart(w) \/ WalkStep(w)
    BY <1>2 DEF Next
  <2> QED
    BY <2>1, FilterKeeps, CallKeeps, OsActsKeeps, WalkKeeps
<1> QED
  BY <1>1, <1>2

LEMMA Always == Spec => []IInv
BY Initially, Inductive, PTL DEF Spec

-----------------------------------------------------------------------------
(* The variables keep the kinds of their values, and the tree on disk stays*)
(* a tree.                                                                 *)
THEOREM TypeCorrect == Spec => []TypeOK
<1>1. IInv => TypeOK
  BY DEF IInv
<1> QED
  BY <1>1, Always, PTL

(* The counts of skipped paths by level and by type both sum to their total*)
(* (os_filter_record_skip, os_filter_reset).                               *)
THEOREM CountsAgree == Spec => []MetricsAgree
<1>1. IInv => MetricsAgree
  BY DEF IInv
<1> QED
  BY <1>1, Always, PTL

(* os_fs_walk yields nothing twice, nothing before its directory, and      *)
(* nothing that was all along missing or excluded.                         *)
THEOREM WalksAreSound == Spec => []WalkSound
<1>1. IInv => WalkSound
  BY Ways DEF IInv, WalkSound, WalkInv, Tree, Met, Known
<1> QED
  BY <1>1, Always, PTL

(* A walk that ended missed nothing that was there to see all along.       *)
THEOREM WalksAreComplete == Spec => []WalkComplete
<1>1. IInv => WalkComplete
  <2> SUFFICES ASSUME IInv, NEW w \in Walks, walk[w].pc = "done", NEW p \in Inside(w),
                      Owed(w, walk[w], p)
               PROVE  p \in walk[w].yielded
    BY DEF WalkComplete, Owed
  <2>1. Ends(walk[w]) /\ Covered(w, walk[w])
    BY DEF IInv, WalkInv
  <2> QED
    BY <2>1 DEF Ends, Covered, Ahead, Entering, Entered
<1> QED
  BY <1>1, Always, PTL

(* Both together: a walk is exact for what did not change under it.        *)
THEOREM WalksAreExact == Spec => []WalkExact
BY WalksAreSound, WalksAreComplete, PTL DEF WalkExact
===============================================================================
