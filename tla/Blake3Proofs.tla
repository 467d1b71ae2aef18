------------------------------ MODULE Blake3Proofs ------------------------------
(***************************************************************************)
(* That the incremental hasher of Blake3 computes the hash tree, for every *)
(* size of blocks and chunks, every length of input and every way to cut   *)
(* it up.                                                                  *)
(*                                                                         *)
(* The argument: what a chunk is after n bytes, and what the stack is, are *)
(* functions of n.  A turn of ChunkState.update takes the chunk at m bytes *)
(* to the chunk at some m2 > m, a turn of Blake3Hasher.update the hasher   *)
(* at m to the hasher at some m2 > m, and the roots of k chunks with the   *)
(* output of one more fold to the tree over k + 1.                         *)
(***************************************************************************)
EXTENDS Blake3, SequenceTheorems, WellFoundedInduction, TLAPS

-----------------------------------------------------------------------------
(* Induction, and recursive functions. *)

(* A set of naturals that is not empty has a least element. *)
LEMMA Least ==
    ASSUME NEW T \in SUBSET Nat, T # {}
    PROVE  \E x \in T : \A y \in T : x <= y
<1> DEFINE R == {ss \in Nat \X Nat : ss[1] < ss[2]}
<1>1. IsWellFoundedOn(R, Nat)
  BY NatLessThanWellFounded DEF OpToRel
<1>2. \A x, y \in Nat : y < x => <<y, x>> \in R
  OBVIOUS
<1> HIDE DEF R
<1>3. PICK x \in T : \A y \in T : ~ (<<y, x>> \in R)
  BY <1>1, WFMin
<1>4. ASSUME NEW y \in T
      PROVE  x <= y
  <2>1. x \in Nat /\ y \in Nat /\ ~(<<y, x>> \in R)
    BY <1>3
  <2>2. ~(y < x)
    BY <1>2, <2>1
  <2> QED
    BY <2>1, <2>2
<1> QED
  BY <1>4

(* Induction, of a set instead of a predicate. *)
LEMMA SetInduction ==
    ASSUME NEW S, 0 \in S, \A n \in Nat : n \in S => n + 1 \in S
    PROVE  Nat \subseteq S
<1> DEFINE T == Nat \ S
<1>1. SUFFICES ASSUME T # {}
               PROVE  FALSE
  OBVIOUS
<1>2. PICK x \in T : \A y \in T : x <= y
  BY <1>1, Least
<1>3. x # 0 /\ x - 1 \in Nat
  OBVIOUS
<1>4. x - 1 \in S
  BY <1>2, <1>3
<1> QED
  BY <1>3, <1>4

(* What the recursive definitions of Blake3 say their k-th value is, from  *)
(* the values f before it.                                                 *)
Value(def, f, k) ==
    IF def.what = "pow2" THEN IF k = 0 THEN 1 ELSE 2 * f[k - 1]
    ELSE IF def.what = "update_chunk"
    THEN IF k = 0 THEN [chunk |-> def.of, taken |-> 0] ELSE TakeBlock(f[k - 1], def.input)
    ELSE IF def.what = "update_hasher"
    THEN IF k = 0 THEN [hasher |-> def.of, taken |-> 0] ELSE TakeChunk(f[k - 1], def.input)
    ELSE IF def.what = "add_chunk_chaining_value"
    THEN IF k = 0 THEN [stack |-> def.stack, cv |-> def.cv, chunks |-> def.chunks]
         ELSE Merge(f[k - 1])
    ELSE IF def.what = "Folded"
    THEN IF k = 0 THEN def.of
         ELSE parent_output(def.stack[Len(def.stack) + 1 - k], chaining_value(f[k - 1]))
    ELSE IF def.what = "Chain"
    THEN compress(IF k = 0 THEN IV ELSE f[k - 1], BlockOf(def.of, k, def.n), def.of,
                  Len(BlockOf(def.of, k, def.n)), FlagsOf(def.of, k, def.n))
    ELSE IF def.what = "Subtree"
    THEN [first \in Nat |->
            IF k <= 1 THEN ChunkNode(first, def.n)
            ELSE parent_cv(f[LeftSize(k)][first], f[k - LeftSize(k)][first + LeftSize(k)])]
    ELSE [d \in Nat |->
            IF k = 0 THEN <<>>
            ELSE IF k % 2 = 0 THEN f[k \div 2][d + 1]
            ELSE Append(f[k - 1][d], Subtree((k - 1) * pow2[d], pow2[d], def.n))]

(* A definition is grounded when each value depends on earlier ones only:  *)
(* then there is a function that obeys it, put together from those that    *)
(* obey it up to n.                                                        *)
Grounded(def) ==
    \A k \in Nat : \A f, g :
        (\A j \in 0 .. k - 1 : f[j] = g[j]) => Value(def, f, k) = Value(def, g, k)

Upto(def, f, n) == f = [k \in 0 .. n |-> Value(def, f, k)]

LEMMA UptoAgree ==
    ASSUME NEW def, Grounded(def), NEW f, NEW g, NEW a \in Nat, NEW b \in Nat,
           Upto(def, f, a), Upto(def, g, b), NEW n \in Nat, n <= a, n <= b
    PROVE  f[n] = g[n]
<1> DEFINE S == {m \in Nat : m <= a /\ m <= b => \A j \in 0 .. m : f[j] = g[j]}
<1>1. ASSUME NEW m \in Nat, m <= a, m <= b, \A j \in 0 .. m - 1 : f[j] = g[j]
      PROVE  f[m] = g[m]
  <2>1. f[m] = Value(def, f, m) /\ g[m] = Value(def, g, m)
    <3>1. m \in 0 .. a /\ m \in 0 .. b
      BY <1>1
    <3> QED
      BY <3>1 DEF Upto
  <2>2. Value(def, f, m) = Value(def, g, m)
    BY <1>1 DEF Grounded
  <2> QED
    BY <2>1, <2>2
<1>2. 0 \in S
  <2>1. \A j \in 0 .. 0 - 1 : f[j] = g[j]
    OBVIOUS
  <2>2. 0 <= a /\ 0 <= b
    OBVIOUS
  <2>3. f[0] = g[0]
    BY <1>1, <2>1, <2>2
  <2>4. \A j \in 0 .. 0 : j = 0
    OBVIOUS
  <2> QED
    BY <2>3, <2>4
<1>3. ASSUME NEW m \in Nat, m \in S
      PROVE  m + 1 \in S
  <2> SUFFICES ASSUME m + 1 <= a, m + 1 <= b
               PROVE  \A j \in 0 .. m + 1 : f[j] = g[j]
    OBVIOUS
  <2>1. \A j \in 0 .. m : f[j] = g[j]
    BY <1>3
  <2>2. m + 1 \in Nat /\ (m + 1) - 1 = m
    OBVIOUS
  <2>3. f[m + 1] = g[m + 1]
    BY <1>1, <2>1, <2>2
  <2>4. \A j \in 0 .. m + 1 : j = m + 1 \/ j \in 0 .. m
    OBVIOUS
  <2> QED
    BY <2>1, <2>3, <2>4
<1> HIDE DEF S
<1>4. n \in S
  BY <1>2, <1>3, SetInduction
<1>5. \A j \in 0 .. n : f[j] = g[j]
  BY <1>4 DEF S
<1> QED
  BY <1>5

LEMMA UptoEvery ==
    ASSUME NEW def, Grounded(def), NEW n \in Nat
    PROVE  \E f : Upto(def, f, n)
<1> DEFINE S == {m \in Nat : \E f : Upto(def, f, m)}
<1>1. 0 \in S
  <2> DEFINE f == [k \in 0 .. 0 |-> Value(def, <<>>, 0)]
  <2>1. Value(def, f, 0) = Value(def, <<>>, 0)
    <3>1. \A j \in 0 .. 0 - 1 : f[j] = <<>>[j]
      OBVIOUS
    <3> HIDE DEF f
    <3> QED
      BY <3>1 DEF Grounded
  <2>2. f = [k \in 0 .. 0 |-> Value(def, f, 0)]
    BY <2>1
  <2>3. \A k \in 0 .. 0 : k = 0
    OBVIOUS
  <2> HIDE DEF f
  <2>4. [k \in 0 .. 0 |-> Value(def, f, 0)] = [k \in 0 .. 0 |-> Value(def, f, k)]
    BY <2>3
  <2>5. Upto(def, f, 0)
    BY <2>2, <2>4 DEF Upto
  <2> QED
    BY <2>5
<1>2. ASSUME NEW m \in Nat, m \in S
      PROVE  m + 1 \in S
  <2>1. PICK f : Upto(def, f, m)
    BY <1>2
  <2> DEFINE g == [k \in 0 .. m + 1 |-> IF k <= m THEN f[k] ELSE Value(def, f, m + 1)]
  <2>2. ASSUME NEW k \in 0 .. m + 1
        PROVE  g[k] = Value(def, g, k)
    <3>1. \A j \in 0 .. k - 1 : f[j] = g[j]
      OBVIOUS
    <3>2. g[k] = IF k <= m THEN f[k] ELSE Value(def, f, m + 1)
      OBVIOUS
    <3> HIDE DEF g
    <3>3. Value(def, f, k) = Value(def, g, k)
      BY <3>1 DEF Grounded
    <3>4. CASE k <= m
      <4>1. k \in 0 .. m
        BY <3>4
      <4>2. f[k] = Value(def, f, k)
        BY <2>1, <4>1 DEF Upto
      <4> QED
        BY <3>2, <3>3, <3>4, <4>2
    <3>5. CASE ~(k <= m)
      <4>1. k = m + 1
        BY <3>5
      <4> QED
        BY <3>2, <3>3, <3>5, <4>1
    <3> QED
      BY <3>4, <3>5
  <2>3. g = [k \in 0 .. m + 1 |-> g[k]]
    OBVIOUS
  <2> HIDE DEF g
  <2>4. Upto(def, g, m + 1)
    BY <2>2, <2>3 DEF Upto
  <2> QED
    BY <2>4
<1> HIDE DEF S
<1>3. n \in S
  BY <1>1, <1>2, SetInduction
<1> QED
  BY <1>3 DEF S

LEMMA Recursion ==
    ASSUME NEW def, Grounded(def)
    PROVE  \E f : f = [k \in Nat |-> Value(def, f, k)]
<1> DEFINE G(n) == CHOOSE f : Upto(def, f, n)
           f == [k \in Nat |-> G(k)[k]]
<1>1. ASSUME NEW n \in Nat
      PROVE  Upto(def, G(n), n)
  BY UptoEvery
<1>2. \A k \in Nat : f[k] = G(k)[k]
  OBVIOUS
<1>3. f = [k \in Nat |-> f[k]]
  OBVIOUS
<1> HIDE DEF G, f
<1>4. ASSUME NEW k \in Nat
      PROVE  f[k] = Value(def, f, k)
  <2>1. ASSUME NEW j \in 0 .. k - 1
        PROVE  f[j] = G(k)[j]
    <3>1. j \in Nat /\ j <= j /\ j <= k
      OBVIOUS
    <3>2. G(j)[j] = G(k)[j]
      BY <1>1, <3>1, UptoAgree
    <3> QED
      BY <1>2, <3>1, <3>2
  <2>2. Value(def, f, k) = Value(def, G(k), k)
    BY <2>1 DEF Grounded
  <2>3. k \in 0 .. k
    OBVIOUS
  <2>4. G(k)[k] = Value(def, G(k), k)
    BY <1>1, <2>3 DEF Upto
  <2> QED
    BY <1>2, <2>2, <2>4
<1>5. f = [k \in Nat |-> Value(def, f, k)]
  BY <1>3, <1>4
<1> QED
  BY <1>5

(* So every definition of Blake3 that recurs is a function that obeys it.  *)
LEMMA StepGrounded ==
    ASSUME NEW def, def.what \in {"pow2", "update_chunk", "update_hasher",
                                  "add_chunk_chaining_value", "Folded", "Chain"}
    PROVE  Grounded(def)
<1> SUFFICES ASSUME NEW k \in Nat, NEW f, NEW g, \A j \in 0 .. k - 1 : f[j] = g[j]
             PROVE  Value(def, f, k) = Value(def, g, k)
  BY DEF Grounded
<1>1. k # 0 => k - 1 \in 0 .. k - 1
  OBVIOUS
<1>2. k # 0 => f[k - 1] = g[k - 1]
  BY <1>1
<1> QED
  BY <1>2 DEF Value

LEMMA Pow2Rule ==
    \A e \in Nat : pow2[e] = IF e = 0 THEN 1 ELSE 2 * pow2[e - 1]
<1> DEFINE def == [what |-> "pow2"]
<1>1. PICK f : f = [k \in Nat |-> Value(def, f, k)]
  BY StepGrounded, Recursion
<1>2. f = [e \in Nat |-> IF e = 0 THEN 1 ELSE 2 * f[e - 1]]
  BY <1>1 DEF Value
<1>3. pow2 = [e \in Nat |-> IF e = 0 THEN 1 ELSE 2 * pow2[e - 1]]
  BY <1>2 DEF pow2
<1> QED
  BY <1>3

LEMMA ChainRule ==
    ASSUME NEW k, NEW n, NEW b \in Nat
    PROVE  Chain(k, n)[b] = compress(IF b = 0 THEN IV ELSE Chain(k, n)[b - 1],
                                     BlockOf(k, b, n), k, Len(BlockOf(k, b, n)),
                                     FlagsOf(k, b, n))
<1> DEFINE def == [what |-> "Chain", of |-> k, n |-> n]
<1>1. PICK f : f = [c \in Nat |-> Value(def, f, c)]
  BY StepGrounded, Recursion
<1>2. f = [c \in Nat |-> compress(IF c = 0 THEN IV ELSE f[c - 1], BlockOf(k, c, n), k,
                                  Len(BlockOf(k, c, n)), FlagsOf(k, c, n))]
  BY <1>1 DEF Value
<1> DEFINE chain[c \in Nat] == compress(IF c = 0 THEN IV ELSE chain[c - 1],
                                        BlockOf(k, c, n), k, Len(BlockOf(k, c, n)),
                                        FlagsOf(k, c, n))
<1>3. chain = [c \in Nat |-> compress(IF c = 0 THEN IV ELSE chain[c - 1],
                                      BlockOf(k, c, n), k, Len(BlockOf(k, c, n)),
                                      FlagsOf(k, c, n))]
  BY <1>2
<1>4. Chain(k, n) = chain
  BY DEF Chain
<1> HIDE DEF chain
<1>5. chain[b] = compress(IF b = 0 THEN IV ELSE chain[b - 1], BlockOf(k, b, n), k,
                          Len(BlockOf(k, b, n)), FlagsOf(k, b, n))
  BY <1>3
<1> QED
  BY <1>4, <1>5

(* The turns of each loop. *)
ChunkTurns(turn, c, input) ==
    /\ turn[0] = [chunk |-> c, taken |-> 0]
    /\ \A k \in Nat : turn[k + 1] = TakeBlock(turn[k], input)
    /\ update_chunk(c, input) = turn[Len(input)].chunk

HasherTurns(turn, h, input) ==
    /\ turn[0] = [hasher |-> h, taken |-> 0]
    /\ \A k \in Nat : turn[k + 1] = TakeChunk(turn[k], input)
    /\ update_hasher(h, input) = turn[Len(input)].hasher

MergeTurns(turn, stack, cv, chunks) ==
    /\ turn[0] = [stack |-> stack, cv |-> cv, chunks |-> chunks]
    /\ \A k \in Nat : turn[k + 1] = Merge(turn[k])
    /\ add_chunk_chaining_value(stack, cv, chunks) = Append(turn[chunks].stack, turn[chunks].cv)

FoldTurns(out, o, stack) ==
    /\ out[0] = o
    /\ \A k \in Nat : out[k + 1] = parent_output(stack[Len(stack) + 1 - (k + 1)],
                                                 chaining_value(out[k]))
    /\ Folded(o, stack) = out[Len(stack)]

LEMMA ChunkLoop ==
    ASSUME NEW c, NEW input
    PROVE  \E turn : ChunkTurns(turn, c, input)
<1> DEFINE def == [what |-> "update_chunk", of |-> c, input |-> input]
           turn[k \in Nat] == IF k = 0 THEN [chunk |-> c, taken |-> 0]
                              ELSE TakeBlock(turn[k - 1], input)
<1>1. PICK f : f = [k \in Nat |-> Value(def, f, k)]
  BY StepGrounded, Recursion
<1>2. f = [k \in Nat |-> IF k = 0 THEN [chunk |-> c, taken |-> 0]
                         ELSE TakeBlock(f[k - 1], input)]
  BY <1>1 DEF Value
<1>3. turn = [k \in Nat |-> IF k = 0 THEN [chunk |-> c, taken |-> 0]
                            ELSE TakeBlock(turn[k - 1], input)]
  BY <1>2
<1>4. update_chunk(c, input) = turn[Len(input)].chunk
  BY DEF update_chunk
<1> HIDE DEF turn
<1>5. turn[0] = [chunk |-> c, taken |-> 0]
  BY <1>3
<1>6. \A k \in Nat : k + 1 \in Nat /\ k + 1 # 0 /\ (k + 1) - 1 = k
  OBVIOUS
<1>7. \A k \in Nat : turn[k + 1] = TakeBlock(turn[k], input)
  BY <1>3, <1>6
<1> QED
  BY <1>4, <1>5, <1>7 DEF ChunkTurns

LEMMA HasherLoop ==
    ASSUME NEW h, NEW input
    PROVE  \E turn : HasherTurns(turn, h, input)
<1> DEFINE def == [what |-> "update_hasher", of |-> h, input |-> input]
           turn[k \in Nat] == IF k = 0 THEN [hasher |-> h, taken |-> 0]
                              ELSE TakeChunk(turn[k - 1], input)
<1>1. PICK f : f = [k \in Nat |-> Value(def, f, k)]
  BY StepGrounded, Recursion
<1>2. f = [k \in Nat |-> IF k = 0 THEN [hasher |-> h, taken |-> 0]
                         ELSE TakeChunk(f[k - 1], input)]
  BY <1>1 DEF Value
<1>3. turn = [k \in Nat |-> IF k = 0 THEN [hasher |-> h, taken |-> 0]
                            ELSE TakeChunk(turn[k - 1], input)]
  BY <1>2
<1>4. update_hasher(h, input) = turn[Len(input)].hasher
  BY DEF update_hasher
<1> HIDE DEF turn
<1>5. turn[0] = [hasher |-> h, taken |-> 0]
  BY <1>3
<1>6. \A k \in Nat : k + 1 \in Nat /\ k + 1 # 0 /\ (k + 1) - 1 = k
  OBVIOUS
<1>7. \A k \in Nat : turn[k + 1] = TakeChunk(turn[k], input)
  BY <1>3, <1>6
<1> QED
  BY <1>4, <1>5, <1>7 DEF HasherTurns

LEMMA MergeLoop ==
    ASSUME NEW stack, NEW cv, NEW chunks
    PROVE  \E turn : MergeTurns(turn, stack, cv, chunks)
<1> DEFINE def == [what |-> "add_chunk_chaining_value",
                   stack |-> stack, cv |-> cv, chunks |-> chunks]
           turn[k \in Nat] == IF k = 0 THEN [stack |-> stack, cv |-> cv, chunks |-> chunks]
                              ELSE Merge(turn[k - 1])
<1>1. PICK f : f = [k \in Nat |-> Value(def, f, k)]
  BY StepGrounded, Recursion
<1>2. f = [k \in Nat |-> IF k = 0 THEN [stack |-> stack, cv |-> cv, chunks |-> chunks]
                         ELSE Merge(f[k - 1])]
  BY <1>1 DEF Value
<1>3. turn = [k \in Nat |-> IF k = 0 THEN [stack |-> stack, cv |-> cv, chunks |-> chunks]
                            ELSE Merge(turn[k - 1])]
  BY <1>2
<1>4. add_chunk_chaining_value(stack, cv, chunks)
        = Append(turn[chunks].stack, turn[chunks].cv)
  BY DEF add_chunk_chaining_value
<1> HIDE DEF turn
<1>5. turn[0] = [stack |-> stack, cv |-> cv, chunks |-> chunks]
  BY <1>3
<1>6. \A k \in Nat : k + 1 \in Nat /\ k + 1 # 0 /\ (k + 1) - 1 = k
  OBVIOUS
<1>7. \A k \in Nat : turn[k + 1] = Merge(turn[k])
  BY <1>3, <1>6
<1> QED
  BY <1>4, <1>5, <1>7 DEF MergeTurns

LEMMA FoldLoop ==
    ASSUME NEW o, NEW stack
    PROVE  \E out : FoldTurns(out, o, stack)
<1> DEFINE def == [what |-> "Folded", of |-> o, stack |-> stack]
           out[k \in Nat] == IF k = 0 THEN o
                             ELSE parent_output(stack[Len(stack) + 1 - k],
                                                chaining_value(out[k - 1]))
<1>1. PICK f : f = [k \in Nat |-> Value(def, f, k)]
  BY StepGrounded, Recursion
<1>2. f = [k \in Nat |-> IF k = 0 THEN o
                         ELSE parent_output(stack[Len(stack) + 1 - k],
                                            chaining_value(f[k - 1]))]
  BY <1>1 DEF Value
<1>3. out = [k \in Nat |-> IF k = 0 THEN o
                           ELSE parent_output(stack[Len(stack) + 1 - k],
                                              chaining_value(out[k - 1]))]
  BY <1>2
<1>4. Folded(o, stack) = out[Len(stack)]
  BY DEF Folded
<1> HIDE DEF out
<1>5. out[0] = o
  BY <1>3
<1>6. ASSUME NEW k \in Nat
      PROVE  out[k + 1] = parent_output(stack[Len(stack) + 1 - (k + 1)],
                                        chaining_value(out[k]))
  <2>1. k + 1 \in Nat /\ k + 1 # 0 /\ (k + 1) - 1 = k
    OBVIOUS
  <2> QED
    BY <1>3, <2>1
<1> QED
  BY <1>4, <1>5, <1>6 DEF FoldTurns

-----------------------------------------------------------------------------
(* The shape of the tree. *)

(* Powers of two. *)
LEMMA Pow2Facts ==
    /\ pow2[0] = 1
    /\ \A e \in Nat : /\ pow2[e] \in Nat \ {0}
                      /\ pow2[e + 1] = 2 * pow2[e]
                      /\ e < pow2[e]
<1> DEFINE S == {e \in Nat : pow2[e] \in Nat \ {0} /\ e < pow2[e]}
<1>1. pow2[0] = 1
  BY Pow2Rule
<1>2. ASSUME NEW e \in Nat
      PROVE  pow2[e + 1] = 2 * pow2[e]
  <2>1. e + 1 \in Nat /\ e + 1 # 0 /\ (e + 1) - 1 = e
    OBVIOUS
  <2> QED
    BY <2>1, Pow2Rule
<1>3. ASSUME NEW e \in Nat, e \in S
      PROVE  e + 1 \in S
  BY <1>2, <1>3
<1>4. 0 \in S
  BY <1>1
<1> HIDE DEF S
<1>5. Nat \subseteq S
  BY <1>3, <1>4, SetInduction
<1> QED
  BY <1>1, <1>2, <1>5 DEF S

LEMMA Pow2Apart ==
    ASSUME NEW a \in Nat, NEW b \in Nat, a < b
    PROVE  2 * pow2[a] <= pow2[b]
<1> DEFINE S == {n \in Nat : a < n => 2 * pow2[a] <= pow2[n]}
<1>1. 0 \in S
  OBVIOUS
<1>2. ASSUME NEW n \in Nat, n \in S
      PROVE  n + 1 \in S
  <2>1. pow2[a] \in Nat /\ pow2[n] \in Nat /\ pow2[n + 1] = 2 * pow2[n]
    BY Pow2Facts
  <2>2. CASE a < n
    BY <1>2, <2>1, <2>2
  <2>3. CASE a = n
    BY <2>1, <2>3
  <2>4. CASE ~(a < n + 1)
    BY <2>4
  <2> QED
    BY <2>2, <2>3, <2>4
<1> HIDE DEF S
<1>3. b \in S
  BY <1>1, <1>2, SetInduction
<1> QED
  BY <1>3 DEF S

(* The width of a left subtree. *)
LEMMA LeftSizeIs ==
    ASSUME NEW e \in Nat, NEW m \in Nat, pow2[e] < m, m <= 2 * pow2[e]
    PROVE  LeftSize(m) = pow2[e]
<1> DEFINE P == {p \in {pow2[d] : d \in 0 .. m} : p < m}
<1>1. pow2[e] \in P
  <2>1. e \in 0 .. m
    BY Pow2Facts
  <2> QED
    BY <2>1
<1>2. ASSUME NEW p \in P
      PROVE  p <= pow2[e] /\ p \in Nat
  <2>1. PICK d \in 0 .. m : p = pow2[d] /\ p < m
    OBVIOUS
  <2>2. p \in Nat /\ pow2[e] \in Nat /\ d \in Nat
    BY <2>1, Pow2Facts
  <2>3. ~(e < d)
    <3>1. e < d => 2 * pow2[e] <= pow2[d]
      BY <2>2, Pow2Apart
    <3> QED
      BY <2>1, <2>2, <3>1
  <2>4. d < e => 2 * pow2[d] <= pow2[e]
    BY <2>2, Pow2Apart
  <2>5. d < e \/ d = e
    BY <2>2, <2>3
  <2> QED
    BY <2>1, <2>2, <2>4, <2>5
<1>3. LeftSize(m) = CHOOSE x \in P : \A y \in P : x >= y
  BY DEF LeftSize, Max
<1> HIDE DEF P
<1>4. pow2[e] \in Nat
  BY Pow2Facts
<1>5. \A y \in P : pow2[e] >= y
  BY <1>2, <1>4
<1>6. LeftSize(m) \in P /\ \A y \in P : LeftSize(m) >= y
  BY <1>1, <1>3, <1>5
<1>7. LeftSize(m) <= pow2[e] /\ LeftSize(m) \in Nat /\ LeftSize(m) >= pow2[e]
  BY <1>1, <1>2, <1>6
<1> QED
  BY <1>4, <1>7

LEMMA LeftSizeFits ==
    ASSUME NEW m \in Nat, m >= 2
    PROVE  \E e \in Nat : pow2[e] < m /\ m <= 2 * pow2[e] /\ LeftSize(m) = pow2[e]
<1> DEFINE S == {n \in Nat : n >= 2 => \E e \in Nat : pow2[e] < n /\ n <= 2 * pow2[e]}
<1>1. 0 \in S
  OBVIOUS
<1>2. ASSUME NEW n \in Nat, n \in S
      PROVE  n + 1 \in S
  <2> SUFFICES ASSUME n + 1 >= 2
               PROVE  \E e \in Nat : pow2[e] < n + 1 /\ n + 1 <= 2 * pow2[e]
    OBVIOUS
  <2>1. CASE n = 1
    <3>1. pow2[0] < n + 1 /\ n + 1 <= 2 * pow2[0]
      BY <2>1, Pow2Facts
    <3> QED
      BY <3>1
  <2>2. CASE n >= 2
    <3>1. PICK e \in Nat : pow2[e] < n /\ n <= 2 * pow2[e]
      BY <1>2, <2>2
    <3>2. pow2[e] \in Nat /\ pow2[e + 1] = 2 * pow2[e] /\ e + 1 \in Nat
      BY <3>1, Pow2Facts
    <3>3. CASE n + 1 <= 2 * pow2[e]
      BY <3>1, <3>2, <3>3
    <3>4. CASE n = 2 * pow2[e]
      <4>1. pow2[e + 1] < n + 1 /\ n + 1 <= 2 * pow2[e + 1]
        BY <2>2, <3>2, <3>4
      <4> QED
        BY <3>2, <4>1
    <3> QED
      BY <3>1, <3>2, <3>3, <3>4
  <2> QED
    BY <2>1, <2>2
<1> HIDE DEF S
<1>3. m \in S
  BY <1>1, <1>2, SetInduction
<1>4. PICK e \in Nat : pow2[e] < m /\ m <= 2 * pow2[e]
  BY <1>3 DEF S
<1> QED
  BY <1>4, LeftSizeIs

LEMMA SubtreeRule ==
    ASSUME NEW n, NEW m \in Nat, NEW first \in Nat
    PROVE  Subtree(first, m, n)
             = IF m <= 1 THEN ChunkNode(first, n)
               ELSE parent_cv(Subtree(first, LeftSize(m), n),
                              Subtree(first + LeftSize(m), m - LeftSize(m), n))
<1> DEFINE def == [what |-> "Subtree", n |-> n]
           Node(f, w) == [i \in Nat |-> IF w <= 1 THEN ChunkNode(i, n)
                                        ELSE parent_cv(f[LeftSize(w)][i],
                                                       f[w - LeftSize(w)][i + LeftSize(w)])]
<1>1. ASSUME NEW w \in Nat, ~(w <= 1)
      PROVE  /\ LeftSize(w) \in 0 .. w - 1 /\ w - LeftSize(w) \in 0 .. w - 1
             /\ LeftSize(w) \in Nat /\ w - LeftSize(w) \in Nat
  <2>1. PICK e \in Nat : pow2[e] < w /\ LeftSize(w) = pow2[e]
    BY <1>1, LeftSizeFits
  <2>2. pow2[e] \in Nat \ {0}
    BY Pow2Facts
  <2> QED
    BY <2>1, <2>2
<1>2. Grounded(def)
  <2> SUFFICES ASSUME NEW w \in Nat, NEW f, NEW g, \A j \in 0 .. w - 1 : f[j] = g[j]
               PROVE  Value(def, f, w) = Value(def, g, w)
    BY DEF Grounded
  <2>1. Value(def, f, w) = Node(f, w) /\ Value(def, g, w) = Node(g, w)
    BY DEF Value
  <2>2. ~(w <= 1) => f[LeftSize(w)] = g[LeftSize(w)] /\ f[w - LeftSize(w)] = g[w - LeftSize(w)]
    BY <1>1
  <2>3. Node(f, w) = Node(g, w)
    BY <2>2
  <2> QED
    BY <2>1, <2>3
<1>3. PICK f : f = [w \in Nat |-> Value(def, f, w)]
  BY <1>2, Recursion
<1>4. f = [w \in Nat |-> Node(f, w)]
  BY <1>3 DEF Value
<1> DEFINE node[w \in Nat] == Node(node, w)
<1>5. node = [w \in Nat |-> Node(node, w)]
  BY <1>4
<1>6. \A w, i : Subtree(i, w, n) = node[w][i]
  BY DEF Subtree
<1> HIDE DEF node
<1>7. node[m] = Node(node, m)
  <2> HIDE DEF Node
  <2> QED
    BY <1>5
<1>8. Node(node, m)[first]
        = IF m <= 1 THEN ChunkNode(first, n)
          ELSE parent_cv(node[LeftSize(m)][first], node[m - LeftSize(m)][first + LeftSize(m)])
  OBVIOUS
<1> HIDE DEF Node
<1> QED
  BY <1>6, <1>7, <1>8

LEMMA RootsRule ==
    ASSUME NEW n, NEW q \in Nat, NEW d \in Nat
    PROVE  Roots(q, d, n)
             = IF q = 0 THEN <<>>
               ELSE IF q % 2 = 0 THEN Roots(q \div 2, d + 1, n)
               ELSE Append(Roots(q - 1, d, n), Subtree((q - 1) * pow2[d], pow2[d], n))
<1> DEFINE def == [what |-> "Roots", n |-> n]
           Row(f, k) == [i \in Nat |->
                           IF k = 0 THEN <<>>
                           ELSE IF k % 2 = 0 THEN f[k \div 2][i + 1]
                           ELSE Append(f[k - 1][i], Subtree((k - 1) * pow2[i], pow2[i], n))]
<1>1. Grounded(def)
  <2> SUFFICES ASSUME NEW k \in Nat, NEW f, NEW g, \A j \in 0 .. k - 1 : f[j] = g[j]
               PROVE  Value(def, f, k) = Value(def, g, k)
    BY DEF Grounded
  <2>1. Value(def, f, k) = Row(f, k) /\ Value(def, g, k) = Row(g, k)
    BY DEF Value
  <2>2. k # 0 => k - 1 \in 0 .. k - 1 /\ k \div 2 \in 0 .. k - 1
    OBVIOUS
  <2>3. k # 0 => f[k - 1] = g[k - 1] /\ f[k \div 2] = g[k \div 2]
    BY <2>2
  <2>4. CASE k = 0
    BY <2>1, <2>4
  <2>5. CASE k # 0
    <3>1. Row(f, k) = Row(g, k)
      BY <2>3, <2>5
    <3> QED
      BY <2>1, <3>1
  <2> QED
    BY <2>4, <2>5
<1>2. PICK f : f = [k \in Nat |-> Value(def, f, k)]
  BY <1>1, Recursion
<1>3. f = [k \in Nat |-> Row(f, k)]
  BY <1>2 DEF Value
<1> DEFINE roots[k \in Nat] == Row(roots, k)
<1>4. roots = [k \in Nat |-> Row(roots, k)]
  BY <1>3
<1>5. \A k, i : Roots(k, i, n) = roots[k][i]
  BY DEF Roots
<1> HIDE DEF roots
<1>6. roots[q] = Row(roots, q)
  <2> HIDE DEF Row
  <2> QED
    BY <1>4
<1>7. Row(roots, q)[d]
        = IF q = 0 THEN <<>>
          ELSE IF q % 2 = 0 THEN roots[q \div 2][d + 1]
          ELSE Append(roots[q - 1][d], Subtree((q - 1) * pow2[d], pow2[d], n))
  OBVIOUS
<1> HIDE DEF Row
<1> QED
  BY <1>5, <1>6, <1>7

(* The rule for even numbers holds of 0 as well. *)
LEMMA RootsDouble ==
    ASSUME NEW n, NEW q \in Nat, NEW d \in Nat
    PROVE  Roots(2 * q, d, n) = Roots(q, d + 1, n)
<1>1. CASE q = 0
  <2>1. 2 * q = 0 /\ d + 1 \in Nat
    BY <1>1
  <2>2. Roots(2 * q, d, n) = <<>>
    BY <2>1, RootsRule
  <2>3. Roots(q, d + 1, n) = <<>>
    BY <1>1, <2>1, RootsRule
  <2> QED
    BY <2>2, <2>3
<1>2. CASE q # 0
  <2>1. 2 * q \in Nat /\ 2 * q # 0 /\ (2 * q) % 2 = 0 /\ (2 * q) \div 2 = q
    BY <1>2
  <2> QED
    BY <2>1, RootsRule
<1> QED
  BY <1>1, <1>2

LEMMA RootsOdd ==
    ASSUME NEW n, NEW q \in Nat, NEW d \in Nat
    PROVE  Roots(2 * q + 1, d, n)
             = Append(Roots(2 * q, d, n), Subtree(2 * q * pow2[d], pow2[d], n))
<1>1. ASSUME NEW r \in Nat, r # 0, r % 2 # 0
      PROVE  Roots(r, d, n) = Append(Roots(r - 1, d, n), Subtree((r - 1) * pow2[d], pow2[d], n))
  BY <1>1, RootsRule
<1> DEFINE r == 2 * q + 1
<1>2. r \in Nat /\ r # 0 /\ r % 2 # 0 /\ r - 1 = 2 * q
  OBVIOUS
<1> HIDE DEF r
<1>3. Roots(r, d, n) = Append(Roots(2 * q, d, n), Subtree(2 * q * pow2[d], pow2[d], n))
  BY <1>1, <1>2
<1> QED
  BY <1>3 DEF r

LEMMA HalfOf ==
    ASSUME NEW q \in Nat
    PROVE  \E h \in Nat : /\ q = 2 * h \/ q = 2 * h + 1
                          /\ h <= q
                          /\ q # 0 => h < q
<1>1. q \div 2 \in Nat /\ q = 2 * (q \div 2) + (q % 2) /\ q % 2 \in {0, 1}
  OBVIOUS
<1> QED
  BY <1>1

-----------------------------------------------------------------------------
(* The stack. *)

(* Arithmetic that is not linear, one law at a time. *)
LEMMA Products ==
    \A a, b, c \in Nat : /\ a * b \in Nat
                        /\ (a + b) * c = a * c + b * c
                        /\ (a * b) * c = a * (b * c)
OBVIOUS

(* What the stack holds. *)
Nodes(n) == {Subtree(f, m, n) : f \in Nat, m \in Nat}

LEMMA RootsType ==
    ASSUME NEW n, NEW q \in Nat, NEW d \in Nat
    PROVE  Roots(q, d, n) \in Seq(Nodes(n))
<1> DEFINE Good(j) == \A i \in Nat : Roots(j, i, n) \in Seq(Nodes(n))
           S == {k \in Nat : \A j \in 0 .. k : Good(j)}
<1>1. \A i \in Nat : Roots(0, i, n) = <<>>
  BY RootsRule
<1>2. 0 \in S
  <2>1. Good(0)
    <3>1. <<>> \in Seq(Nodes(n))
      OBVIOUS
    <3> QED
      BY <1>1, <3>1
  <2>2. \A j \in 0 .. 0 : j = 0
    OBVIOUS
  <2> HIDE DEF Good
  <2> QED
    BY <2>1, <2>2
<1>3. ASSUME NEW k \in Nat, k \in S
      PROVE  k + 1 \in S
  <2> SUFFICES ASSUME NEW i \in Nat
               PROVE  Roots(k + 1, i, n) \in Seq(Nodes(n))
    <3>1. \A j \in 0 .. k + 1 : j = k + 1 \/ j \in 0 .. k
      OBVIOUS
    <3>2. SUFFICES Good(k + 1)
      <4> HIDE DEF Good
      <4> QED
        BY <1>3, <3>1, <3>2
    <3> QED
      OBVIOUS
  <2>1. PICK h \in Nat : k + 1 = 2 * h \/ k + 1 = 2 * h + 1
    <3>1. k + 1 \in Nat
      OBVIOUS
    <3> QED
      BY <3>1, HalfOf
  <2>2. h \in 0 .. k \/ k + 1 = 1
    BY <2>1
  <2>3. CASE k + 1 = 2 * h
    <3>1. h \in 0 .. k /\ i + 1 \in Nat
      BY <2>3
    <3>2. Roots(h, i + 1, n) \in Seq(Nodes(n))
      BY <1>3, <3>1
    <3>3. Roots(2 * h, i, n) = Roots(h, i + 1, n)
      BY RootsDouble
    <3> QED
      BY <2>3, <3>2, <3>3
  <2>4. CASE k + 1 = 2 * h + 1
    <3>1. k = 2 * h /\ k \in 0 .. k
      BY <2>4
    <3>2. Roots(k, i, n) \in Seq(Nodes(n))
      BY <1>3, <3>1
    <3>3. Roots(k + 1, i, n) = Append(Roots(k, i, n), Subtree(2 * h * pow2[i], pow2[i], n))
      BY <2>4, <3>1, RootsOdd
    <3>4. Subtree(2 * h * pow2[i], pow2[i], n) \in Nodes(n)
      <4>1. pow2[i] \in Nat /\ 2 * h * pow2[i] \in Nat
        BY Pow2Facts, Products
      <4> QED
        BY <4>1 DEF Nodes
    <3> QED
      BY <3>2, <3>3, <3>4
  <2> QED
    BY <2>1, <2>3, <2>4
<1> HIDE DEF S
<1>4. q \in S
  BY <1>2, <1>3, SetInduction
<1>5. q \in 0 .. q
  OBVIOUS
<1> QED
  BY <1>4, <1>5 DEF S

LEMMA TopOf ==
    ASSUME NEW T, NEW s \in Seq(T), NEW x \in T
    PROVE  Front(Append(s, x)) = s /\ Last(Append(s, x)) = x
<1>1. Len(Append(s, x)) = Len(s) + 1
  OBVIOUS
<1>2. Append(s, x)[Len(s) + 1] = x
  OBVIOUS
<1>3. SubSeq(Append(s, x), 1, Len(s)) = s
  <2>1. Len(s) \in Nat /\ Append(s, x) \in Seq(T)
    OBVIOUS
  <2> QED
    BY <2>1
<1>4. (Len(s) + 1) - 1 = Len(s)
  OBVIOUS
<1> QED
  BY <1>1, <1>2, <1>3, <1>4 DEF Front, Last

(* Two complete subtrees of the same width make one of twice the width. *)
LEMMA Twins ==
    ASSUME NEW n, NEW e \in Nat, NEW h \in Nat
    PROVE  Subtree(h * pow2[e + 1], pow2[e + 1], n)
             = parent_cv(Subtree(2 * h * pow2[e], pow2[e], n),
                         Subtree((2 * h + 1) * pow2[e], pow2[e], n))
<1> DEFINE p == pow2[e]
           first == h * pow2[e + 1]
<1>1. p \in Nat \ {0} /\ pow2[e + 1] = 2 * p /\ e + 1 \in Nat
  BY Pow2Facts
<1>2. LeftSize(2 * p) = p
  BY <1>1, LeftSizeIs
<1>3. first \in Nat /\ first = 2 * h * p
  <2>1. first = h * (2 * p) /\ h * (2 * p) = (h * 2) * p /\ h * 2 = 2 * h
    BY <1>1, Products
  <2> QED
    BY <1>1, <2>1, Products
<1>4. (2 * h + 1) * p = first + p /\ 2 * p - p = p /\ ~(2 * p <= 1) /\ 2 * p \in Nat
  <2>1. 2 * h \in Nat /\ 1 * p = p
    BY <1>1
  <2>2. (2 * h + 1) * p = 2 * h * p + 1 * p
    BY <1>1, <2>1, Products
  <2> QED
    BY <1>1, <1>3, <2>1, <2>2
<1> HIDE DEF p, first
<1>5. Subtree(first, 2 * p, n)
        = parent_cv(Subtree(first, p, n), Subtree(first + p, p, n))
  <2>1. Subtree(first, 2 * p, n)
          = IF 2 * p <= 1 THEN ChunkNode(first, n)
            ELSE parent_cv(Subtree(first, LeftSize(2 * p), n),
                           Subtree(first + LeftSize(2 * p), 2 * p - LeftSize(2 * p), n))
    BY <1>3, <1>4, SubtreeRule
  <2> QED
    BY <1>2, <1>4, <2>1
<1> QED
  BY <1>1, <1>3, <1>4, <1>5 DEF first, p

(* A closed chunk joins the stack. *)
LEMMA MergeExact ==
    ASSUME NEW n, NEW m \in Nat
    PROVE  add_chunk_chaining_value(Roots(m, 0, n), ChunkNode(m, n), m + 1)
             = Roots(m + 1, 0, n)
<1> DEFINE old == Roots(m, 0, n)
           new == ChunkNode(m, n)
           State(q, e) == [stack |-> Roots(q - 1, e, n),
                           cv |-> Subtree((q - 1) * pow2[e], pow2[e], n), chunks |-> q]
<1>0. PICK turn : MergeTurns(turn, old, new, m + 1)
  BY MergeLoop
<1>1. /\ turn[0] = [stack |-> old, cv |-> new, chunks |-> m + 1]
      /\ \A k \in Nat : turn[k + 1] = Merge(turn[k])
      /\ add_chunk_chaining_value(old, new, m + 1)
           = Append(turn[m + 1].stack, turn[m + 1].cv)
  BY <1>0 DEF MergeTurns
<1> DEFINE S == {j \in Nat : \E q \in Nat \ {0} : \E e \in Nat :
                    /\ turn[j] = State(q, e)
                    /\ Roots(q, e, n) = Roots(m + 1, 0, n)
                    /\ (\E h \in Nat : q = 2 * h + 1) \/ q + j <= m + 1}
<1>2. 0 \in S
  <2>1. turn[0] = State(m + 1, 0)
    <3>1. (m + 1) - 1 = m /\ m * pow2[0] = m /\ pow2[0] = 1
      BY Pow2Facts
    <3>2. Subtree(m, 1, n) = ChunkNode(m, n)
      BY SubtreeRule
    <3> QED
      BY <1>1, <3>1, <3>2
  <2>2. m + 1 \in Nat \ {0} /\ (m + 1) + 0 <= m + 1
    OBVIOUS
  <2> HIDE DEF State
  <2> QED
    BY <2>1, <2>2
<1>3. ASSUME NEW j \in Nat, j \in S
      PROVE  j + 1 \in S
  <2>1. PICK q \in Nat \ {0}, e \in Nat :
               /\ turn[j] = State(q, e)
               /\ Roots(q, e, n) = Roots(m + 1, 0, n)
               /\ (\E h \in Nat : q = 2 * h + 1) \/ q + j <= m + 1
    BY <1>3
  <2>2. turn[j + 1] = Merge(State(q, e))
    BY <1>1, <2>1
  <2>3. CASE \E h \in Nat : q = 2 * h + 1
    <3>1. q % 2 = 1
      BY <2>3
    <3>2. Merge(State(q, e)) = State(q, e)
      BY <3>1 DEF Merge
    <3> HIDE DEF State
    <3> QED
      BY <2>1, <2>2, <2>3, <3>2
  <2>4. CASE ~(\E h \in Nat : q = 2 * h + 1)
    <3>1. PICK h \in Nat : q = 2 * h
      BY <2>4, HalfOf
    <3>2. h - 1 \in Nat /\ q - 1 = 2 * (h - 1) + 1 /\ q % 2 # 1 /\ q \div 2 = h /\ e + 1 \in Nat
      BY <3>1
    <3> DEFINE left == Subtree(2 * (h - 1) * pow2[e], pow2[e], n)
               below == Roots(h - 1, e + 1, n)
    <3>3. Roots(q - 1, e, n) = Append(below, left)
      <4>1. Roots(2 * (h - 1) + 1, e, n) = Append(Roots(2 * (h - 1), e, n), left)
        BY <3>2, RootsOdd
      <4>2. Roots(2 * (h - 1), e, n) = below
        BY <3>2, RootsDouble
      <4> QED
        BY <3>2, <4>1, <4>2
    <3>4. Front(Roots(q - 1, e, n)) = below /\ Last(Roots(q - 1, e, n)) = left
      <4>1. below \in Seq(Nodes(n))
        BY <3>2, RootsType
      <4>2. left \in Nodes(n)
        <5>1. pow2[e] \in Nat /\ 2 * (h - 1) * pow2[e] \in Nat
          BY <3>2, Pow2Facts, Products
        <5> QED
          BY <5>1 DEF Nodes
      <4> HIDE DEF below, left
      <4>3. Front(Append(below, left)) = below /\ Last(Append(below, left)) = left
        BY <4>1, <4>2, TopOf
      <4> QED
        BY <3>3, <4>3
    <3>5. parent_cv(left, Subtree((q - 1) * pow2[e], pow2[e], n))
            = Subtree((h - 1) * pow2[e + 1], pow2[e + 1], n)
      <4>1. Subtree((h - 1) * pow2[e + 1], pow2[e + 1], n)
              = parent_cv(left, Subtree((2 * (h - 1) + 1) * pow2[e], pow2[e], n))
        BY <3>2, Twins
      <4> QED
        BY <3>2, <4>1
    <3>6. Merge(State(q, e))
            = [stack |-> below, cv |-> Subtree((h - 1) * pow2[e + 1], pow2[e + 1], n),
               chunks |-> h]
      <4> HIDE DEF below, left
      <4> QED
        BY <3>2, <3>4, <3>5 DEF Merge
    <3>7. turn[j + 1] = State(h, e + 1)
      BY <2>2, <3>6
    <3>8. Roots(h, e + 1, n) = Roots(m + 1, 0, n)
      BY <2>1, <3>1, RootsDouble
    <3>9. h \in Nat \ {0} /\ h + (j + 1) <= m + 1
      BY <2>1, <2>4, <3>1, <3>2
    <3> HIDE DEF State
    <3> QED
      BY <3>2, <3>7, <3>8, <3>9
  <2> QED
    BY <2>3, <2>4
<1>4. PICK q \in Nat \ {0}, e \in Nat :
             /\ turn[m + 1] = State(q, e)
             /\ Roots(q, e, n) = Roots(m + 1, 0, n)
             /\ (\E h \in Nat : q = 2 * h + 1) \/ q + (m + 1) <= m + 1
  <2> HIDE DEF State
  <2>1. \A j \in S : \E q \in Nat \ {0}, e \in Nat :
             /\ turn[j] = State(q, e)
             /\ Roots(q, e, n) = Roots(m + 1, 0, n)
             /\ (\E h \in Nat : q = 2 * h + 1) \/ q + j <= m + 1
    OBVIOUS
  <2> HIDE DEF S
  <2>2. m + 1 \in S
    BY <1>2, <1>3, SetInduction
  <2> QED
    BY <2>1, <2>2
<1>5. PICK h \in Nat : q = 2 * h + 1
  BY <1>4
<1>6. q - 1 = 2 * h
  BY <1>5
<1>7. Append(turn[m + 1].stack, turn[m + 1].cv) = Roots(q, e, n)
  <2>1. Roots(2 * h + 1, e, n) = Append(Roots(2 * h, e, n), Subtree(2 * h * pow2[e], pow2[e], n))
    BY RootsOdd
  <2> HIDE DEF S
  <2> QED
    BY <1>4, <1>5, <1>6, <2>1
<1> QED
  BY <1>1, <1>4, <1>7

(* The stack is folded from its top. *)
LEMMA FoldNone ==
    ASSUME NEW o
    PROVE  Folded(o, <<>>) = o
<1>1. PICK out : FoldTurns(out, o, <<>>)
  BY FoldLoop
<1>2. Len(<<>>) = 0
  OBVIOUS
<1> QED
  BY <1>1, <1>2 DEF FoldTurns

LEMMA FoldTop ==
    ASSUME NEW T, NEW stack \in Seq(T), NEW x \in T, NEW o
    PROVE  Folded(o, Append(stack, x)) = Folded(parent_output(x, chaining_value(o)), stack)
<1> DEFINE longer == Append(stack, x)
           joined == parent_output(x, chaining_value(o))
           size == Len(stack)
<1>1. PICK out : FoldTurns(out, o, longer)
  BY FoldLoop
<1>2. PICK rest : FoldTurns(rest, joined, stack)
  BY FoldLoop
<1>3. /\ size \in Nat /\ Len(longer) = size + 1
      /\ longer[size + 1] = x
      /\ \A i \in 1 .. size : longer[i] = stack[i]
  OBVIOUS
<1> DEFINE S == {k \in Nat : k <= size => out[k + 1] = rest[k]}
<1>4. 0 \in S
  <2>1. out[0 + 1] = parent_output(longer[Len(longer) + 1 - (0 + 1)], chaining_value(out[0]))
    BY <1>1 DEF FoldTurns
  <2>2. Len(longer) + 1 - (0 + 1) = size + 1
    BY <1>3
  <2>3. out[0] = o /\ rest[0] = joined
    BY <1>1, <1>2 DEF FoldTurns
  <2>4. out[0 + 1] = joined
    <3> HIDE DEF longer, size
    <3> QED
      BY <1>3, <2>1, <2>2, <2>3
  <2> HIDE DEF joined
  <2> QED
    BY <2>3, <2>4
<1>5. ASSUME NEW k \in Nat, k \in S
      PROVE  k + 1 \in S
  <2> SUFFICES ASSUME k + 1 <= size
               PROVE  out[(k + 1) + 1] = rest[k + 1]
    OBVIOUS
  <2>1. k + 1 \in Nat /\ k <= size
    BY <1>3
  <2>2. out[(k + 1) + 1]
          = parent_output(longer[Len(longer) + 1 - ((k + 1) + 1)], chaining_value(out[k + 1]))
    BY <1>1, <2>1 DEF FoldTurns
  <2>3. rest[k + 1] = parent_output(stack[Len(stack) + 1 - (k + 1)], chaining_value(rest[k]))
    BY <1>2 DEF FoldTurns
  <2>4. out[k + 1] = rest[k]
    BY <1>5, <2>1
  <2>5. /\ Len(longer) + 1 - ((k + 1) + 1) = size - k
        /\ Len(stack) + 1 - (k + 1) = size - k
        /\ size - k \in 1 .. size
    BY <1>3
  <2>6. longer[size - k] = stack[size - k]
    BY <1>3, <2>5
  <2> HIDE DEF longer, size
  <2> QED
    BY <2>2, <2>3, <2>4, <2>5, <2>6
<1> HIDE DEF S
<1>6. size \in S
  BY <1>3, <1>4, <1>5, SetInduction
<1>7. out[size + 1] = rest[size]
  BY <1>3, <1>6 DEF S
<1>8. Folded(o, longer) = out[Len(longer)] /\ Folded(joined, stack) = rest[size]
  BY <1>1, <1>2 DEF FoldTurns
<1> HIDE DEF longer, joined
<1>9. Folded(o, longer) = Folded(joined, stack)
  BY <1>3, <1>7, <1>8
<1> QED
  BY <1>9 DEF longer, joined

(* Folding the roots below a subtree makes the tree of everything. *)
LEMMA FoldExact ==
    ASSUME NEW n, NEW q \in Nat, NEW e \in Nat, NEW w \in Nat, 1 <= w, w <= pow2[e], NEW o,
           chaining_value(o) = Subtree(q * pow2[e], w, n)
    PROVE  chaining_value(Folded(o, Roots(q, e, n))) = Subtree(0, q * pow2[e] + w, n)
<1> DEFINE Good(k) ==
             \A i, v \in Nat : \A s :
               /\ 1 <= v /\ v <= pow2[i]
               /\ chaining_value(s) = Subtree(k * pow2[i], v, n)
               => chaining_value(Folded(s, Roots(k, i, n))) = Subtree(0, k * pow2[i] + v, n)
           S == {k \in Nat : \A j \in 0 .. k : Good(j)}
<1>1. Good(0)
  <2> SUFFICES ASSUME NEW i \in Nat, NEW v \in Nat, NEW s, 1 <= v,
                      chaining_value(s) = Subtree(0 * pow2[i], v, n)
               PROVE  chaining_value(Folded(s, Roots(0, i, n))) = Subtree(0, 0 * pow2[i] + v, n)
    OBVIOUS
  <2>1. pow2[i] \in Nat
    BY Pow2Facts
  <2>2. 0 * pow2[i] = 0 /\ 0 * pow2[i] + v = v
    BY <2>1
  <2>3. Roots(0, i, n) = <<>>
    BY RootsRule
  <2> QED
    BY <2>2, <2>3, FoldNone
<1>2. ASSUME NEW h \in Nat, NEW k \in Nat, k = 2 * h \/ k = 2 * h + 1, Good(h)
      PROVE  Good(k)
  <2> SUFFICES ASSUME NEW i \in Nat, NEW v \in Nat, NEW s, 1 <= v, v <= pow2[i],
                      chaining_value(s) = Subtree(k * pow2[i], v, n)
               PROVE  chaining_value(Folded(s, Roots(k, i, n))) = Subtree(0, k * pow2[i] + v, n)
    OBVIOUS
  <2> DEFINE p == pow2[i]
  <2>1. p \in Nat \ {0} /\ pow2[i + 1] = 2 * p /\ i + 1 \in Nat
    BY Pow2Facts
  <2>2. h * pow2[i + 1] = 2 * h * p
    <3>1. h * pow2[i + 1] = h * (2 * p) /\ h * (2 * p) = (h * 2) * p /\ h * 2 = 2 * h
      BY <2>1, Products
    <3> QED
      BY <2>1, <3>1, Products
  <2>3. Roots(2 * h, i, n) = Roots(h, i + 1, n)
    BY RootsDouble
  <2>4. CASE k = 2 * h
    <3>1. v <= pow2[i + 1]
      BY <2>1
    <3>2. chaining_value(s) = Subtree(h * pow2[i + 1], v, n)
      BY <2>2, <2>4
    <3>3. chaining_value(Folded(s, Roots(h, i + 1, n))) = Subtree(0, h * pow2[i + 1] + v, n)
      BY <1>2, <2>1, <3>1, <3>2
    <3> QED
      BY <2>2, <2>3, <2>4, <3>3
  <2>5. CASE k = 2 * h + 1
    <3> DEFINE first == 2 * h * p
               left == Subtree(first, p, n)
               above == parent_output(left, chaining_value(s))
    <3>1. first \in Nat /\ k * p = first + p
      <4>1. 2 * h \in Nat /\ 1 * p = p
        BY <2>1
      <4>2. (2 * h + 1) * p = 2 * h * p + 1 * p
        BY <2>1, <4>1, Products
      <4>3. first \in Nat
        BY <2>1, <4>1, Products
      <4> QED
        BY <2>5, <4>1, <4>2, <4>3
    <3>2. Roots(k, i, n) = Append(Roots(h, i + 1, n), left)
      <4>1. Roots(2 * h + 1, i, n) = Append(Roots(2 * h, i, n), Subtree(2 * h * pow2[i], pow2[i], n))
        BY RootsOdd
      <4> QED
        BY <2>3, <2>5, <4>1
    <3>3. Folded(s, Roots(k, i, n)) = Folded(above, Roots(h, i + 1, n))
      <4>1. Roots(h, i + 1, n) \in Seq(Nodes(n))
        BY <2>1, RootsType
      <4>2. left \in Nodes(n)
        <5> HIDE DEF first
        <5> QED
          BY <2>1, <3>1 DEF Nodes
      <4> HIDE DEF left
      <4> QED
        BY <3>2, <4>1, <4>2, FoldTop
    <3>4. chaining_value(above) = Subtree(first, p + v, n)
      <4>1. LeftSize(p + v) = p
        BY <2>1, LeftSizeIs
      <4>2. p + v \in Nat /\ ~(p + v <= 1) /\ (p + v) - p = v
        BY <2>1
      <4>3. chaining_value(s) = Subtree(first + p, v, n)
        BY <3>1
      <4> HIDE DEF p, first
      <4>4. Subtree(first, p + v, n)
              = IF p + v <= 1 THEN ChunkNode(first, n)
                ELSE parent_cv(Subtree(first, LeftSize(p + v), n),
                               Subtree(first + LeftSize(p + v), (p + v) - LeftSize(p + v), n))
        BY <3>1, <4>2, SubtreeRule
      <4>5. Subtree(first, p + v, n) = parent_cv(left, chaining_value(s))
        BY <4>1, <4>2, <4>3, <4>4
      <4> QED
        BY <4>5 DEF parent_cv
    <3>5. p + v \in Nat /\ 1 <= p + v /\ p + v <= pow2[i + 1]
      BY <2>1
    <3>6. chaining_value(Folded(above, Roots(h, i + 1, n)))
            = Subtree(0, h * pow2[i + 1] + (p + v), n)
      <4>1. chaining_value(above) = Subtree(h * pow2[i + 1], p + v, n)
        BY <2>2, <3>4
      <4> HIDE DEF above, p
      <4> QED
        BY <1>2, <2>1, <3>5, <4>1
    <3>7. h * pow2[i + 1] + (p + v) = k * p + v
      BY <2>1, <2>2, <3>1
    <3> QED
      BY <3>3, <3>6, <3>7
  <2> QED
    BY <1>2, <2>4, <2>5
<1> HIDE DEF Good
<1>3. 0 \in S
  <2>1. \A j \in 0 .. 0 : j = 0
    OBVIOUS
  <2> QED
    BY <1>1, <2>1
<1>4. ASSUME NEW k \in Nat, k \in S
      PROVE  k + 1 \in S
  <2>1. k + 1 \in Nat
    OBVIOUS
  <2>2. PICK h \in Nat : (k + 1 = 2 * h \/ k + 1 = 2 * h + 1) /\ h < k + 1
    <3> DEFINE r == k + 1
    <3>1. r \in Nat /\ r # 0
      OBVIOUS
    <3> HIDE DEF r
    <3>2. \E h \in Nat : (r = 2 * h \/ r = 2 * h + 1) /\ h < r
      BY <3>1, HalfOf
    <3> QED
      BY <3>2 DEF r
  <2>3. h \in 0 .. k
    BY <2>2
  <2>4. Good(k + 1)
    BY <1>2, <1>4, <2>1, <2>2, <2>3
  <2>5. \A j \in 0 .. k + 1 : j = k + 1 \/ j \in 0 .. k
    OBVIOUS
  <2> QED
    BY <1>4, <2>4, <2>5
<1> HIDE DEF S
<1>5. q \in S
  BY <1>3, <1>4, SetInduction
<1>6. q \in 0 .. q
  OBVIOUS
<1>7. Good(q)
  BY <1>5, <1>6 DEF S
<1> QED
  BY <1>7 DEF Good

-----------------------------------------------------------------------------
(* Bytes and where they belong. *)

(* Division by a size that is not known. *)
LEMMA DivIs ==
    ASSUME NEW x \in Nat, NEW d \in Nat \ {0}, NEW q \in Nat, q * d <= x, x < q * d + d
    PROVE  x \div d = q
<1> DEFINE z == x \div d
<1>1. z \in Nat /\ d * z <= x /\ x < d * z + d
  OBVIOUS
<1> HIDE DEF z
<1>2. d * z = z * d
  BY <1>1
<1>3. ~(z < q)
  <2> SUFFICES ASSUME z < q
               PROVE  FALSE
    OBVIOUS
  <2>1. q - z - 1 \in Nat
    BY <1>1
  <2>2. (q - z - 1) * d \in Nat
    BY <2>1
  <2>3. (q - z - 1) * d = q * d - z * d - d
    BY <1>1
  <2> QED
    BY <1>1, <1>2, <2>2, <2>3
<1>4. ~(q < z)
  <2> SUFFICES ASSUME q < z
               PROVE  FALSE
    OBVIOUS
  <2>1. z - q - 1 \in Nat
    BY <1>1
  <2>2. (z - q - 1) * d \in Nat
    BY <2>1
  <2>3. (z - q - 1) * d = z * d - q * d - d
    BY <1>1
  <2> QED
    BY <1>1, <1>2, <2>2, <2>3
<1> QED
  BY <1>1, <1>3, <1>4 DEF z

LEMMA DivFits ==
    ASSUME NEW x \in Nat, NEW d \in Nat \ {0}
    PROVE  x \div d \in Nat /\ (x \div d) * d <= x /\ x < (x \div d) * d + d
<1>1. x \div d \in Nat /\ d * (x \div d) <= x /\ x < d * (x \div d) + d
  OBVIOUS
<1>2. d * (x \div d) = (x \div d) * d
  BY <1>1
<1> QED
  BY <1>1, <1>2

(* The bytes of an interval. *)
AnyByte == {Byte(i) : i \in Int}

LEMMA BytesAre ==
    ASSUME NEW a \in Nat, NEW b \in Nat, a <= b
    PROVE  /\ Bytes(a, b) \in Seq(AnyByte)
           /\ Len(Bytes(a, b)) = b - a
           /\ \A i \in 1 .. b - a : Bytes(a, b)[i] = Byte(a + i - 1)
<1>1. \A i \in 1 .. b - a : Byte(a + i - 1) \in AnyByte
  <2>1. \A i \in 1 .. b - a : a + i - 1 \in Int
    OBVIOUS
  <2> QED
    BY <2>1 DEF AnyByte
<1>2. b - a \in Nat
  OBVIOUS
<1> DEFINE s == [i \in 1 .. b - a |-> Byte(a + i - 1)]
<1>3. s \in [1 .. b - a -> AnyByte]
  BY <1>1
<1> HIDE DEF s
<1>4. s \in Seq(AnyByte) /\ Len(s) = b - a
  BY <1>2, <1>3
<1>5. \A i \in 1 .. b - a : s[i] = Byte(a + i - 1)
  BY DEF s
<1>6. Bytes(a, b) = s
  BY DEF Bytes, s
<1> QED
  BY <1>4, <1>5, <1>6

LEMMA BytesJoin ==
    ASSUME NEW a \in Nat, NEW b \in Nat, NEW c \in Nat, a <= b, b <= c
    PROVE  Bytes(a, b) \o Bytes(b, c) = Bytes(a, c)
<1> DEFINE s == Bytes(a, b)
           t == Bytes(b, c)
           u == Bytes(a, c)
<1>1. /\ s \in Seq(AnyByte) /\ Len(s) = b - a
      /\ \A i \in 1 .. b - a : s[i] = Byte(a + i - 1)
  BY BytesAre
<1>2. /\ t \in Seq(AnyByte) /\ Len(t) = c - b
      /\ \A i \in 1 .. c - b : t[i] = Byte(b + i - 1)
  BY BytesAre
<1>3. /\ u \in Seq(AnyByte) /\ Len(u) = c - a
      /\ \A i \in 1 .. c - a : u[i] = Byte(a + i - 1)
  BY BytesAre
<1> HIDE DEF s, t, u
<1>4. s \o t \in Seq(AnyByte) /\ Len(s \o t) = c - a
  BY <1>1, <1>2
<1>5. ASSUME NEW i \in 1 .. c - a
      PROVE  (s \o t)[i] = u[i]
  <2>1. CASE i <= b - a
    <3>1. (s \o t)[i] = s[i] /\ i \in 1 .. b - a
      BY <1>1, <1>2, <2>1
    <3> QED
      BY <1>1, <1>3, <3>1
  <2>2. CASE ~(i <= b - a)
    <3>1. i - (b - a) \in 1 .. c - b /\ b + (i - (b - a)) - 1 = a + i - 1
      BY <2>2
    <3>2. (s \o t)[i] = t[i - (b - a)]
      BY <1>1, <1>2, <2>2
    <3>3. t[i - (b - a)] = Byte(a + i - 1)
      BY <1>2, <3>1
    <3> QED
      BY <1>3, <3>2, <3>3
  <2> QED
    BY <2>1, <2>2
<1>6. s \o t = u
  BY <1>3, <1>4, <1>5, SeqEqual
<1> QED
  BY <1>6 DEF s, t, u

(* A piece of the input is the bytes of an interval, too. *)
Part(a, b, lo, hi) == SubSeq(Bytes(a, b), lo, hi)

LEMMA BytesPart ==
    ASSUME NEW a \in Nat, NEW b \in Nat, NEW c \in Nat, NEW d \in Nat, a <= c, c <= d, d <= b,
           NEW lo, lo = c - a + 1, NEW hi, hi = d - a
    PROVE  Part(a, b, lo, hi) = Bytes(c, d)
<1> DEFINE s == Bytes(a, b)
           u == Bytes(c, d)
           v == SubSeq(s, lo, hi)
<1>1. /\ s \in Seq(AnyByte) /\ Len(s) = b - a
      /\ \A i \in 1 .. b - a : s[i] = Byte(a + i - 1)
  <2>1. a <= b
    OBVIOUS
  <2> QED
    BY <2>1, BytesAre
<1>2. /\ u \in Seq(AnyByte) /\ Len(u) = d - c
      /\ \A i \in 1 .. d - c : u[i] = Byte(c + i - 1)
  BY BytesAre
<1> HIDE DEF s, u
<1>3. v = [i \in 1 .. d - c |-> s[(c - a) + i]]
  <2>1. lo \in Int /\ hi \in Int /\ hi - lo + 1 = d - c
    OBVIOUS
  <2>2. v = [i \in 1 .. hi - lo + 1 |-> s[lo + i - 1]]
    BY <2>1
  <2>3. \A i \in 1 .. d - c : lo + i - 1 = (c - a) + i
    OBVIOUS
  <2> HIDE DEF v
  <2> QED
    BY <2>1, <2>2, <2>3
<1>4. \A i \in 1 .. d - c : (c - a) + i \in 1 .. b - a /\ a + ((c - a) + i) - 1 = c + i - 1
  OBVIOUS
<1>5. \A i \in 1 .. d - c : s[(c - a) + i] = Byte(c + i - 1)
  BY <1>1, <1>4
<1>6. \A i \in 1 .. d - c : v[i] = u[i]
  BY <1>2, <1>3, <1>5
<1>7. v \in Seq(AnyByte) /\ Len(v) = d - c
  <2>1. \A i \in 1 .. d - c : s[(c - a) + i] \in AnyByte
    BY <1>1, <1>4
  <2> HIDE DEF v
  <2>2. v \in [1 .. d - c -> AnyByte]
    BY <1>3, <2>1
  <2>3. d - c \in Nat
    OBVIOUS
  <2> DEFINE w == d - c
  <2> HIDE DEF w
  <2>4. v \in Seq(AnyByte) /\ Len(v) = w
    BY <2>2, <2>3 DEF w
  <2> QED
    BY <2>4 DEF w
<1> HIDE DEF v
<1>8. v = u
  BY <1>2, <1>6, <1>7, SeqEqual
<1> QED
  BY <1>8 DEF s, u, v, Part

LEMMA BytesNone ==
    ASSUME NEW a \in Nat
    PROVE  Bytes(a, a) = <<>>
<1>1. Bytes(a, a) \in Seq(AnyByte) /\ Len(Bytes(a, a)) = 0
  BY BytesAre
<1> QED
  BY <1>1

(* Where blocks and chunks begin. *)
LEMMA Starts ==
    ASSUME NEW k \in Nat, NEW b \in Nat
    PROVE  /\ BLOCK_LEN \in Nat \ {0} /\ CHUNK_LEN \in Nat \ {0}
           /\ k * CHUNK_LEN \in Nat
           /\ (k + 1) * CHUNK_LEN = k * CHUNK_LEN + CHUNK_LEN
           /\ BlockStart(k, 0) = k * CHUNK_LEN
           /\ BlockStart(k, b) \in Nat
           /\ BlockStart(k, b) = k * CHUNK_LEN + b * BLOCK_LEN
           /\ BlockStart(k, b + 1) = BlockStart(k, b) + BLOCK_LEN
           /\ k * CHUNK_LEN <= BlockStart(k, b)
<1>1. BLOCK_LEN \in Nat \ {0} /\ CHUNK_LEN \in Nat \ {0}
  BY Blake3Assumption
<1>2. /\ k * CHUNK_LEN \in Nat /\ b * BLOCK_LEN \in Nat /\ 0 * BLOCK_LEN = 0
      /\ (k + 1) * CHUNK_LEN = k * CHUNK_LEN + 1 * CHUNK_LEN
      /\ (b + 1) * BLOCK_LEN = b * BLOCK_LEN + 1 * BLOCK_LEN
  BY <1>1, Products
<1>3. 1 * CHUNK_LEN = CHUNK_LEN /\ 1 * BLOCK_LEN = BLOCK_LEN
  BY <1>1
<1> DEFINE s == k * CHUNK_LEN
           t == b * BLOCK_LEN
<1> HIDE DEF s, t
<1>4. BlockStart(k, 0) = k * CHUNK_LEN /\ BlockStart(k, b) = k * CHUNK_LEN + b * BLOCK_LEN
  BY <1>2 DEF BlockStart
<1>5. BlockStart(k, b + 1) = k * CHUNK_LEN + (b * BLOCK_LEN + BLOCK_LEN)
  BY <1>2, <1>3 DEF BlockStart
<1>6. BlockStart(k, b + 1) = BlockStart(k, b) + BLOCK_LEN
  BY <1>1, <1>2, <1>4, <1>5
<1> QED
  BY <1>1, <1>2, <1>3, <1>4, <1>6

LEMMA Order ==
    ASSUME NEW a \in Nat, NEW b \in Nat, NEW d \in Nat, a < b
    PROVE  a * d + d <= b * d
<1>1. b - a - 1 \in Nat
  OBVIOUS
<1>2. (b - a - 1) * d \in Nat /\ a * d \in Nat /\ b * d \in Nat
  BY <1>1, Products
<1>3. (b - a - 1) * d = b * d - a * d - d
  OBVIOUS
<1> QED
  BY <1>2, <1>3

(* The last block is the one that the last byte is in. *)
LEMMA LastBlockFits ==
    ASSUME NEW k \in Nat, NEW n \in Nat, k * CHUNK_LEN < n
    PROVE  /\ ChunkEnd(k, n) \in Nat
           /\ k * CHUNK_LEN < ChunkEnd(k, n) /\ ChunkEnd(k, n) <= n
           /\ LastBlock(k, n) \in Nat
           /\ BlockStart(k, LastBlock(k, n)) < ChunkEnd(k, n)
           /\ ChunkEnd(k, n) <= BlockStart(k, LastBlock(k, n) + 1)
<1> DEFINE s == k * CHUNK_LEN
           t == ChunkEnd(k, n)
           b == LastBlock(k, n)
<1>1. BLOCK_LEN \in Nat \ {0} /\ CHUNK_LEN \in Nat \ {0} /\ s \in Nat
      /\ (k + 1) * CHUNK_LEN = s + CHUNK_LEN
  BY Starts
<1>2. t = IF s + CHUNK_LEN < n THEN s + CHUNK_LEN ELSE n
  BY <1>1 DEF ChunkEnd, Smaller
<1>3. b = (t - s - 1) \div BLOCK_LEN
  <2>1. n # k * CHUNK_LEN
    BY <1>1
  <2> QED
    BY <2>1 DEF LastBlock
<1> HIDE DEF s, t, b
<1>4. t \in Nat /\ s < t /\ t <= n /\ t - s - 1 \in Nat
  BY <1>1, <1>2 DEF s
<1>5. b \in Nat /\ b * BLOCK_LEN <= t - s - 1 /\ t - s - 1 < b * BLOCK_LEN + BLOCK_LEN
  BY <1>1, <1>3, <1>4, DivFits
<1>6. BlockStart(k, b) = s + b * BLOCK_LEN /\ BlockStart(k, b + 1) = BlockStart(k, b) + BLOCK_LEN
      /\ b * BLOCK_LEN \in Nat
  BY <1>1, <1>5, Starts, Products DEF s
<1>7. BlockStart(k, b) < t /\ t <= BlockStart(k, b + 1)
  BY <1>1, <1>4, <1>5, <1>6
<1> QED
  BY <1>4, <1>5, <1>7 DEF s, t, b

LEMMA LastBlockIs ==
    ASSUME NEW k \in Nat, NEW n \in Nat, NEW b \in Nat,
           n <= (k + 1) * CHUNK_LEN,
           \/ n = k * CHUNK_LEN /\ b = 0
           \/ BlockStart(k, b) < n /\ n <= BlockStart(k, b + 1)
    PROVE  LastBlock(k, n) = b /\ ChunkEnd(k, n) = n
<1> DEFINE s == k * CHUNK_LEN
           e == (k + 1) * CHUNK_LEN
<1>1. BLOCK_LEN \in Nat \ {0} /\ CHUNK_LEN \in Nat \ {0} /\ s \in Nat /\ e = s + CHUNK_LEN
  BY Starts
<1>2. ChunkEnd(k, n) = n
  <2>1. ChunkEnd(k, n) = IF e < n THEN e ELSE n
    BY DEF ChunkEnd, Smaller
  <2> HIDE DEF s
  <2>2. e \in Nat /\ n <= e
    <3>1. n <= e
      OBVIOUS
    <3> HIDE DEF e
    <3> QED
      BY <1>1, <3>1
  <2> HIDE DEF e
  <2> QED
    BY <2>1, <2>2
<1>3. CASE n = s /\ b = 0
  BY <1>2, <1>3 DEF LastBlock
<1>4. CASE BlockStart(k, b) < n /\ n <= BlockStart(k, b + 1)
  <2>1. BlockStart(k, b) = s + b * BLOCK_LEN /\ BlockStart(k, b + 1) = BlockStart(k, b) + BLOCK_LEN
        /\ b * BLOCK_LEN \in Nat
    BY <1>1, Starts, Products
  <2> DEFINE x == n - s - 1
             r == b * BLOCK_LEN
  <2> HIDE DEF s, e, r
  <2>2. x \in Nat /\ r <= x /\ x < r + BLOCK_LEN /\ n # s
    BY <1>1, <1>4, <2>1 DEF r
  <2> HIDE DEF x
  <2>3. x \div BLOCK_LEN = b
    BY <1>1, <2>2, DivIs DEF r
  <2>4. LastBlock(k, n) = (n - s - 1) \div BLOCK_LEN
    BY <1>2, <2>2 DEF LastBlock, s
  <2> QED
    BY <1>2, <2>3, <2>4 DEF x
<1> QED
  BY <1>3, <1>4

(* Later blocks begin later, and longer inputs end in later ones. *)
LEMMA BlockOrder ==
    ASSUME NEW k \in Nat, NEW a \in Nat, NEW b \in Nat, a < b
    PROVE  BlockStart(k, a + 1) <= BlockStart(k, b)
<1>1. BLOCK_LEN \in Nat
  BY Blake3Assumption
<1>2. a * BLOCK_LEN + BLOCK_LEN <= b * BLOCK_LEN
  BY <1>1, Order
<1> DEFINE s == k * CHUNK_LEN
           x == a * BLOCK_LEN
           y == b * BLOCK_LEN
<1>3. /\ s \in Nat /\ x \in Nat /\ y \in Nat
      /\ BlockStart(k, a + 1) = BlockStart(k, a) + BLOCK_LEN
      /\ BlockStart(k, a) = s + x /\ BlockStart(k, b) = s + y
  BY <1>1, Starts, Products
<1> HIDE DEF s, x, y
<1> QED
  BY <1>1, <1>2, <1>3 DEF x, y

LEMMA LastGrows ==
    ASSUME NEW k \in Nat, NEW n \in Nat, NEW n2 \in Nat, k * CHUNK_LEN < n, n <= n2
    PROVE  LastBlock(k, n) <= LastBlock(k, n2) /\ ChunkEnd(k, n) <= ChunkEnd(k, n2)
<1> DEFINE a == LastBlock(k, n)
           b == LastBlock(k, n2)
           s == k * CHUNK_LEN
<1>0. s \in Nat
  BY Starts
<1>1. /\ a \in Nat /\ ChunkEnd(k, n) \in Nat
      /\ BlockStart(k, a) < ChunkEnd(k, n) /\ ChunkEnd(k, n) <= BlockStart(k, a + 1)
  BY LastBlockFits
<1>2. k * CHUNK_LEN < n2
  <2>1. s < n
    OBVIOUS
  <2> HIDE DEF s
  <2>2. s < n2
    BY <1>0, <2>1
  <2> QED
    BY <2>2 DEF s
<1>3. /\ b \in Nat /\ ChunkEnd(k, n2) \in Nat
      /\ BlockStart(k, b) < ChunkEnd(k, n2) /\ ChunkEnd(k, n2) <= BlockStart(k, b + 1)
  BY <1>2, LastBlockFits
<1>4. ChunkEnd(k, n) <= ChunkEnd(k, n2)
  <2> DEFINE e == (k + 1) * CHUNK_LEN
  <2>1. e \in Nat
    BY Starts, Products
  <2> HIDE DEF e
  <2>2. ChunkEnd(k, n) = (IF e < n THEN e ELSE n) /\ ChunkEnd(k, n2) = (IF e < n2 THEN e ELSE n2)
    BY DEF ChunkEnd, Smaller, e
  <2> QED
    BY <2>1, <2>2
<1> HIDE DEF a, b
<1>5. ~(b < a)
  <2>1. b < a => BlockStart(k, b + 1) <= BlockStart(k, a)
    BY <1>1, <1>3, BlockOrder
  <2>2. BlockStart(k, b + 1) \in Nat /\ BlockStart(k, a) \in Nat
    BY <1>1, <1>3, Starts
  <2> QED
    BY <1>1, <1>3, <1>4, <2>1, <2>2
<1>6. a <= b
  BY <1>1, <1>3, <1>5
<1> QED
  BY <1>4, <1>6 DEF a, b

(* A block that is not the last one of its chunk is full. *)
LEMMA InnerBlock ==
    ASSUME NEW k \in Nat, NEW n \in Nat, k * CHUNK_LEN < n, NEW b \in Nat, b < LastBlock(k, n)
    PROVE  /\ BlockOf(k, b, n) = Bytes(BlockStart(k, b), BlockStart(k, b + 1))
           /\ Len(BlockOf(k, b, n)) = BLOCK_LEN
           /\ FlagsOf(k, b, n) = IF b = 0 THEN {"CHUNK_START"} ELSE {}
<1>1. BlockStart(k, b + 1) <= BlockStart(k, LastBlock(k, n))
  BY LastBlockFits, BlockOrder
<1>2. /\ BlockStart(k, LastBlock(k, n)) \in Nat /\ BlockStart(k, b) \in Nat
      /\ BlockStart(k, b + 1) = BlockStart(k, b) + BLOCK_LEN /\ BLOCK_LEN \in Nat
      /\ ChunkEnd(k, n) \in Nat /\ BlockStart(k, LastBlock(k, n)) < ChunkEnd(k, n)
  BY LastBlockFits, Starts
<1>3. Smaller(BlockStart(k, b + 1), ChunkEnd(k, n)) = BlockStart(k, b + 1)
  BY <1>1, <1>2 DEF Smaller
<1>4. BlockOf(k, b, n) = Bytes(BlockStart(k, b), BlockStart(k, b + 1))
  BY <1>3 DEF BlockOf
<1>5. Len(BlockOf(k, b, n)) = BLOCK_LEN
  <2>1. /\ BlockStart(k, b + 1) \in Nat /\ BlockStart(k, b) <= BlockStart(k, b + 1)
        /\ BlockStart(k, b + 1) - BlockStart(k, b) = BLOCK_LEN
    BY <1>2
  <2> QED
    BY <1>2, <1>4, <2>1, BytesAre
<1>6. b # LastBlock(k, n)
  BY LastBlockFits
<1>7. FlagsOf(k, b, n) = IF b = 0 THEN {"CHUNK_START"} ELSE {}
  BY <1>6 DEF FlagsOf
<1> QED
  BY <1>4, <1>5, <1>7

(* The chain up to such a block does not depend on the input's length. *)
LEMMA ChainStable ==
    ASSUME NEW k \in Nat, NEW n \in Nat, NEW n2 \in Nat, k * CHUNK_LEN < n, n <= n2,
           NEW b \in Nat, b < LastBlock(k, n)
    PROVE  Chain(k, n)[b] = Chain(k, n2)[b]
<1> DEFINE L == LastBlock(k, n)
           S == {c \in Nat : c < L => Chain(k, n)[c] = Chain(k, n2)[c]}
<1>1. k * CHUNK_LEN < n2
  <2> DEFINE s == k * CHUNK_LEN
  <2>1. s \in Nat
    BY Starts
  <2>2. s < n
    OBVIOUS
  <2> HIDE DEF s
  <2>3. s < n2
    BY <2>1, <2>2
  <2> QED
    BY <2>3 DEF s
<1>2. L \in Nat /\ LastBlock(k, n2) \in Nat /\ L <= LastBlock(k, n2)
  BY <1>1, LastBlockFits, LastGrows
<1> HIDE DEF L
<1>3. ASSUME NEW c \in Nat, c < L
      PROVE  BlockOf(k, c, n) = BlockOf(k, c, n2) /\ FlagsOf(k, c, n) = FlagsOf(k, c, n2)
  <2>1. c < LastBlock(k, n) /\ c < LastBlock(k, n2)
    BY <1>2, <1>3 DEF L
  <2>2. /\ BlockOf(k, c, n) = Bytes(BlockStart(k, c), BlockStart(k, c + 1))
        /\ FlagsOf(k, c, n) = IF c = 0 THEN {"CHUNK_START"} ELSE {}
    BY <2>1, InnerBlock
  <2>3. /\ BlockOf(k, c, n2) = Bytes(BlockStart(k, c), BlockStart(k, c + 1))
        /\ FlagsOf(k, c, n2) = IF c = 0 THEN {"CHUNK_START"} ELSE {}
    BY <1>1, <2>1, InnerBlock
  <2> QED
    BY <2>2, <2>3
<1>4. 0 \in S
  <2>1. \A x \in {n, n2} : Chain(k, x)[0] = compress(IV, BlockOf(k, 0, x), k,
                                                     Len(BlockOf(k, 0, x)), FlagsOf(k, 0, x))
    BY ChainRule
  <2> QED
    BY <1>3, <2>1
<1>5. ASSUME NEW c \in Nat, c \in S
      PROVE  c + 1 \in S
  <2> SUFFICES ASSUME c + 1 < L
               PROVE  Chain(k, n)[c + 1] = Chain(k, n2)[c + 1]
    OBVIOUS
  <2>1. c < L /\ c + 1 \in Nat /\ c + 1 # 0 /\ (c + 1) - 1 = c
    BY <1>2
  <2>2. Chain(k, n)[c] = Chain(k, n2)[c]
    BY <1>5, <2>1
  <2>3. \A x \in {n, n2} : Chain(k, x)[c + 1]
           = compress(Chain(k, x)[c], BlockOf(k, c + 1, x), k,
                      Len(BlockOf(k, c + 1, x)), FlagsOf(k, c + 1, x))
    <3> DEFINE d == c + 1
    <3>1. d \in Nat /\ d # 0 /\ d - 1 = c
      OBVIOUS
    <3> HIDE DEF d
    <3>2. \A x \in {n, n2} : Chain(k, x)[d] = compress(Chain(k, x)[c], BlockOf(k, d, x), k,
                                                      Len(BlockOf(k, d, x)), FlagsOf(k, d, x))
      BY <3>1, ChainRule
    <3> QED
      BY <3>2 DEF d
  <2>4. BlockOf(k, c + 1, n) = BlockOf(k, c + 1, n2) /\ FlagsOf(k, c + 1, n) = FlagsOf(k, c + 1, n2)
    BY <1>3, <2>1
  <2> QED
    BY <2>2, <2>3, <2>4
<1> HIDE DEF S
<1>6. b \in S
  BY <1>4, <1>5, SetInduction
<1> QED
  BY <1>6 DEF S, L

-----------------------------------------------------------------------------
(* Chunks. *)

(* Chunk k when the input has reached n. *)
ChunkAfter(k, n) ==
    LET b == LastBlock(k, n)
    IN [cv |-> IF b = 0 THEN IV ELSE Chain(k, n)[b - 1], counter |-> k,
        block |-> Bytes(BlockStart(k, b), n), blocks_compressed |-> b]

InChunk(k, n) == k * CHUNK_LEN <= n /\ n <= (k + 1) * CHUNK_LEN

(* Chunk k is where input of n bytes ends, up to the end of its last block.*)
LEMMA LastFits ==
    ASSUME NEW k \in Nat, NEW n \in Nat, InChunk(k, n)
    PROVE  /\ LastBlock(k, n) \in Nat
           /\ ChunkEnd(k, n) = n
           /\ BlockStart(k, LastBlock(k, n)) <= n
           /\ n <= BlockStart(k, LastBlock(k, n) + 1)
           /\ \/ n = k * CHUNK_LEN /\ LastBlock(k, n) = 0
              \/ k * CHUNK_LEN < n /\ BlockStart(k, LastBlock(k, n)) < n
<1> DEFINE s == k * CHUNK_LEN
           e == (k + 1) * CHUNK_LEN
<1>1. /\ s \in Nat /\ e = s + CHUNK_LEN /\ CHUNK_LEN \in Nat \ {0} /\ BLOCK_LEN \in Nat \ {0}
      /\ BlockStart(k, 0) = s /\ BlockStart(k, 0 + 1) = BlockStart(k, 0) + BLOCK_LEN
  BY Starts
<1>2. s <= n /\ n <= e
  BY DEF InChunk
<1> HIDE DEF s, e
<1>3. CASE n = s
  <2>1. n = k * CHUNK_LEN /\ n <= (k + 1) * CHUNK_LEN
    BY <1>2, <1>3 DEF s, e
  <2>2. LastBlock(k, n) = 0 /\ ChunkEnd(k, n) = n
    BY <2>1, LastBlockIs
  <2>3. BlockStart(k, LastBlock(k, n)) = s /\ BlockStart(k, LastBlock(k, n) + 1) = s + BLOCK_LEN
    BY <1>1, <2>2
  <2> QED
    BY <1>1, <1>3, <2>1, <2>2, <2>3
<1>4. CASE s < n
  <2>1. k * CHUNK_LEN < n
    BY <1>4 DEF s
  <2>2. ChunkEnd(k, n) = n
    <3>1. ChunkEnd(k, n) = IF e < n THEN e ELSE n
      BY DEF ChunkEnd, Smaller, e
    <3> QED
      BY <1>1, <1>2, <3>1
  <2>3. /\ LastBlock(k, n) \in Nat
        /\ BlockStart(k, LastBlock(k, n)) < ChunkEnd(k, n)
        /\ ChunkEnd(k, n) <= BlockStart(k, LastBlock(k, n) + 1)
    BY <2>1, LastBlockFits
  <2>4. BlockStart(k, LastBlock(k, n)) \in Nat
    BY <2>3, Starts
  <2> QED
    BY <2>1, <2>2, <2>3, <2>4
<1> QED
  BY <1>1, <1>2, <1>3, <1>4

LEMMA ChunkAfterIs ==
    ASSUME NEW k \in Nat, NEW n \in Nat, NEW b \in Nat,
           n <= (k + 1) * CHUNK_LEN,
           \/ n = k * CHUNK_LEN /\ b = 0
           \/ BlockStart(k, b) < n /\ n <= BlockStart(k, b + 1)
    PROVE  ChunkAfter(k, n) = [cv |-> IF b = 0 THEN IV ELSE Chain(k, n)[b - 1], counter |-> k,
                               block |-> Bytes(BlockStart(k, b), n), blocks_compressed |-> b]
<1>1. LastBlock(k, n) = b
  BY LastBlockIs
<1> QED
  BY <1>1 DEF ChunkAfter

(* The chaining value does not change before its block is compressed.      *)
LEMMA CvKept ==
    ASSUME NEW k \in Nat, NEW n \in Nat, NEW n2 \in Nat, InChunk(k, n), n <= n2
    PROVE  (IF LastBlock(k, n) = 0 THEN IV ELSE Chain(k, n)[LastBlock(k, n) - 1])
             = (IF LastBlock(k, n) = 0 THEN IV ELSE Chain(k, n2)[LastBlock(k, n) - 1])
<1> DEFINE b == LastBlock(k, n)
<1>1. b \in Nat /\ (b # 0 => k * CHUNK_LEN < n)
  BY LastFits
<1>2. CASE b # 0
  <2>1. b - 1 \in Nat /\ b - 1 < LastBlock(k, n)
    BY <1>1, <1>2
  <2> QED
    BY <1>1, <1>2, <2>1, ChainStable
<1> QED
  BY <1>2

(* A turn of ChunkState.update, of input from n on, that has reached m. *)
ChunkTurn(k, n, m) == [chunk |-> ChunkAfter(k, m), taken |-> m - n]

LEMMA TakeBlockExact ==
    ASSUME NEW k \in Nat, NEW n \in Nat, NEW m \in Nat, NEW n2 \in Nat,
           InChunk(k, n), InChunk(k, m), InChunk(k, n2), n <= m, m < n2
    PROVE  \E m2 \in Nat :
             /\ m < m2 /\ m2 <= n2 /\ InChunk(k, m2)
             /\ TakeBlock(ChunkTurn(k, n, m), Bytes(n, n2)) = ChunkTurn(k, n, m2)
<1> DEFINE b == LastBlock(k, m)
           s == k * CHUNK_LEN
           e == (k + 1) * CHUNK_LEN
           begin == BlockStart(k, b)
           next == BlockStart(k, b + 1)
           input == Bytes(n, n2)
           block == Bytes(begin, m)
           cv == IF b = 0 THEN IV ELSE Chain(k, m)[b - 1]
           before == [cv |-> cv, counter |-> k, block |-> block, blocks_compressed |-> b]
<1>1. /\ b \in Nat /\ begin <= m /\ m <= next /\ ChunkEnd(k, m) = m
      /\ \/ m = s /\ b = 0
         \/ s < m /\ begin < m
  BY LastFits
<1>2. /\ s \in Nat /\ e \in Nat /\ begin \in Nat /\ next = begin + BLOCK_LEN
      /\ BLOCK_LEN \in Nat \ {0} /\ s <= begin /\ BlockStart(k, 0) = s
      /\ b + 1 \in Nat /\ BlockStart(k, (b + 1) + 1) = next + BLOCK_LEN
  <2>1. e \in Nat
    BY Starts, Products
  <2> HIDE DEF s, e, b
  <2>2. /\ s \in Nat /\ begin \in Nat /\ next = begin + BLOCK_LEN
        /\ BLOCK_LEN \in Nat \ {0} /\ s <= begin /\ BlockStart(k, 0) = s
    BY <1>1, Starts DEF s
  <2>3. b + 1 \in Nat
    BY <1>1
  <2>4. BlockStart(k, (b + 1) + 1) = next + BLOCK_LEN
    BY <2>3, Starts
  <2> QED
    BY <2>1, <2>2, <2>3, <2>4
<1>3. s <= n /\ s <= m /\ n2 <= e
  BY DEF InChunk
<1>4. ChunkAfter(k, m) = before
  BY DEF ChunkAfter
<1>5. Len(input) = n2 - n /\ block \in Seq(AnyByte) /\ Len(block) = m - begin
  <2> HIDE DEF begin
  <2> QED
    BY <1>1, <1>2, BytesAre
<1>6. ASSUME NEW t \in Nat, m + t <= n2
      PROVE  SubSeq(input, (m - n) + 1, (m - n) + t) = Bytes(m, m + t)
  <2> DEFINE from == (m - n) + 1
             to == (m - n) + t
             past == m + t
  <2>1. past \in Nat /\ m <= past /\ past <= n2 /\ from = m - n + 1 /\ to = past - n
    BY <1>6
  <2> HIDE DEF from, to, past
  <2>2. Part(n, n2, from, to) = Bytes(m, past)
    BY <2>1, BytesPart
  <2> QED
    BY <2>2 DEF from, to, past, Part
<1> DEFINE ready == IF Len(block) = BLOCK_LEN THEN CompressBlock(before) ELSE before
           take == Smaller(BLOCK_LEN - Len(ready.block), Len(input) - (m - n))
           m2 == m + take
<1>7. TakeBlock([chunk |-> before, taken |-> m - n], input)
        = [chunk |-> [ready EXCEPT !.block =
                        @ \o SubSeq(input, (m - n) + 1, (m - n) + take)],
           taken |-> (m - n) + take]
  <2>1. m - n # Len(input)
    BY <1>5
  <2> HIDE DEF input, block, cv, b
  <2> QED
    BY <2>1 DEF TakeBlock
<1>8. CASE Len(block) = BLOCK_LEN
  <2> DEFINE cv2 == compress(cv, block, k, BLOCK_LEN, IF b = 0 THEN {"CHUNK_START"} ELSE {})
  <2>1. m = next /\ s < m
    <3> HIDE DEF begin, next, s, block
    <3> QED
      BY <1>1, <1>2, <1>5, <1>8
  <2>2. ready = [cv |-> cv2, counter |-> k, block |-> <<>>, blocks_compressed |-> b + 1]
    <3>1. ready = CompressBlock(before)
      BY <1>8
    <3> HIDE DEF cv, block, b, ready
    <3> QED
      BY <3>1 DEF CompressBlock, start_flag
  <2>3. Len(ready.block) = 0
    <3> HIDE DEF ready
    <3> QED
      BY <2>2
  <2>4. take = Smaller(BLOCK_LEN, n2 - m)
    <3>1. Len(input) - (m - n) = n2 - m /\ BLOCK_LEN - 0 = BLOCK_LEN
      BY <1>2, <1>5
    <3> HIDE DEF ready, input
    <3> QED
      BY <2>3, <3>1
  <2> HIDE DEF take
  <2>5. take \in Nat \ {0} /\ take <= BLOCK_LEN /\ m + take <= n2
    BY <1>2, <2>4 DEF Smaller
  <2>6. m2 \in Nat /\ m < m2 /\ m2 <= n2 /\ m2 - n = (m - n) + take
    BY <2>5
  <2>7. InChunk(k, m2) /\ m2 <= e
    <3>1. s <= m2 /\ m2 <= e
      <4> HIDE DEF s, e, m2
      <4> QED
        BY <1>2, <1>3, <2>6
    <3> QED
      BY <3>1 DEF InChunk
  <2>8. ChunkAfter(k, m2) = [cv |-> Chain(k, m2)[b], counter |-> k,
                             block |-> Bytes(m, m2), blocks_compressed |-> b + 1]
    <3>1. next < m2 /\ m2 <= BlockStart(k, (b + 1) + 1)
      <4> HIDE DEF next, b
      <4> QED
        BY <1>2, <2>1, <2>5
    <3> DEFINE c == b + 1
    <3>2. c \in Nat /\ c # 0 /\ c - 1 = b
      BY <1>1
    <3> HIDE DEF c, b
    <3>3. BlockStart(k, c) < m2 /\ m2 <= BlockStart(k, c + 1)
      BY <3>1 DEF c
    <3> HIDE DEF m2, e
    <3>4. m2 <= (k + 1) * CHUNK_LEN
      BY <2>7 DEF e
    <3>5. ChunkAfter(k, m2) = [cv |-> IF c = 0 THEN IV ELSE Chain(k, m2)[c - 1], counter |-> k,
                               block |-> Bytes(BlockStart(k, c), m2), blocks_compressed |-> c]
      BY <2>6, <3>2, <3>3, <3>4, ChunkAfterIs
    <3>6. BlockStart(k, c) = m
      BY <2>1 DEF c
    <3> QED
      BY <3>2, <3>5, <3>6 DEF c
  <2>9. Chain(k, m2)[b] = cv2
    <3>1. /\ BlockOf(k, b, m2) = Bytes(begin, next)
          /\ Len(BlockOf(k, b, m2)) = BLOCK_LEN
          /\ FlagsOf(k, b, m2) = IF b = 0 THEN {"CHUNK_START"} ELSE {}
      <4>1. k * CHUNK_LEN < m2
        <5>1. s < m2
          <6> HIDE DEF s, m2
          <6> QED
            BY <1>2, <2>1, <2>6
        <5> HIDE DEF m2
        <5> QED
          BY <5>1
      <4>2. b < LastBlock(k, m2)
        <5>1. LastBlock(k, m2) = b + 1
          <6>1. ChunkAfter(k, m2).blocks_compressed = LastBlock(k, m2)
            BY DEF ChunkAfter
          <6> HIDE DEF m2, b
          <6> QED
            BY <2>8, <6>1
        <5> HIDE DEF b, m2
        <5> QED
          BY <1>1, <5>1
      <4> HIDE DEF b, m2
      <4> QED
        BY <1>1, <2>6, <4>1, <4>2, InnerBlock
    <3>2. Chain(k, m2)[b] = compress(IF b = 0 THEN IV ELSE Chain(k, m2)[b - 1],
                                     BlockOf(k, b, m2), k, Len(BlockOf(k, b, m2)),
                                     FlagsOf(k, b, m2))
      <4> HIDE DEF b, m2
      <4> QED
        BY <1>1, ChainRule
    <3>3. cv = IF b = 0 THEN IV ELSE Chain(k, m2)[b - 1]
      <4>1. m <= m2
        BY <2>6
      <4> HIDE DEF m2
      <4> QED
        BY <2>6, <4>1, CvKept
    <3>4. Bytes(begin, next) = block
      BY <2>1
    <3> HIDE DEF b, m2, begin, next, block, cv
    <3> QED
      BY <3>1, <3>2, <3>3, <3>4
  <2>10. <<>> \o SubSeq(input, (m - n) + 1, (m - n) + take) = Bytes(m, m2)
    <3>1. SubSeq(input, (m - n) + 1, (m - n) + take) = Bytes(m, m2)
      BY <1>6, <2>5
    <3>2. Bytes(m, m2) \in Seq(AnyByte)
      <4>1. m <= m2
        BY <2>6
      <4> HIDE DEF m2
      <4> QED
        BY <2>6, <4>1, BytesAre
    <3> HIDE DEF m2, input
    <3> QED
      BY <3>1, <3>2, ConcatEmptySeq
  <2> DEFINE more == SubSeq(input, (m - n) + 1, (m - n) + take)
  <2>11. [ready EXCEPT !.block = @ \o more] = ChunkAfter(k, m2)
    <3>1. <<>> \o more = Bytes(m, m2)
      BY <2>10
    <3> HIDE DEF ready, m2, b, cv2, more
    <3>2. [ready EXCEPT !.block = @ \o more]
            = [cv |-> cv2, counter |-> k, block |-> <<>> \o more, blocks_compressed |-> b + 1]
      BY <2>2
    <3> QED
      BY <2>8, <2>9, <3>1, <3>2
  <2>12. TakeBlock([chunk |-> before, taken |-> m - n], input)
           = [chunk |-> ChunkAfter(k, m2), taken |-> m2 - n]
    <3>1. TakeBlock([chunk |-> before, taken |-> m - n], input)
            = [chunk |-> [ready EXCEPT !.block = @ \o more], taken |-> (m - n) + take]
      BY <1>7
    <3> HIDE DEF m2, ready, before, input, more
    <3> QED
      BY <2>6, <2>11, <3>1
  <2> HIDE DEF m2, before
  <2> QED
    BY <1>4, <2>6, <2>7, <2>12 DEF ChunkTurn
<1>9. CASE Len(block) # BLOCK_LEN
  <2>1. ready = [cv |-> cv, counter |-> k, block |-> block, blocks_compressed |-> b]
    BY <1>9
  <2>2. m < next
    <3> HIDE DEF begin, next, block
    <3> QED
      BY <1>1, <1>2, <1>5, <1>9
  <2>3. take = Smaller(next - m, n2 - m)
    <3>1. Len(input) - (m - n) = n2 - m
      BY <1>5
    <3>2. BLOCK_LEN - Len(block) = next - m
      <4> HIDE DEF block, begin, next
      <4> QED
        BY <1>2, <1>5
    <3>3. ready.block = block
      <4> HIDE DEF block
      <4> QED
        BY <2>1
    <3> HIDE DEF block, input, ready, next
    <3> QED
      BY <3>1, <3>2, <3>3
  <2> HIDE DEF take
  <2>4. take \in Nat \ {0} /\ m + take <= next /\ m + take <= n2
    <3> HIDE DEF next, begin
    <3> QED
      BY <1>2, <2>2, <2>3 DEF Smaller
  <2>5. m2 \in Nat /\ m < m2 /\ m2 <= n2 /\ m2 - n = (m - n) + take /\ m2 <= next
    BY <2>4
  <2>6. InChunk(k, m2) /\ m2 <= e
    <3>1. s <= m2 /\ m2 <= e
      <4> HIDE DEF s, e, m2
      <4> QED
        BY <1>2, <1>3, <2>5
    <3> QED
      BY <3>1 DEF InChunk
  <2>7. ChunkAfter(k, m2) = [cv |-> IF b = 0 THEN IV ELSE Chain(k, m2)[b - 1], counter |-> k,
                             block |-> Bytes(begin, m2), blocks_compressed |-> b]
    <3>1. begin < m2
      <4> HIDE DEF begin, m2
      <4> QED
        BY <1>1, <1>2, <2>5
    <3>2. BlockStart(k, b) < m2 /\ m2 <= BlockStart(k, b + 1)
      BY <2>5, <3>1
    <3>3. m2 <= (k + 1) * CHUNK_LEN
      BY <2>6
    <3> HIDE DEF m2, b
    <3> QED
      BY <1>1, <2>5, <3>2, <3>3, ChunkAfterIs
  <2>8. cv = IF b = 0 THEN IV ELSE Chain(k, m2)[b - 1]
    <3>1. m <= m2
      BY <2>5
    <3> HIDE DEF m2
    <3> QED
      BY <2>5, <3>1, CvKept
  <2>9. block \o SubSeq(input, (m - n) + 1, (m - n) + take) = Bytes(begin, m2)
    <3>1. SubSeq(input, (m - n) + 1, (m - n) + take) = Bytes(m, m2)
      BY <1>6, <2>4
    <3>2. m <= m2
      BY <2>5
    <3>3. Bytes(begin, m) \o Bytes(m, m2) = Bytes(begin, m2)
      <4> HIDE DEF begin, m2
      <4> QED
        BY <1>1, <1>2, <2>5, <3>2, BytesJoin
    <3> HIDE DEF input, m2
    <3> QED
      BY <3>1, <3>3
  <2> DEFINE more == SubSeq(input, (m - n) + 1, (m - n) + take)
  <2>10. [ready EXCEPT !.block = @ \o more] = ChunkAfter(k, m2)
    <3>1. block \o more = Bytes(begin, m2)
      BY <2>9
    <3> HIDE DEF ready, m2, b, cv, block, more
    <3>2. [ready EXCEPT !.block = @ \o more]
            = [cv |-> cv, counter |-> k, block |-> block \o more, blocks_compressed |-> b]
      <4>1. ready.block = block
        BY <2>1
      <4>2. \A x : [ready EXCEPT !.block = x]
                    = [cv |-> cv, counter |-> k, block |-> x, blocks_compressed |-> b]
        BY <2>1
      <4> QED
        BY <4>1, <4>2
    <3> QED
      BY <2>7, <2>8, <3>1, <3>2
  <2>11. TakeBlock([chunk |-> before, taken |-> m - n], input)
           = [chunk |-> ChunkAfter(k, m2), taken |-> m2 - n]
    <3>1. TakeBlock([chunk |-> before, taken |-> m - n], input)
            = [chunk |-> [ready EXCEPT !.block = @ \o more], taken |-> (m - n) + take]
      BY <1>7
    <3> HIDE DEF m2, ready, before, input, more
    <3> QED
      BY <2>5, <2>10, <3>1
  <2> HIDE DEF m2, before
  <2> QED
    BY <1>4, <2>5, <2>6, <2>11 DEF ChunkTurn
<1> QED
  BY <1>8, <1>9

LEMMA BetweenInChunk ==
    ASSUME NEW k \in Nat, NEW n \in Nat, NEW m \in Nat, NEW n2 \in Nat,
           InChunk(k, n), InChunk(k, n2), n <= m, m <= n2
    PROVE  InChunk(k, m)
<1> DEFINE s == k * CHUNK_LEN
           e == (k + 1) * CHUNK_LEN
<1>1. s \in Nat /\ e \in Nat
  BY Starts, Products
<1>2. s <= n /\ n2 <= e
  BY DEF InChunk
<1> HIDE DEF s, e
<1>3. s <= m /\ m <= e
  BY <1>1, <1>2
<1> QED
  BY <1>3 DEF InChunk, s, e

(* ChunkState.update. *)
LEMMA UpdateChunkExact ==
    ASSUME NEW k \in Nat, NEW n \in Nat, NEW n2 \in Nat, InChunk(k, n), InChunk(k, n2), n <= n2
    PROVE  update_chunk(ChunkAfter(k, n), Bytes(n, n2)) = ChunkAfter(k, n2)
<1> DEFINE c == ChunkAfter(k, n)
           input == Bytes(n, n2)
           State(m) == ChunkTurn(k, n, m)
<1>1. PICK turn : ChunkTurns(turn, c, input)
  BY ChunkLoop
<1>2. /\ turn[0] = [chunk |-> c, taken |-> 0]
      /\ \A j \in Nat : turn[j + 1] = TakeBlock(turn[j], input)
      /\ update_chunk(c, input) = turn[Len(input)].chunk
  BY <1>1 DEF ChunkTurns
<1>3. Len(input) = n2 - n
  BY BytesAre
<1> DEFINE S == {j \in Nat : \E m \in Nat : /\ n <= m /\ m <= n2 /\ InChunk(k, m)
                                            /\ m = n2 \/ j <= m - n
                                            /\ turn[j] = State(m)}
<1>4. 0 \in S
  <2>1. turn[0] = State(n)
    <3>1. n - n = 0
      OBVIOUS
    <3> QED
      BY <1>2, <3>1 DEF ChunkTurn
  <2>2. n <= n /\ 0 <= n - n
    OBVIOUS
  <2> HIDE DEF State
  <2> QED
    BY <2>1, <2>2
<1>5. ASSUME NEW j \in Nat, j \in S
      PROVE  j + 1 \in S
  <2>1. PICK m \in Nat : /\ n <= m /\ m <= n2 /\ InChunk(k, m)
                         /\ m = n2 \/ j <= m - n
                         /\ turn[j] = State(m)
    BY <1>5
  <2>2. turn[j + 1] = TakeBlock(State(m), input)
    BY <1>2, <2>1
  <2>3. CASE m = n2
    <3>1. TakeBlock(State(m), input) = State(m)
      <4>1. m - n = Len(input)
        BY <1>3, <2>3
      <4>2. State(m).taken = m - n
        BY DEF ChunkTurn
      <4> HIDE DEF State, input
      <4> QED
        BY <4>1, <4>2 DEF TakeBlock
    <3> HIDE DEF State
    <3> QED
      BY <2>1, <2>2, <2>3, <3>1
  <2>4. CASE m # n2
    <3>1. m < n2
      BY <2>1, <2>4
    <3>2. \E m2 \in Nat : /\ m < m2 /\ m2 <= n2 /\ InChunk(k, m2)
                          /\ TakeBlock(State(m), input) = State(m2)
      BY <2>1, <3>1, TakeBlockExact
    <3>3. PICK m2 \in Nat : /\ m < m2 /\ m2 <= n2 /\ InChunk(k, m2)
                            /\ TakeBlock(State(m), input) = State(m2)
      BY <3>2
    <3>4. n <= m2 /\ j + 1 <= m2 - n
      BY <2>1, <2>4, <3>3
    <3> HIDE DEF State
    <3> QED
      BY <2>2, <3>3, <3>4
  <2> QED
    BY <2>3, <2>4
<1>6. \A j \in S : \E m \in Nat : /\ n <= m /\ m <= n2
                                  /\ m = n2 \/ j <= m - n
                                  /\ turn[j] = State(m)
  <2> HIDE DEF State
  <2> QED
    OBVIOUS
<1> HIDE DEF S
<1>7. n2 - n \in S
  <2>1. n2 - n \in Nat
    OBVIOUS
  <2> QED
    BY <1>4, <1>5, <2>1, SetInduction
<1>8. turn[n2 - n] = State(n2)
  <2>1. PICK m \in Nat : /\ n <= m /\ m <= n2
                         /\ m = n2 \/ n2 - n <= m - n
                         /\ turn[n2 - n] = State(m)
    BY <1>6, <1>7
  <2>2. m = n2
    BY <2>1
  <2> QED
    BY <2>1, <2>2
<1> QED
  BY <1>2, <1>3, <1>8 DEF ChunkTurn

(* The chaining value of a chunk. *)
LEMMA OutputExact ==
    ASSUME NEW k \in Nat, NEW n \in Nat, InChunk(k, n)
    PROVE  chaining_value(chunk_output(ChunkAfter(k, n))) = ChunkNode(k, n)
<1> DEFINE b == LastBlock(k, n)
           begin == BlockStart(k, b)
           block == Bytes(begin, n)
           cv == IF b = 0 THEN IV ELSE Chain(k, n)[b - 1]
<1>1. b \in Nat /\ ChunkEnd(k, n) = n /\ begin <= n /\ n <= BlockStart(k, b + 1)
  BY LastFits
<1>2. begin \in Nat /\ BlockStart(k, b + 1) \in Nat
  <2>1. BlockStart(k, b + 1) = begin + BLOCK_LEN /\ begin \in Nat /\ BLOCK_LEN \in Nat
    BY <1>1, Starts
  <2> HIDE DEF begin
  <2> QED
    BY <2>1
<1>3. Smaller(BlockStart(k, b + 1), ChunkEnd(k, n)) = n
  BY <1>1, <1>2 DEF Smaller
<1>4. BlockOf(k, b, n) = block
  BY <1>3 DEF BlockOf
<1>5. FlagsOf(k, b, n) = (IF b = 0 THEN {"CHUNK_START"} ELSE {}) \cup {"CHUNK_END"}
  BY DEF FlagsOf
<1>6. ChunkNode(k, n) = compress(cv, block, k, Len(block),
                                 (IF b = 0 THEN {"CHUNK_START"} ELSE {}) \cup {"CHUNK_END"})
  <2>1. Chain(k, n)[b] = compress(cv, BlockOf(k, b, n), k, Len(BlockOf(k, b, n)),
                                  FlagsOf(k, b, n))
    BY <1>1, ChainRule
  <2>2. ChunkNode(k, n) = Chain(k, n)[b]
    BY DEF ChunkNode
  <2> HIDE DEF b, block, cv
  <2> QED
    BY <1>4, <1>5, <2>1, <2>2
<1>7. ChunkAfter(k, n) = [cv |-> cv, counter |-> k, block |-> block, blocks_compressed |-> b]
  BY DEF ChunkAfter
<1> HIDE DEF b, block, cv
<1>8. chunk_output(ChunkAfter(k, n))
        = Output(cv, block, k, Len(block),
                 (IF b = 0 THEN {"CHUNK_START"} ELSE {}) \cup {"CHUNK_END"})
  BY <1>7 DEF chunk_output, start_flag
<1> QED
  BY <1>6, <1>8 DEF chaining_value, Output, compress

(* What a chunk, a subtree, the roots are, once the input has passed them. *)
LEMMA ChunkNodeStable ==
    ASSUME NEW k \in Nat, NEW n \in Nat, NEW n2 \in Nat,
           (k + 1) * CHUNK_LEN <= n, (k + 1) * CHUNK_LEN <= n2
    PROVE  ChunkNode(k, n) = ChunkNode(k, n2)
<1> DEFINE s == k * CHUNK_LEN
           e == (k + 1) * CHUNK_LEN
<1>1. s \in Nat /\ e = s + CHUNK_LEN /\ CHUNK_LEN \in Nat \ {0}
  BY Starts
<1>2. e <= n /\ e <= n2
  OBVIOUS
<1> HIDE DEF s, e
<1>3. ASSUME NEW x \in {n, n2}
      PROVE  ChunkEnd(k, x) = e /\ x # s /\ s < x
  <2>1. ChunkEnd(k, x) = IF e < x THEN e ELSE x
    BY DEF ChunkEnd, Smaller, e
  <2> QED
    BY <1>1, <1>2, <2>1
<1>4. ASSUME NEW x \in {n, n2}
      PROVE  LastBlock(k, x) = (e - s - 1) \div BLOCK_LEN
  BY <1>3 DEF LastBlock, s
<1>5. LastBlock(k, n) = LastBlock(k, n2) /\ ChunkEnd(k, n) = ChunkEnd(k, n2)
  BY <1>3, <1>4
<1>6. \A b \in Nat : BlockOf(k, b, n) = BlockOf(k, b, n2) /\ FlagsOf(k, b, n) = FlagsOf(k, b, n2)
  BY <1>5 DEF BlockOf, FlagsOf
<1> DEFINE S == {b \in Nat : Chain(k, n)[b] = Chain(k, n2)[b]}
<1>7. 0 \in S
  <2>1. \A x \in {n, n2} : Chain(k, x)[0] = compress(IV, BlockOf(k, 0, x), k,
                                                     Len(BlockOf(k, 0, x)), FlagsOf(k, 0, x))
    BY ChainRule
  <2> QED
    BY <1>6, <2>1
<1>8. ASSUME NEW b \in Nat, b \in S
      PROVE  b + 1 \in S
  <2> DEFINE d == b + 1
  <2>1. d \in Nat /\ d # 0 /\ d - 1 = b
    OBVIOUS
  <2> HIDE DEF d
  <2>2. \A x \in {n, n2} : Chain(k, x)[d] = compress(Chain(k, x)[b], BlockOf(k, d, x), k,
                                                    Len(BlockOf(k, d, x)), FlagsOf(k, d, x))
    BY <2>1, ChainRule
  <2>3. Chain(k, n)[b] = Chain(k, n2)[b]
    BY <1>8
  <2>4. Chain(k, n)[d] = Chain(k, n2)[d]
    BY <1>6, <2>1, <2>2, <2>3
  <2> QED
    BY <2>1, <2>4 DEF d
<1> HIDE DEF S
<1>9. LastBlock(k, n) \in S
  <2>1. k * CHUNK_LEN < n
    BY <1>3 DEF s
  <2>2. LastBlock(k, n) \in Nat
    BY <2>1, LastBlockFits
  <2> QED
    BY <1>7, <1>8, <2>2, SetInduction
<1> QED
  BY <1>5, <1>9 DEF S, ChunkNode

LEMMA SubtreeStable ==
    ASSUME NEW first \in Nat, NEW m \in Nat \ {0}, NEW n \in Nat, NEW n2 \in Nat,
           (first + m) * CHUNK_LEN <= n, (first + m) * CHUNK_LEN <= n2
    PROVE  Subtree(first, m, n) = Subtree(first, m, n2)
<1> DEFINE Good(w) == \A f \in Nat : (f + w) * CHUNK_LEN <= n /\ (f + w) * CHUNK_LEN <= n2
                                     => Subtree(f, w, n) = Subtree(f, w, n2)
           S == {w \in Nat : \A v \in 1 .. w : Good(v)}
<1>1. ASSUME NEW w \in Nat \ {0}, \A v \in 1 .. w - 1 : Good(v)
      PROVE  Good(w)
  <2> SUFFICES ASSUME NEW f \in Nat, (f + w) * CHUNK_LEN <= n, (f + w) * CHUNK_LEN <= n2
               PROVE  Subtree(f, w, n) = Subtree(f, w, n2)
    OBVIOUS
  <2>1. CASE w = 1
    <3>1. ChunkNode(f, n) = ChunkNode(f, n2)
      BY <2>1, ChunkNodeStable
    <3>2. Subtree(f, w, n) = ChunkNode(f, n) /\ Subtree(f, w, n2) = ChunkNode(f, n2)
      BY <2>1, SubtreeRule
    <3> QED
      BY <3>1, <3>2
  <2>2. CASE w # 1
    <3> DEFINE l == LeftSize(w)
               r == w - l
    <3>1. w >= 2
      BY <2>2
    <3>2. PICK e \in Nat : pow2[e] < w /\ l = pow2[e]
      BY <3>1, LeftSizeFits
    <3>3. pow2[e] \in Nat \ {0}
      BY Pow2Facts
    <3>4. l \in 1 .. w - 1 /\ r \in 1 .. w - 1 /\ f + l \in Nat /\ (f + l) + r = f + w
          /\ l \in Nat /\ r \in Nat
      BY <3>2, <3>3
    <3>5. Good(l) /\ Good(r)
      BY <1>1, <3>4
    <3> HIDE DEF l
    <3>6. (f + l) * CHUNK_LEN <= n /\ (f + l) * CHUNK_LEN <= n2
      <4>1. CHUNK_LEN \in Nat
        BY Blake3Assumption
      <4>2. f + l < f + w /\ f + l \in Nat /\ f + w \in Nat
        BY <3>4
      <4>3. (f + l) * CHUNK_LEN + CHUNK_LEN <= (f + w) * CHUNK_LEN
        BY <4>1, <4>2, Order
      <4> DEFINE x == (f + l) * CHUNK_LEN
                 y == (f + w) * CHUNK_LEN
      <4>4. x \in Nat /\ y \in Nat
        BY <4>1, <4>2, Products
      <4>5. x + CHUNK_LEN <= y /\ y <= n /\ y <= n2
        BY <4>3
      <4> HIDE DEF x, y
      <4>6. x <= n /\ x <= n2
        BY <4>1, <4>4, <4>5
      <4> QED
        BY <4>6 DEF x
    <3>7. Subtree(f, l, n) = Subtree(f, l, n2)
      BY <3>5, <3>6
    <3>8. Subtree(f + l, r, n) = Subtree(f + l, r, n2)
      <4> DEFINE g == f + l
      <4>1. g \in Nat /\ g + r = f + w
        BY <3>4
      <4> HIDE DEF g, r
      <4>2. (g + r) * CHUNK_LEN <= n /\ (g + r) * CHUNK_LEN <= n2
        BY <4>1
      <4>3. Subtree(g, r, n) = Subtree(g, r, n2)
        BY <3>5, <4>1, <4>2
      <4> QED
        BY <4>3 DEF g
    <3>9. \A x \in {n, n2} : Subtree(f, w, x)
                               = parent_cv(Subtree(f, l, x), Subtree(f + l, r, x))
      <4>1. ~(w <= 1)
        BY <3>1
      <4>2. ASSUME NEW x \in {n, n2}
            PROVE  Subtree(f, w, x) = IF w <= 1 THEN ChunkNode(f, x)
                                      ELSE parent_cv(Subtree(f, LeftSize(w), x),
                                                     Subtree(f + LeftSize(w), w - LeftSize(w), x))
        BY SubtreeRule
      <4> QED
        BY <4>1, <4>2 DEF l
    <3> QED
      BY <3>7, <3>8, <3>9
  <2> QED
    BY <2>1, <2>2
<1> HIDE DEF Good
<1>2. 0 \in S
  OBVIOUS
<1>3. ASSUME NEW w \in Nat, w \in S
      PROVE  w + 1 \in S
  <2>1. w + 1 \in Nat \ {0} /\ (w + 1) - 1 = w
    OBVIOUS
  <2>2. Good(w + 1)
    BY <1>1, <1>3, <2>1
  <2>3. \A v \in 1 .. w + 1 : v = w + 1 \/ v \in 1 .. w
    OBVIOUS
  <2> QED
    BY <1>3, <2>2, <2>3
<1> HIDE DEF S
<1>4. m \in S
  BY <1>2, <1>3, SetInduction
<1>5. m \in 1 .. m
  OBVIOUS
<1>6. Good(m)
  BY <1>4, <1>5 DEF S
<1> QED
  BY <1>6 DEF Good

LEMMA RootsStable ==
    ASSUME NEW q \in Nat, NEW d \in Nat, NEW n \in Nat, NEW n2 \in Nat,
           q * pow2[d] * CHUNK_LEN <= n, q * pow2[d] * CHUNK_LEN <= n2
    PROVE  Roots(q, d, n) = Roots(q, d, n2)
<1> DEFINE Good(k) == \A i \in Nat : k * pow2[i] * CHUNK_LEN <= n /\ k * pow2[i] * CHUNK_LEN <= n2
                                     => Roots(k, i, n) = Roots(k, i, n2)
           S == {k \in Nat : \A j \in 0 .. k : Good(j)}
<1>1. Good(0)
  BY RootsRule
<1>2. ASSUME NEW h \in Nat, NEW k \in Nat, k = 2 * h \/ k = 2 * h + 1, Good(h)
      PROVE  Good(k)
  <2> SUFFICES ASSUME NEW i \in Nat,
                      k * pow2[i] * CHUNK_LEN <= n, k * pow2[i] * CHUNK_LEN <= n2
               PROVE  Roots(k, i, n) = Roots(k, i, n2)
    OBVIOUS
  <2> DEFINE p == pow2[i]
             first == 2 * h * p
  <2>1. p \in Nat \ {0} /\ pow2[i + 1] = 2 * p /\ i + 1 \in Nat /\ CHUNK_LEN \in Nat
    BY Pow2Facts, Blake3Assumption
  <2>2. h * pow2[i + 1] = first /\ first \in Nat
    <3>1. h * pow2[i + 1] = h * (2 * p) /\ h * (2 * p) = (h * 2) * p /\ h * 2 = 2 * h
      BY <2>1, Products
    <3> QED
      BY <2>1, <3>1, Products
  <2>3. k * p = first \/ k * p = first + p
    <3>1. 2 * h \in Nat /\ 1 * p = p
      BY <2>1
    <3>2. (2 * h + 1) * p = 2 * h * p + 1 * p
      BY <2>1, <3>1, Products
    <3> QED
      BY <1>2, <2>1, <2>2, <3>1, <3>2
  <2>4. first * CHUNK_LEN <= n /\ first * CHUNK_LEN <= n2
    <3> DEFINE x == first * CHUNK_LEN
               y == p * CHUNK_LEN
               z == k * p * CHUNK_LEN
    <3>1. x \in Nat /\ y \in Nat /\ (z = x \/ z = x + y)
      <4> HIDE DEF first, p
      <4>1. x \in Nat /\ y \in Nat /\ (first + p) * CHUNK_LEN = x + y
        BY <2>1, <2>2, Products
      <4> QED
        BY <2>3, <4>1
    <3>2. z <= n /\ z <= n2
      OBVIOUS
    <3> HIDE DEF x, y, z
    <3>3. x <= n /\ x <= n2
      BY <3>1, <3>2
    <3> QED
      BY <3>3 DEF x
  <2>5. Roots(2 * h, i, n) = Roots(2 * h, i, n2)
    <3>1. Roots(h, i + 1, n) = Roots(h, i + 1, n2)
      <4>1. h * pow2[i + 1] * CHUNK_LEN <= n /\ h * pow2[i + 1] * CHUNK_LEN <= n2
        BY <2>2, <2>4
      <4> QED
        BY <1>2, <2>1, <4>1
    <3> QED
      BY <3>1, RootsDouble
  <2>6. CASE k = 2 * h
    BY <2>5, <2>6
  <2>7. CASE k = 2 * h + 1
    <3>1. Subtree(first, p, n) = Subtree(first, p, n2)
      <4>1. k * p = first + p
        <5>1. 2 * h \in Nat /\ 1 * p = p
          BY <2>1
        <5>2. (2 * h + 1) * p = 2 * h * p + 1 * p
          BY <2>1, <5>1, Products
        <5> QED
          BY <2>7, <5>1, <5>2
      <4>2. (first + p) * CHUNK_LEN <= n /\ (first + p) * CHUNK_LEN <= n2
        BY <4>1
      <4> HIDE DEF first, p
      <4> QED
        BY <2>1, <2>2, <4>2, SubtreeStable
    <3>2. \A x \in {n, n2} : Roots(2 * h + 1, i, x)
                               = Append(Roots(2 * h, i, x), Subtree(2 * h * pow2[i], pow2[i], x))
      BY RootsOdd
    <3> QED
      BY <2>5, <2>7, <3>1, <3>2
  <2> QED
    BY <1>2, <2>6, <2>7
<1> HIDE DEF Good
<1>3. 0 \in S
  <2>1. \A j \in 0 .. 0 : j = 0
    OBVIOUS
  <2> QED
    BY <1>1, <2>1
<1>4. ASSUME NEW k \in Nat, k \in S
      PROVE  k + 1 \in S
  <2>1. k + 1 \in Nat
    OBVIOUS
  <2>2. PICK h \in Nat : (k + 1 = 2 * h \/ k + 1 = 2 * h + 1) /\ h < k + 1
    <3> DEFINE r == k + 1
    <3>1. r \in Nat /\ r # 0
      OBVIOUS
    <3> HIDE DEF r
    <3>2. \E h \in Nat : (r = 2 * h \/ r = 2 * h + 1) /\ h < r
      BY <3>1, HalfOf
    <3> QED
      BY <3>2 DEF r
  <2>3. h \in 0 .. k
    BY <2>2
  <2>4. Good(k + 1)
    BY <1>2, <1>4, <2>1, <2>2, <2>3
  <2>5. \A j \in 0 .. k + 1 : j = k + 1 \/ j \in 0 .. k
    OBVIOUS
  <2> QED
    BY <1>4, <2>4, <2>5
<1> HIDE DEF S
<1>5. q \in S
  BY <1>3, <1>4, SetInduction
<1>6. q \in 0 .. q
  OBVIOUS
<1>7. Good(q)
  BY <1>5, <1>6 DEF S
<1> QED
  BY <1>7 DEF Good

(* How many chunks there are. *)
LEMMA ChunksIs ==
    ASSUME NEW k \in Nat, NEW n \in Nat,
           \/ n = 0 /\ k = 0
           \/ k * CHUNK_LEN < n /\ n <= (k + 1) * CHUNK_LEN
    PROVE  Chunks(n) = k + 1
<1>1. CASE n = 0 /\ k = 0
  BY <1>1 DEF Chunks
<1>2. CASE k * CHUNK_LEN < n /\ n <= (k + 1) * CHUNK_LEN
  <2> DEFINE s == k * CHUNK_LEN
             e == (k + 1) * CHUNK_LEN
             x == n + CHUNK_LEN - 1
             q == k + 1
  <2>1. s \in Nat /\ e = s + CHUNK_LEN /\ CHUNK_LEN \in Nat \ {0}
    BY Starts
  <2>2. s < n /\ n <= e
    BY <1>2
  <2> HIDE DEF s, e
  <2>3. x \in Nat /\ e <= x /\ x < e + CHUNK_LEN /\ n # 0
    BY <2>1, <2>2
  <2>4. q \in Nat /\ e = q * CHUNK_LEN
    BY DEF e
  <2> HIDE DEF x, q
  <2>5. x \div CHUNK_LEN = q
    BY <2>1, <2>3, <2>4, DivIs
  <2>6. Chunks(n) = x \div CHUNK_LEN
    BY <2>3 DEF Chunks, x
  <2> QED
    BY <2>5, <2>6 DEF q
<1> QED
  BY <1>1, <1>2

LEMMA ChunksFit ==
    ASSUME NEW n \in Nat
    PROVE  \E k \in Nat : /\ Chunks(n) = k + 1 /\ InChunk(k, n)
                          /\ (n = 0 /\ k = 0) \/ k * CHUNK_LEN < n
<1>1. CHUNK_LEN \in Nat \ {0}
  BY Blake3Assumption
<1>2. CASE n = 0
  <2>1. Chunks(n) = 0 + 1
    BY <1>2 DEF Chunks
  <2>2. 0 * CHUNK_LEN = 0 /\ (0 + 1) * CHUNK_LEN = CHUNK_LEN
    BY <1>1
  <2>3. InChunk(0, n)
    BY <1>1, <1>2, <2>2 DEF InChunk
  <2> QED
    BY <1>2, <2>1, <2>3
<1>3. CASE n # 0
  <2> DEFINE k == (n - 1) \div CHUNK_LEN
             s == k * CHUNK_LEN
             e == (k + 1) * CHUNK_LEN
  <2>1. n - 1 \in Nat
    BY <1>3
  <2>2. k \in Nat /\ s <= n - 1 /\ n - 1 < s + CHUNK_LEN
    BY <1>1, <2>1, DivFits
  <2> HIDE DEF k
  <2>3. s \in Nat /\ e = s + CHUNK_LEN
    BY <2>2, Starts
  <2> HIDE DEF s, e
  <2>4. s < n /\ n <= e /\ s <= n
    BY <1>1, <2>2, <2>3
  <2>5. k * CHUNK_LEN < n /\ n <= (k + 1) * CHUNK_LEN /\ InChunk(k, n)
    BY <2>4 DEF s, e, InChunk
  <2>6. Chunks(n) = k + 1
    BY <2>2, <2>5, ChunksIs
  <2> QED
    BY <2>2, <2>5, <2>6
<1> QED
  BY <1>2, <1>3

(* ChunkState.len. *)
LEMMA LenExact ==
    ASSUME NEW k \in Nat, NEW n \in Nat, InChunk(k, n)
    PROVE  len(ChunkAfter(k, n)) = n - k * CHUNK_LEN
<1> DEFINE b == LastBlock(k, n)
           begin == BlockStart(k, b)
           s == k * CHUNK_LEN
           t == b * BLOCK_LEN
<1>1. b \in Nat /\ begin <= n
  BY LastFits
<1>2. begin \in Nat /\ begin = s + t /\ s \in Nat /\ t \in Nat /\ BLOCK_LEN \in Nat
  <2> HIDE DEF b
  <2> QED
    BY <1>1, Starts, Products
<1>3. BLOCK_LEN * b = t
  <2> HIDE DEF b
  <2> QED
    BY <1>1, <1>2
<1>4. Len(Bytes(begin, n)) = n - begin
  <2> HIDE DEF begin
  <2> QED
    BY <1>1, <1>2, BytesAre
<1>5. len(ChunkAfter(k, n)) = BLOCK_LEN * b + Len(Bytes(begin, n))
  <2>1. ChunkAfter(k, n).blocks_compressed = b /\ ChunkAfter(k, n).block = Bytes(begin, n)
    BY DEF ChunkAfter
  <2> QED
    BY <2>1 DEF len
<1> HIDE DEF b, begin, s, t
<1>6. t + (n - begin) = n - s
  BY <1>1, <1>2
<1> QED
  BY <1>3, <1>4, <1>5, <1>6 DEF s

-----------------------------------------------------------------------------
(* The hasher. *)

(* The hasher when the input has reached m; and in an update from n on.    *)
HasherAfter(m) ==
    [chunk |-> ChunkAfter(Chunks(m) - 1, m), stack |-> Roots(Chunks(m) - 1, 0, m)]
HasherTurn(n, m) == [hasher |-> HasherAfter(m), taken |-> m - n]

LEMMA HasherAfterIs ==
    ASSUME NEW k \in Nat, NEW m \in Nat, Chunks(m) = k + 1
    PROVE  HasherAfter(m) = [chunk |-> ChunkAfter(k, m), stack |-> Roots(k, 0, m)]
<1>1. Chunks(m) - 1 = k
  OBVIOUS
<1> QED
  BY <1>1 DEF HasherAfter

(* More input does not change the roots of the chunks it is past.          *)
LEMMA RootsKept ==
    ASSUME NEW k \in Nat, NEW m \in Nat, NEW m2 \in Nat, k * CHUNK_LEN <= m, m <= m2
    PROVE  Roots(k, 0, m) = Roots(k, 0, m2)
<1> DEFINE s == k * CHUNK_LEN
<1>1. k * pow2[0] * CHUNK_LEN = s
  <2>1. k * pow2[0] = k
    BY Pow2Facts
  <2> QED
    BY <2>1
<1>2. s \in Nat
  BY Starts
<1>3. s <= m
  OBVIOUS
<1> HIDE DEF s
<1>4. s <= m2
  BY <1>2, <1>3
<1> QED
  BY <1>1, <1>3, <1>4, RootsStable

(* A chunk that is full gives way to the next one. *)
LEMMA NextChunkExact ==
    ASSUME NEW k \in Nat, NEW m \in Nat, m = (k + 1) * CHUNK_LEN
    PROVE  NextChunk([chunk |-> ChunkAfter(k, m), stack |-> Roots(k, 0, m)])
             = [chunk |-> ChunkAfter(k + 1, m), stack |-> Roots(k + 1, 0, m)]
<1> DEFINE h == [chunk |-> ChunkAfter(k, m), stack |-> Roots(k, 0, m)]
           q == k + 1
<1>1. InChunk(k, m)
  <2> DEFINE s == k * CHUNK_LEN
  <2>1. s \in Nat /\ (k + 1) * CHUNK_LEN = s + CHUNK_LEN /\ CHUNK_LEN \in Nat
    BY Starts
  <2> HIDE DEF s
  <2>2. s <= m /\ m <= (k + 1) * CHUNK_LEN
    BY <2>1
  <2> QED
    BY <2>2 DEF InChunk, s
<1>2. chaining_value(chunk_output(h.chunk)) = ChunkNode(k, m)
  BY <1>1, OutputExact
<1>3. add_chunk_chaining_value(Roots(k, 0, m), ChunkNode(k, m), k + 1) = Roots(k + 1, 0, m)
  BY MergeExact
<1>4. ChunkAfter(k, m).counter = k
  BY DEF ChunkAfter
<1>5. NewChunk(q) = ChunkAfter(q, m)
  <2>1. q \in Nat /\ m = q * CHUNK_LEN
    OBVIOUS
  <2> HIDE DEF q
  <2>2. m <= (q + 1) * CHUNK_LEN
    <3> DEFINE s == q * CHUNK_LEN
    <3>1. (q + 1) * CHUNK_LEN = s + CHUNK_LEN /\ CHUNK_LEN \in Nat /\ s \in Nat
      BY <2>1, Starts
    <3> HIDE DEF s
    <3>2. m = s
      BY <2>1 DEF s
    <3> QED
      BY <3>1, <3>2
  <2>3. 0 \in Nat /\ BlockStart(q, 0) = m
    BY <2>1, Starts
  <2>4. ChunkAfter(q, m) = [cv |-> IV, counter |-> q, block |-> Bytes(m, m), blocks_compressed |-> 0]
    <3>1. LastBlock(q, m) = 0
      BY <2>1, <2>2, LastBlockIs
    <3> QED
      BY <2>3, <3>1 DEF ChunkAfter
  <2>5. Bytes(m, m) = <<>>
    BY BytesNone
  <2> QED
    BY <2>4, <2>5 DEF NewChunk
<1> QED
  BY <1>2, <1>3, <1>4, <1>5 DEF NextChunk

(* A turn of Blake3Hasher.update. *)
LEMMA TakeChunkExact ==
    ASSUME NEW n \in Nat, NEW m \in Nat, NEW n2 \in Nat, n <= m, m < n2
    PROVE  \E m2 \in Nat : /\ m < m2 /\ m2 <= n2
                           /\ TakeChunk(HasherTurn(n, m), Bytes(n, n2)) = HasherTurn(n, m2)
<1>1. PICK k \in Nat : /\ Chunks(m) = k + 1 /\ InChunk(k, m)
                       /\ (m = 0 /\ k = 0) \/ k * CHUNK_LEN < m
  BY ChunksFit
<1> DEFINE s == k * CHUNK_LEN
           e == (k + 1) * CHUNK_LEN
           input == Bytes(n, n2)
           chunk == ChunkAfter(k, m)
           before == [chunk |-> chunk, stack |-> Roots(k, 0, m)]
           ready == IF len(chunk) = CHUNK_LEN THEN NextChunk(before) ELSE before
           take == Smaller(CHUNK_LEN - len(ready.chunk), Len(input) - (m - n))
           more == SubSeq(input, (m - n) + 1, (m - n) + take)
           m2 == m + take
<1>2. /\ s \in Nat /\ e = s + CHUNK_LEN /\ CHUNK_LEN \in Nat \ {0} /\ e \in Nat
      /\ s <= m /\ m <= e
  <2>1. s \in Nat /\ e = s + CHUNK_LEN /\ CHUNK_LEN \in Nat \ {0}
    BY Starts
  <2>2. s <= m /\ m <= e
    BY <1>1 DEF InChunk
  <2> HIDE DEF s, e
  <2> QED
    BY <2>1, <2>2
<1>3. Len(input) = n2 - n
  <2>1. n <= n2
    OBVIOUS
  <2> QED
    BY <2>1, BytesAre
<1>4. TakeChunk(HasherTurn(n, m), input)
        = [hasher |-> [ready EXCEPT !.chunk = update_chunk(@, more)], taken |-> (m - n) + take]
  <2>1. HasherTurn(n, m) = [hasher |-> before, taken |-> m - n]
    BY <1>1, HasherAfterIs DEF HasherTurn
  <2>2. m - n # Len(input)
    BY <1>3
  <2> HIDE DEF input, chunk
  <2> QED
    BY <2>1, <2>2 DEF TakeChunk
<1>5. len(chunk) = m - s
  BY <1>1, LenExact
<1>6. ASSUME NEW c \in Nat, c * CHUNK_LEN <= m, m < (c + 1) * CHUNK_LEN,
             ready = [chunk |-> ChunkAfter(c, m), stack |-> Roots(c, 0, m)]
      PROVE  /\ m2 \in Nat /\ m < m2 /\ m2 <= n2
             /\ TakeChunk(HasherTurn(n, m), input) = HasherTurn(n, m2)
  <2> DEFINE u == c * CHUNK_LEN
             v == (c + 1) * CHUNK_LEN
  <2>1. u \in Nat /\ v = u + CHUNK_LEN /\ u <= m /\ m < v
    BY <1>6, Starts
  <2>2. InChunk(c, m)
    <3> HIDE DEF u, v
    <3>1. u <= m /\ m <= v
      BY <1>2, <2>1
    <3> QED
      BY <3>1 DEF InChunk, u, v
  <2>3. len(ready.chunk) = m - u
    <3>1. ready.chunk = ChunkAfter(c, m)
      BY <1>6
    <3> HIDE DEF ready
    <3> QED
      BY <2>2, <3>1, LenExact
  <2>4. take = Smaller(v - m, n2 - m)
    <3>1. Len(input) - (m - n) = n2 - m
      BY <1>3
    <3>2. CHUNK_LEN - len(ready.chunk) = v - m
      <4> HIDE DEF ready, u, v
      <4> QED
        BY <1>2, <2>1, <2>3
    <3> HIDE DEF ready, input, v
    <3> QED
      BY <3>1, <3>2
  <2> HIDE DEF take
  <2>5. take \in Nat \ {0} /\ m + take <= v /\ m + take <= n2
    <3> HIDE DEF u, v
    <3> QED
      BY <1>2, <2>1, <2>4 DEF Smaller
  <2>6. m2 \in Nat /\ m < m2 /\ m <= m2 /\ m2 <= n2 /\ (m - n) + take = m2 - n /\ m2 <= v
    BY <2>5
  <2>7. more = Bytes(m, m2)
    <3> DEFINE from == (m - n) + 1
               to == (m - n) + take
    <3>1. from = m - n + 1 /\ to = m2 - n
      BY <2>6
    <3> HIDE DEF from, to, m2
    <3>2. Part(n, n2, from, to) = Bytes(m, m2)
      BY <2>6, <3>1, BytesPart
    <3> QED
      BY <3>2 DEF Part, from, to
  <2>8. InChunk(c, m2) /\ Chunks(m2) = c + 1
    <3> HIDE DEF u, v, m2
    <3>1. u < m2 /\ u <= m2 /\ m2 <= v
      BY <2>1, <2>6
    <3>2. c * CHUNK_LEN < m2 /\ m2 <= (c + 1) * CHUNK_LEN /\ InChunk(c, m2)
      BY <3>1 DEF InChunk, u, v
    <3> QED
      BY <2>6, <3>2, ChunksIs
  <2>9. update_chunk(ChunkAfter(c, m), more) = ChunkAfter(c, m2)
    <3> HIDE DEF m2, more
    <3> QED
      BY <2>2, <2>6, <2>7, <2>8, UpdateChunkExact
  <2>10. Roots(c, 0, m) = Roots(c, 0, m2)
    <3> HIDE DEF m2
    <3> QED
      BY <1>6, <2>6, RootsKept
  <2>11. HasherAfter(m2) = [chunk |-> ChunkAfter(c, m2), stack |-> Roots(c, 0, m2)]
    <3> HIDE DEF m2
    <3> QED
      BY <2>6, <2>8, HasherAfterIs
  <2>12. [ready EXCEPT !.chunk = update_chunk(@, more)] = HasherAfter(m2)
    <3>1. ready.chunk = ChunkAfter(c, m)
      BY <1>6
    <3>2. \A x : [ready EXCEPT !.chunk = x] = [chunk |-> x, stack |-> Roots(c, 0, m)]
      BY <1>6
    <3> HIDE DEF ready, more, m2
    <3> QED
      BY <2>9, <2>10, <2>11, <3>1, <3>2
  <2> HIDE DEF m2, ready, more, input
  <2> QED
    BY <1>4, <2>6, <2>12 DEF HasherTurn
<1>7. CASE len(chunk) = CHUNK_LEN
  <2>1. m = e
    <3> HIDE DEF s, e, chunk
    <3> QED
      BY <1>2, <1>5, <1>7
  <2> DEFINE q == k + 1
  <2>2. ready = [chunk |-> ChunkAfter(q, m), stack |-> Roots(q, 0, m)]
    <3>1. ready = NextChunk(before)
      BY <1>7
    <3> HIDE DEF ready
    <3> QED
      BY <2>1, <3>1, NextChunkExact
  <2>3. q \in Nat /\ q * CHUNK_LEN = m
    BY <2>1
  <2> HIDE DEF q
  <2>4. q * CHUNK_LEN <= m /\ m < (q + 1) * CHUNK_LEN
    <3> DEFINE u == q * CHUNK_LEN
    <3>1. (q + 1) * CHUNK_LEN = u + CHUNK_LEN
      BY <2>3, Starts
    <3>2. u = m
      BY <2>3
    <3> HIDE DEF u
    <3>3. u <= m /\ m < u + CHUNK_LEN
      BY <1>2, <3>2
    <3> QED
      BY <3>1, <3>3 DEF u
  <2> HIDE DEF ready
  <2> QED
    BY <1>6, <2>2, <2>3, <2>4 DEF ready
<1>8. CASE len(chunk) # CHUNK_LEN
  <2>1. ready = [chunk |-> ChunkAfter(k, m), stack |-> Roots(k, 0, m)]
    BY <1>8
  <2>2. s <= m /\ m < e
    <3> HIDE DEF s, e, chunk
    <3> QED
      BY <1>2, <1>5, <1>8
  <2>3. k * CHUNK_LEN <= m /\ m < (k + 1) * CHUNK_LEN
    BY <2>2
  <2> QED
    BY <1>6, <2>1, <2>3
<1> QED
  BY <1>7, <1>8

(* Blake3Hasher.update. *)
LEMMA UpdateHasherExact ==
    ASSUME NEW n \in Nat, NEW n2 \in Nat, n <= n2
    PROVE  update_hasher(HasherAfter(n), Bytes(n, n2)) = HasherAfter(n2)
<1> DEFINE h == HasherAfter(n)
           input == Bytes(n, n2)
<1>1. PICK turn : HasherTurns(turn, h, input)
  BY HasherLoop
<1>2. /\ turn[0] = [hasher |-> h, taken |-> 0]
      /\ \A j \in Nat : turn[j + 1] = TakeChunk(turn[j], input)
      /\ update_hasher(h, input) = turn[Len(input)].hasher
  BY <1>1 DEF HasherTurns
<1>3. Len(input) = n2 - n
  BY BytesAre
<1> DEFINE S == {j \in Nat : \E m \in Nat : /\ n <= m /\ m <= n2
                                            /\ m = n2 \/ j <= m - n
                                            /\ turn[j] = HasherTurn(n, m)}
<1>4. 0 \in S
  <2>1. turn[0] = HasherTurn(n, n)
    <3>1. n - n = 0
      OBVIOUS
    <3> QED
      BY <1>2, <3>1 DEF HasherTurn
  <2>2. n <= n /\ 0 <= n - n
    OBVIOUS
  <2> QED
    BY <2>1, <2>2
<1>5. ASSUME NEW j \in Nat, j \in S
      PROVE  j + 1 \in S
  <2>1. PICK m \in Nat : /\ n <= m /\ m <= n2
                         /\ m = n2 \/ j <= m - n
                         /\ turn[j] = HasherTurn(n, m)
    BY <1>5
  <2>2. turn[j + 1] = TakeChunk(HasherTurn(n, m), input)
    BY <1>2, <2>1
  <2>3. CASE m = n2
    <3>1. TakeChunk(HasherTurn(n, m), input) = HasherTurn(n, m)
      <4>1. m - n = Len(input)
        BY <1>3, <2>3
      <4>2. HasherTurn(n, m).taken = m - n
        BY DEF HasherTurn
      <4> HIDE DEF input
      <4> QED
        BY <4>1, <4>2 DEF TakeChunk
    <3> QED
      BY <2>1, <2>2, <2>3, <3>1
  <2>4. CASE m # n2
    <3>1. m < n2
      BY <2>1, <2>4
    <3>2. PICK m2 \in Nat : /\ m < m2 /\ m2 <= n2
                            /\ TakeChunk(HasherTurn(n, m), input) = HasherTurn(n, m2)
      BY <2>1, <3>1, TakeChunkExact
    <3>3. n <= m2 /\ j + 1 <= m2 - n
      BY <2>1, <2>4, <3>2
    <3> QED
      BY <2>2, <3>2, <3>3
  <2> QED
    BY <2>3, <2>4
<1>6. \A j \in S : \E m \in Nat : /\ n <= m /\ m <= n2
                                  /\ m = n2 \/ j <= m - n
                                  /\ turn[j] = HasherTurn(n, m)
  OBVIOUS
<1> HIDE DEF S
<1>7. n2 - n \in S
  <2>1. n2 - n \in Nat
    OBVIOUS
  <2> QED
    BY <1>4, <1>5, <2>1, SetInduction
<1>8. turn[n2 - n] = HasherTurn(n, n2)
  <2>1. PICK m \in Nat : /\ n <= m /\ m <= n2
                         /\ m = n2 \/ n2 - n <= m - n
                         /\ turn[n2 - n] = HasherTurn(n, m)
    BY <1>6, <1>7
  <2>2. m = n2
    BY <2>1
  <2> QED
    BY <2>1, <2>2
<1> QED
  BY <1>2, <1>3, <1>8 DEF HasherTurn

(* Blake3Hasher.finalize. *)
LEMMA FinalizeExact ==
    ASSUME NEW n \in Nat
    PROVE  root_output_bytes(Folded(chunk_output(HasherAfter(n).chunk), HasherAfter(n).stack),
                             OUT_LEN)
             = Digest(n)
<1>1. PICK k \in Nat : Chunks(n) = k + 1 /\ InChunk(k, n)
  BY ChunksFit
<1> DEFINE o == chunk_output(ChunkAfter(k, n))
           whole == Folded(o, Roots(k, 0, n))
<1>2. HasherAfter(n).chunk = ChunkAfter(k, n) /\ HasherAfter(n).stack = Roots(k, 0, n)
  BY <1>1, HasherAfterIs
<1>3. chaining_value(o) = Subtree(k * pow2[0], 1, n)
  <2>1. chaining_value(o) = ChunkNode(k, n)
    BY <1>1, OutputExact
  <2>2. Subtree(k, 1, n) = ChunkNode(k, n)
    BY SubtreeRule
  <2>3. k * pow2[0] = k
    BY Pow2Facts
  <2> QED
    BY <2>1, <2>2, <2>3
<1> HIDE DEF o
<1>4. chaining_value(whole) = Subtree(0, Chunks(n), n)
  <2>1. 1 <= pow2[0] /\ 1 <= 1 /\ 1 \in Nat /\ 0 \in Nat
    BY Pow2Facts
  <2>2. chaining_value(Folded(o, Roots(k, 0, n))) = Subtree(0, k * pow2[0] + 1, n)
    BY <1>3, <2>1, FoldExact
  <2>3. k * pow2[0] + 1 = k + 1
    BY Pow2Facts
  <2> QED
    BY <1>1, <2>2, <2>3
<1>5. ASSUME NEW x
      PROVE  root_output_bytes(x, OUT_LEN) = root_output_bytes(chaining_value(x), OUT_LEN)
  <2>1. /\ chaining_value(x).cv = x.cv /\ chaining_value(x).block = x.block
        /\ chaining_value(x).len = x.len /\ chaining_value(x).flags = x.flags
    BY DEF chaining_value, compress
  <2> QED
    BY <2>1 DEF root_output_bytes
<1>6. root_output_bytes(whole, OUT_LEN) = Digest(n)
  <2> HIDE DEF whole
  <2>1. root_output_bytes(whole, OUT_LEN) = root_output_bytes(chaining_value(whole), OUT_LEN)
    BY <1>5
  <2> QED
    BY <1>4, <2>1 DEF Digest
<1> QED
  BY <1>2, <1>6 DEF o

(* The hasher's state is a function of how many bytes have come in: so     *)
(* every split of the input into updates, and every digest taken in        *)
(* between, leaves the same one.                                           *)
HasherInv ==
    /\ absorbed \in Nat
    /\ [chunk |-> chunk_state, stack |-> cv_stack] = HasherAfter(absorbed)
    /\ IncrementalExact

(* The invariant is inductive: update takes the state for absorbed bytes   *)
(* to the state for more of them, finalize makes the digest of the tree.   *)
THEOREM HasherInduction == HasherSpec => []HasherInv
<1>1. HasherInit => HasherInv
  <2> SUFFICES ASSUME HasherInit
               PROVE  HasherInv
    OBVIOUS
  <2>1. absorbed = 0 /\ digested = -1 /\ chunk_state = NewChunk(0) /\ cv_stack = <<>>
    BY DEF HasherInit
  <2>2. Chunks(0) = 0 + 1
    BY DEF Chunks
  <2>3. HasherAfter(0) = [chunk |-> ChunkAfter(0, 0), stack |-> Roots(0, 0, 0)]
    BY <2>2, HasherAfterIs
  <2>4. Roots(0, 0, 0) = <<>>
    BY RootsRule
  <2>5. ChunkAfter(0, 0) = NewChunk(0)
    <3>1. CHUNK_LEN \in Nat \ {0} /\ 0 * CHUNK_LEN = 0 /\ (0 + 1) * CHUNK_LEN = CHUNK_LEN
      BY Blake3Assumption
    <3>2. LastBlock(0, 0) = 0
      BY <3>1, LastBlockIs
    <3>3. BlockStart(0, 0) = 0
      BY <3>1, Starts
    <3>4. Bytes(0, 0) = <<>>
      BY BytesNone
    <3> QED
      BY <3>2, <3>3, <3>4 DEF ChunkAfter, NewChunk
  <2> QED
    BY <2>1, <2>3, <2>4, <2>5 DEF HasherInv, IncrementalExact
<1>2. HasherInv /\ [HasherNext]_hasher_vars => HasherInv'
  <2> SUFFICES ASSUME HasherInv, [HasherNext]_hasher_vars
               PROVE  HasherInv'
    OBVIOUS
  <2>1. ASSUME NEW n \in 0 .. MaxLen, update(n)
        PROVE  HasherInv'
    <3> DEFINE h == update_hasher([chunk |-> chunk_state, stack |-> cv_stack],
                                  Bytes(absorbed, absorbed + n))
               past == absorbed + n
    <3>1. absorbed' = past /\ digest' = digest /\ digested' = digested
          /\ chunk_state' = h.chunk /\ cv_stack' = h.stack
      BY <2>1 DEF update
    <3>2. past \in Nat /\ absorbed \in Nat /\ absorbed <= past
      BY Blake3Assumption DEF HasherInv
    <3>3. h = HasherAfter(past)
      <4> HIDE DEF past
      <4>1. update_hasher(HasherAfter(absorbed), Bytes(absorbed, past)) = HasherAfter(past)
        BY <3>2, UpdateHasherExact
      <4> QED
        BY <4>1 DEF HasherInv, past
    <3>4. [chunk |-> h.chunk, stack |-> h.stack] = HasherAfter(past)
      <4> HIDE DEF h, past
      <4> QED
        BY <3>3 DEF HasherAfter
    <3>5. IncrementalExact'
      BY <3>1 DEF HasherInv, IncrementalExact
    <3> HIDE DEF h, past
    <3>6. [chunk |-> chunk_state', stack |-> cv_stack'] = HasherAfter(past)
      BY <3>1, <3>4
    <3>7. [chunk |-> chunk_state, stack |-> cv_stack]' = HasherAfter(absorbed)'
      BY <3>1, <3>6 DEF HasherAfter
    <3> QED
      BY <3>1, <3>2, <3>5, <3>7 DEF HasherInv
  <2>2. CASE finalize
    <3>1. /\ digested' = absorbed /\ UNCHANGED <<chunk_state, cv_stack, absorbed>>
          /\ digest' = root_output_bytes(Folded(chunk_output(chunk_state), cv_stack), OUT_LEN)
      BY <2>2 DEF finalize
    <3>2. absorbed \in Nat /\ chunk_state = HasherAfter(absorbed).chunk
          /\ cv_stack = HasherAfter(absorbed).stack
      <4>1. [chunk |-> chunk_state, stack |-> cv_stack] = HasherAfter(absorbed)
        BY DEF HasherInv
      <4> DEFINE h == HasherAfter(absorbed)
      <4>2. [chunk |-> chunk_state, stack |-> cv_stack] = h
        BY <4>1
      <4> HIDE DEF h
      <4>3. chunk_state = h.chunk /\ cv_stack = h.stack
        BY <4>2
      <4> QED
        BY <4>3 DEF h, HasherInv
    <3>3. digest' = Digest(absorbed)
      BY <3>1, <3>2, FinalizeExact
    <3>4. digest' = Digest(digested')
      BY <3>1, <3>3
    <3>5. IncrementalExact'
      BY <3>4 DEF IncrementalExact, Digest
    <3>6. ([chunk |-> chunk_state, stack |-> cv_stack] = HasherAfter(absorbed))'
      BY <3>1 DEF HasherInv, HasherAfter
    <3> QED
      BY <3>1, <3>2, <3>5, <3>6 DEF HasherInv
  <2>3. CASE UNCHANGED hasher_vars
    BY <2>3 DEF HasherInv, IncrementalExact, HasherAfter, hasher_vars
  <2> QED
    BY <2>1, <2>2, <2>3 DEF HasherNext
<1> QED
  BY <1>1, <1>2, PTL DEF HasherSpec

(* finalize yields the root of the hash tree over all bytes that came in   *)
(* before it, in whatever pieces update was given them.                    *)
THEOREM DigestIsOfTheWhole == HasherSpec => []IncrementalExact
<1>1. HasherInv => IncrementalExact
  BY DEF HasherInv
<1> QED
  BY <1>1, HasherInduction, PTL

(* add_chunk_chaining_value leaves one complete subtree for each binary    *)
(* digit 1 of the number of closed chunks, and update never closes the last*)
(* chunk: the stack is never empty when a merge takes from it.             *)
THEOREM StackIsExact == HasherSpec => []StackExact
<1>1. HasherInv => StackExact
  <2> SUFFICES ASSUME HasherInv
               PROVE  StackExact
    OBVIOUS
  <2>1. absorbed \in Nat /\ [chunk |-> chunk_state, stack |-> cv_stack] = HasherAfter(absorbed)
    BY DEF HasherInv
  <2>2. PICK k \in Nat : Chunks(absorbed) = k + 1 /\ InChunk(k, absorbed)
    BY <2>1, ChunksFit
  <2>3. HasherAfter(absorbed) = [chunk |-> ChunkAfter(k, absorbed), stack |-> Roots(k, 0, absorbed)]
    BY <2>1, <2>2, HasherAfterIs
  <2>4. chunk_state = ChunkAfter(k, absorbed) /\ cv_stack = Roots(k, 0, absorbed)
    BY <2>1, <2>3
  <2>5. chunk_state.counter = k /\ Chunks(absorbed) - 1 = k
    BY <2>2, <2>4 DEF ChunkAfter
  <2>6. len(chunk_state) + chunk_state.counter * CHUNK_LEN = absorbed
    <3> DEFINE s == k * CHUNK_LEN
    <3>1. len(chunk_state) = absorbed - s
      BY <2>1, <2>2, <2>4, LenExact
    <3>2. s \in Nat
      BY Starts
    <3>3. chunk_state.counter * CHUNK_LEN = s
      BY <2>5
    <3> HIDE DEF s
    <3> QED
      BY <2>1, <3>1, <3>2, <3>3
  <2> QED
    BY <2>4, <2>5, <2>6 DEF StackExact
<1> QED
  BY <1>1, HasherInduction, PTL
=============================================================================
