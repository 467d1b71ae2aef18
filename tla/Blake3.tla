--------------------------------- MODULE Blake3 ---------------------------------
(***************************************************************************)
(* The incremental hasher of 3p/hugging-face-blake3-wasm/assembly/         *)
(* blake3.ts, which the library carries for the hashes of its nodes        *)
(* (lib/node/libcd_node_hash.mjs) and does not call yet: input arrives in  *)
(* pieces of any size, chunks of it become leaves of a binary tree, and a  *)
(* stack keeps the chaining values of the subtrees that are complete.      *)
(*                                                                         *)
(* compress is a free constructor: two results are equal when all its      *)
(* arguments are, so that a digest shows the whole tree it was made of.    *)
(* Bytes are told apart by their position in the input, and sizes are      *)
(* parameters.  Words, rounds and the text form of a digest are left out.  *)
(***************************************************************************)
EXTENDS Integers, SequencesExt, FiniteSetsExt

CONSTANTS
    BLOCK_LEN,  \* bytes of a block, 64 in the code
    CHUNK_LEN,  \* bytes of a chunk, 1024 in the code
    IV,         \* the initial chaining value
    MaxLen      \* bound on the input

ASSUME Blake3Assumption ==
    /\ BLOCK_LEN \in Nat \ {0}
    /\ CHUNK_LEN \in Nat \ {0}
    /\ CHUNK_LEN % BLOCK_LEN = 0
    /\ MaxLen \in Nat

VARIABLES
    chunk_state,  \* the chunk that input goes to
    cv_stack,     \* chaining values of complete subtrees, the widest first
    digest,       \* the output of the last finalize
    absorbed,     \* history: how many bytes have come in
    digested      \* history: how many there were at the last finalize

hasher_vars == <<chunk_state, cv_stack, digest, absorbed, digested>>

-----------------------------------------------------------------------------
(* compress, and Output, which is what it will be called with.  The flags  *)
(* are sets.                                                               *)
compress(cv, block, counter, block_len, flags) ==
    [cv |-> cv, block |-> block, counter |-> counter, len |-> block_len, flags |-> flags]

Output(cv, block, counter, block_len, flags) ==
    [cv |-> cv, block |-> block, counter |-> counter, len |-> block_len, flags |-> flags]

chaining_value(o) == compress(o.cv, o.block, o.counter, o.len, o.flags)

(* The output is cut from blocks of 64 bytes, whose counter takes the place*)
(* of the node's own: the 32 bytes that every caller asks for are half of  *)
(* the first.                                                              *)
OUT_LEN == 32
root_output_bytes(o, out_len) ==
    [b \in 1 .. (out_len + 2 * OUT_LEN - 1) \div (2 * OUT_LEN) |->
       compress(o.cv, o.block, b - 1, o.len, o.flags \cup {"ROOT"})]

(* A byte, distinct for each position. *)
Byte(i) == compress(IV, <<>>, i, 1, {})

(* parent_output: its block is the two chaining values.                    *)
parent_output(left, right) == Output(IV, <<left, right>>, 0, BLOCK_LEN, {"PARENT"})
parent_cv(left, right) == chaining_value(parent_output(left, right))

-----------------------------------------------------------------------------
(* ChunkState.  The bytes after block_len are zero: the block is as long   *)
(* as what is in it.                                                       *)
NewChunk(counter) == [cv |-> IV, counter |-> counter, block |-> <<>>, blocks_compressed |-> 0]

len(c) == BLOCK_LEN * c.blocks_compressed + Len(c.block)

start_flag(c) == IF c.blocks_compressed = 0 THEN {"CHUNK_START"} ELSE {}

CompressBlock(c) ==
    [c EXCEPT !.cv = compress(c.cv, c.block, c.counter, BLOCK_LEN, start_flag(c)),
              !.blocks_compressed = @ + 1,
              !.block = <<>>]

Smaller(a, b) == IF a < b THEN a ELSE b

(* One turn of the loop of ChunkState.update, of which s is the chunk and  *)
(* how much of the input is taken.  A full block is compressed only when   *)
(* more input follows it.                                                  *)
TakeBlock(s, input) ==
    IF s.taken = Len(input)
    THEN s
    ELSE LET ready == IF Len(s.chunk.block) = BLOCK_LEN THEN CompressBlock(s.chunk) ELSE s.chunk
             take == Smaller(BLOCK_LEN - Len(ready.block), Len(input) - s.taken)
         IN [chunk |-> [ready EXCEPT !.block =
                           @ \o SubSeq(input, s.taken + 1, s.taken + take)],
             taken |-> s.taken + take]

(* Each turn takes at least a byte. *)
update_chunk(c, input) ==
    LET turn[k \in Nat] == IF k = 0 THEN [chunk |-> c, taken |-> 0]
                           ELSE TakeBlock(turn[k - 1], input)
    IN turn[Len(input)].chunk

chunk_output(c) ==
    Output(c.cv, c.block, c.counter, Len(c.block), start_flag(c) \cup {"CHUNK_END"})

-----------------------------------------------------------------------------
(* Blake3Hasher.  As many subtrees are merged as the number of chunks has  *)
(* trailing zero bits: one turn of that loop.                              *)
Merge(s) ==
    IF s.chunks % 2 = 1
    THEN s
    ELSE [stack |-> Front(s.stack), cv |-> parent_cv(Last(s.stack), s.cv),
          chunks |-> s.chunks \div 2]

Bug_OneMerge(stack, new_cv, total_chunks) ==
    LET s == Merge([stack |-> stack, cv |-> new_cv, chunks |-> total_chunks])
    IN Append(s.stack, s.cv)
add_chunk_chaining_value(stack, new_cv, total_chunks) ==
    LET turn[k \in Nat] == IF k = 0
                           THEN [stack |-> stack, cv |-> new_cv, chunks |-> total_chunks]
                           ELSE Merge(turn[k - 1])
        s == turn[total_chunks]
    IN Append(s.stack, s.cv)

NextChunk(h) ==
    LET total_chunks == h.chunk.counter + 1
    IN [chunk |-> NewChunk(total_chunks),
        stack |-> add_chunk_chaining_value(h.stack, chaining_value(chunk_output(h.chunk)),
                                           total_chunks)]

(* One turn of the loop of Blake3Hasher.update.  A full chunk is closed    *)
(* only when more input follows it: the last one is left to finalize.      *)
TakeChunk(s, input) ==
    IF s.taken = Len(input)
    THEN s
    ELSE LET ready == IF len(s.hasher.chunk) = CHUNK_LEN THEN NextChunk(s.hasher) ELSE s.hasher
             take == Smaller(CHUNK_LEN - len(ready.chunk), Len(input) - s.taken)
         IN [hasher |-> [ready EXCEPT !.chunk =
                            update_chunk(@, SubSeq(input, s.taken + 1, s.taken + take))],
             taken |-> s.taken + take]

update_hasher(h, input) ==
    LET turn[k \in Nat] == IF k = 0 THEN [hasher |-> h, taken |-> 0]
                           ELSE TakeChunk(turn[k - 1], input)
    IN turn[Len(input)].hasher

-----------------------------------------------------------------------------
HasherInit ==
    /\ chunk_state = NewChunk(0)
    /\ cv_stack = <<>>
    /\ digest = <<>>
    /\ absorbed = 0
    /\ digested = -1    \* never

(* The bytes first, ..., last - 1 of the input. *)
Bytes(first, last) == [i \in 1 .. last - first |-> Byte(first + i - 1)]

update(n) ==
    /\ absorbed + n <= MaxLen
    /\ LET h == update_hasher([chunk |-> chunk_state, stack |-> cv_stack],
                              Bytes(absorbed, absorbed + n))
       IN /\ chunk_state' = h.chunk
          /\ cv_stack' = h.stack
    /\ absorbed' = absorbed + n
    /\ UNCHANGED <<digest, digested>>

(* The stack is folded from its top, and stays as it is.                   *)
Bug_TopDown(o, stack) ==
    LET out[k \in Nat] == IF k = 0 THEN o
                          ELSE parent_output(stack[k], chaining_value(out[k - 1]))
    IN out[Len(stack)]
Folded(o, stack) ==
    LET out[k \in Nat] == IF k = 0 THEN o
                          ELSE parent_output(stack[Len(stack) + 1 - k],
                                             chaining_value(out[k - 1]))
    IN out[Len(stack)]

finalize ==
    /\ digest' = root_output_bytes(Folded(chunk_output(chunk_state), cv_stack), OUT_LEN)
    /\ digested' = absorbed
    /\ UNCHANGED <<chunk_state, cv_stack, absorbed>>

HasherNext == (\E n \in 0 .. MaxLen : update(n)) \/ finalize

HasherSpec == HasherInit /\ [][HasherNext]_hasher_vars

-----------------------------------------------------------------------------
(* The hash tree of the BLAKE3 paper: chunk k of an input of n bytes is a  *)
(* chain of its blocks; of several chunks the left subtree has the largest *)
(* power of two that leaves at least one for the right.                    *)
ChunkEnd(k, n) == Smaller((k + 1) * CHUNK_LEN, n)
LastBlock(k, n) ==
    IF n = k * CHUNK_LEN THEN 0 ELSE (ChunkEnd(k, n) - k * CHUNK_LEN - 1) \div BLOCK_LEN

BlockStart(k, b) == k * CHUNK_LEN + b * BLOCK_LEN
BlockOf(k, b, n) == Bytes(BlockStart(k, b), Smaller(BlockStart(k, b + 1), ChunkEnd(k, n)))
FlagsOf(k, b, n) ==
    (IF b = 0 THEN {"CHUNK_START"} ELSE {}) \cup
    (IF b = LastBlock(k, n) THEN {"CHUNK_END"} ELSE {})

Chain(k, n) ==
    LET chain[b \in Nat] ==
            compress(IF b = 0 THEN IV ELSE chain[b - 1],
                     BlockOf(k, b, n), k, Len(BlockOf(k, b, n)), FlagsOf(k, b, n))
    IN chain

ChunkNode(k, n) == Chain(k, n)[LastBlock(k, n)]

pow2[e \in Nat] == IF e = 0 THEN 1 ELSE 2 * pow2[e - 1]
LeftSize(m) == Max({p \in {pow2[e] : e \in 0 .. m} : p < m})

(* The node over chunks first .. first + m - 1. *)
Subtree(first, m, n) ==
    LET node[w \in Nat] ==
            [f \in Nat |->
               IF w <= 1 THEN ChunkNode(f, n)
               ELSE parent_cv(node[LeftSize(w)][f], node[w - LeftSize(w)][f + LeftSize(w)])]
    IN node[m][first]

Chunks(n) == IF n = 0 THEN 1 ELSE (n + CHUNK_LEN - 1) \div CHUNK_LEN

Digest(n) == root_output_bytes(Subtree(0, Chunks(n), n), OUT_LEN)

(* A digest is that of all the bytes that came in before it, in whatever   *)
(* pieces they came, empty ones and ones that end at a boundary of a block *)
(* or of a chunk included, and however many digests were taken in between. *)
IncrementalExact == digested >= 0 => digest = Digest(digested)

(* The roots of complete subtrees, one for each binary digit 1 of m, the   *)
(* lowest of which stands for 2^e chunks.                                  *)
Roots(m, e, n) ==
    LET roots[q \in Nat] ==
            [d \in Nat |->
               IF q = 0 THEN <<>>
               ELSE IF q % 2 = 0 THEN roots[q \div 2][d + 1]
               ELSE Append(roots[q - 1][d], Subtree((q - 1) * pow2[d], pow2[d], n))]
    IN roots[m][e]

(* The stack holds one complete subtree for each binary digit 1 of the     *)
(* number of closed chunks, the widest at the bottom, and the last chunk   *)
(* is never on it: so its 54 entries are enough for 2^54 chunks, and a     *)
(* merge never takes from an empty one.                                    *)
StackExact ==
    /\ chunk_state.counter = Chunks(absorbed) - 1
    /\ cv_stack = Roots(chunk_state.counter, 0, absorbed)
    /\ len(chunk_state) + chunk_state.counter * CHUNK_LEN = absorbed
=============================================================================
