----------------------------- MODULE MerkleTree -----------------------------
(***************************************************************************)
(* The Merkle tree workload (microbenchmarks/merkle-tree/rust-version): a  *)
(* tree of hashes is built over a blob of random bytes; then the user sets *)
(* bytes, for ever.  MerkleTree::new reads data.size() after it has moved  *)
(* data, and usize has no log2, so the program as committed does not       *)
(* compile; it is modelled with the height, which nothing reads, left out. *)
(* A SHA-256 digest is the block it was made from, a hash a sequence of    *)
(* digests.  A node's links to its children are never followed: a tree is  *)
(* its root and the set of the nodes below it.                             *)
(***************************************************************************)
EXTENDS Integers, Sequences

CONSTANTS BLOCK_SIZE,
          BlockCounts,   \* the values of argument c
          U8, Usize,     \* the numbers of values of a u8 and of a usize
          Bits,          \* usize::BITS
          StackDepth     \* calls that fit on the stack

\* x >> k
shr(x) == LET y[k \in 0 .. Bits] == IF k = 0 THEN x ELSE y[k - 1] \div 2 IN y

\* x & y # 0
Share(x, y) == \E k \in 0 .. Bits - 1 : shr(x)[k] % 2 = 1 /\ shr(y)[k] % 2 = 1

\* The blob of a power of two of blocks fits a usize or its size wraps to 0.
ASSUME MerkleAssumption ==
    /\ BLOCK_SIZE \in Nat \ {0} /\ U8 \in Nat \ {0} /\ Usize \in Nat \ {0}
    /\ BlockCounts \subseteq 0 .. Usize - 1
    /\ Bits \in Nat /\ (\A x \in 0 .. Usize - 1 : shr(x)[Bits] = 0)
    /\ Usize % BLOCK_SIZE = 0 /\ ~Share(Usize \div BLOCK_SIZE - 1, Usize \div BLOCK_SIZE)
    /\ StackDepth \in Nat /\ Bits <= StackDepth

VARIABLES block_count,
          data,         \* the bytes of the blob, from index 0
          created,      \* data when the tree was built
          root,
          user_input,   \* the words read into the String
          prompt        \* where main is

mvars == <<block_count, data, created, root, user_input, prompt>>

Node(h, offset, size) == [hash |-> h, start_offset |-> offset, blob_len |-> size]

\* A stack that overflowed
NoTree == [node |-> Node(<<>>, 0, 0), below |-> {}]

\* BLOCK_SIZE * block_count, in a release build
blob_size == (BLOCK_SIZE * block_count) % Usize

MInit ==
    /\ block_count \in BlockCounts
    /\ data \in [0 .. blob_size - 1 -> 0 .. U8 - 1]
    /\ created = data /\ root = NoTree
    /\ user_input = <<>> /\ prompt = "start"

hash(offset, size) == << [i \in 1 .. size |-> data[offset + i - 1]] >>

\* Where the right half starts.  Mutant: at the same offset as the left.
RightOffset_left(offset, size) == offset
RightOffset(offset, size) == offset + size \div 2

\* MerkleNode::new, when room more calls fit on the stack.  An inner node's hash
\* is its children's hashes, concatenated and not hashed again.
MerkleNode ==
    LET new[room \in 0 .. StackDepth] ==
          [size \in Nat |-> [offset \in Nat |->
              IF room = 0 THEN NoTree
              ELSE IF size = BLOCK_SIZE
              THEN [node |-> Node(hash(offset, size), offset, size), below |-> {}]
              ELSE LET left == new[room - 1][size \div 2][offset]
                       right == new[room - 1][size \div 2][RightOffset(offset, size)]
                   IN  IF left = NoTree THEN NoTree
                       ELSE [node |-> Node(left.node.hash \o right.node.hash, offset, size),
                             below |-> {left.node, right.node} \cup left.below
                                         \cup right.below]]]
    IN  new

\* The check that block_count is a power of two
NotPower == Share((block_count - 1) % Usize, block_count)

\* The subtraction in the check and the product wrap in a release build and panic
\* in a debug build.
Construct ==
    /\ prompt = "start"
    /\ \/ /\ NotPower \/ block_count = 0 \/ BLOCK_SIZE * block_count >= Usize
          /\ prompt' = "aborted" /\ UNCHANGED root
       \/ /\ ~NotPower
          /\ root' = MerkleNode[StackDepth][blob_size][0]
          /\ prompt' = IF root' = NoTree THEN "overflowed" ELSE "idx"
    /\ UNCHANGED <<block_count, data, created, user_input>>

\* What a line holds: a number, nothing (or the end of the input), or a word
\* that is no number.
NaN == -1
Lines == {<<>>, <<NaN>>} \cup {<<n>> : n \in 0 .. U8 + BLOCK_SIZE}

\* trim().parse() on everything in the String, for a type with n values
\* Mutant: the value is cast to the type.
parse_cast(s, n) == IF Len(s) = 1 /\ s[1] # NaN THEN s[1] % n ELSE NaN
parse(s, n) == IF Len(s) = 1 /\ s[1] \in 0 .. n - 1 THEN s[1] ELSE NaN

\* "Enter new idx:", into a new String
ReadIdx ==
    /\ prompt = "idx"
    /\ \E line \in Lines :
          IF parse(line, Usize) = NaN
          THEN UNCHANGED <<user_input, prompt>>
          ELSE user_input' = line /\ prompt' = "val"
    /\ UNCHANGED <<block_count, data, created, root>>

\* The nodes keep the hashes they were made with.
update(idx) == UNCHANGED root

\* Outside the blob the index panics.
set(idx, val) ==
    IF idx \notin DOMAIN data
    THEN prompt' = "panicked" /\ UNCHANGED <<data, root>>
    ELSE prompt' = "idx" /\ data' = [data EXCEPT ![idx] = val] /\ update(idx)

\* "Enter new val:"; read_line appends to the same String.
ReadVal ==
    /\ prompt = "val"
    /\ \E line \in Lines :
          LET nidx == parse(user_input, Usize)
              nval == parse(user_input \o line, U8)
          IN  IF nval = NaN THEN prompt' = "idx" /\ UNCHANGED <<data, root>>
              ELSE set(nidx, nval)
    /\ user_input' = <<>>
    /\ UNCHANGED <<block_count, created>>

MNext == Construct \/ ReadIdx \/ ReadVal

MSpec == MInit /\ [][MNext]_mvars

-----------------------------------------------------------------------------
(* Properties *)

\* The digests of the blocks from offset to offset + length of the blob the tree
\* was built from
Digests(offset, length) ==
    [b \in 1 .. length \div BLOCK_SIZE |->
        [i \in 1 .. BLOCK_SIZE |-> created[offset + (b - 1) * BLOCK_SIZE + i - 1]]]

\* Every block count is turned down or gets its tree, unless it is 0 or its blob
\* does not fit a usize: all of the blob is under the root, and every node has the
\* digests of just the blocks it covers, in order.  update being empty, that is the
\* blob as it was built, not as it is.
TreeCovers ==
    /\ prompt = "overflowed" => block_count = 0 \/ BLOCK_SIZE * block_count >= Usize
    /\ prompt \in {"idx", "val"} =>
          /\ root.node.start_offset = 0 /\ root.node.blob_len = BLOCK_SIZE * block_count
          /\ \A d \in {root.node} \cup root.below :
                d.hash = Digests(d.start_offset, d.blob_len)

\* The String is not cleared between the two prompts, so what is typed as the
\* value is never stored: a byte that was set holds its own index.
OnlyIndexStored == \A i \in DOMAIN data : data[i] \in {created[i], i}
=============================================================================
