---------------------------- MODULE MemoryTokens ----------------------------
(***************************************************************************)
(* Blocks of memory as the containers of trivially copyable elements use   *)
(* them, through the tokens of memory_primitives.hpp.  A block is the      *)
(* sequence of its elements, << >> when there is none; indices count from  *)
(* 0 as in the code.  An operation that needs a new block is told whether  *)
(* there is memory for it.                                                 *)
(***************************************************************************)
EXTENDS Integers, Sequences

CONSTANTS
    Limit,          \* k_max_elements
    MinCapacity     \* the least capacity the growth policies recommend

Zero == 0
Unset == -1         \* what memory holds that was never written

Least(m, n) == IF m <= n THEN m ELSE n
Greatest(m, n) == IF m >= n THEN m ELSE n

\* The growth policies: at least what is required, within the limit.
Growth(n) == IF n <= MinCapacity THEN MinCapacity ELSE Least(n + MinCapacity, Limit)

Fill(n, x) == [i \in 1 .. n |-> x]
Block(n) == Fill(n, Unset)

\* n elements of a block from index i on, and a block with those written at i.
Slice(block, i, n) == SubSeq(block, i + 1, i + n)
Write(block, i, elements) ==
    [k \in DOMAIN block |-> IF k - i \in DOMAIN elements THEN elements[k - i] ELSE block[k]]

\* memmove() of n elements from index `from' of a block to index `to' of another.
memmove(dst, to, src, from, n) == Write(dst, to, Slice(src, from, n))

\* memcpy() within a block.  It is not defined when the ranges overlap: the
\* library may copy as memmove() does, or strictly forwards.
Forwards(block, to, from, n) ==
    LET after[k \in 0 .. n] ==
            IF k = 0 THEN block
            ELSE Write(after[k - 1], to + k - 1, Slice(after[k - 1], from + k - 1, 1))
    IN after[n]

memcpy(block, to, from, n) ==
    {memmove(block, to, block, from, n), Forwards(block, to, from, n)}

\* The outcome of an operation: what it returns and what it leaves.
Done(x) == [ok |-> TRUE, is |-> x]
Refused(x) == [ok |-> FALSE, is |-> x]
=============================================================================
