------------------------------- MODULE MCProDOS -------------------------------
(* Instances of the ProDOS volume small enough for TLC. *)
EXTENDS ProDOSFiles, TLC

CONSTANTS a, b, p1, p2, p3

\* BlockBytes and IndexSize are 2: a payload of one block, one that fills the
\* index, and one that does not fit in it.
FileSizes == [p \in Payloads |-> CASE p = p1 -> 1 [] p = p2 -> 3 [] OTHER -> 4]

NoLongNames == [n \in {} |-> a]

\* What a block holds that no file or directory occupies is not read again: a
\* directory that grows into it looks at what kind of block it was, no more.
LiveBlocks ==
  <<free, job, after,
    LET live == Occupied \cup {Root} IN
    [x \in Block |-> IF x \in live THEN blk[x]
                     ELSE IF x \in free THEN blk[x].tag ELSE "lost"]>>

Symmetric == Permutations(Names)
==============================================================================
