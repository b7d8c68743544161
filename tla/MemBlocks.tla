------------------------------ MODULE MemBlocks ------------------------------
(***************************************************************************)
(* What a memory allocator promises its callers, without saying how: a     *)
(* block is a non-empty set of memory units, and a unit belongs to at most *)
(* one block at a time.  PageAlloc and Slab are shown to implement this.   *)
(***************************************************************************)
EXTENDS Naturals

CONSTANT Units      \* the memory units the allocator may hand out

VARIABLE blocks     \* the blocks callers currently hold

Blk == (SUBSET Units) \ {{}}

Init == blocks = {}

\* A caller is handed units no one holds.
Alloc == \E b \in blocks' : /\ b \in Blk /\ b \cap UNION blocks = {}
                            /\ blocks' = blocks \cup {b}

\* A caller gives its block back, whole.
Free == \E b \in blocks : blocks' = blocks \ {b}

\* A caller gives back part of its block.
Shrink == \E b \in blocks, c \in blocks' : /\ c \in (SUBSET b) \ {{}}
                                           /\ blocks' = (blocks \ {b}) \cup {c}

\* A caller's block is replaced by another one that lies apart from every
\* block held so far, the old one included.
Move == \E b \in blocks, c \in blocks' : /\ c \in Blk /\ c \cap UNION blocks = {}
                                         /\ blocks' = (blocks \ {b}) \cup {c}

Next == Alloc \/ Free \/ Shrink \/ Move

Spec == Init /\ [][Next]_blocks
=============================================================================
