------------------------------- MODULE MCVme --------------------------------
(* A directory has one entry for user pages and one of the kernel; the two *)
(* pages share a page table.                                               *)
EXTENDS Vme, Naturals, TLC

MCVa     == {<<1, 0>>, <<1, 1>>}
MCUIndex == {1}
MCKIndex == {0}

\* pgalloc gives one page of those left, always the same of the same.
MCpgalloc(left) == IF left = {} THEN {} ELSE {CHOOSE p \in left : TRUE}

\* The spaces are interchangeable; of the threads, boot is not.
Symmetry == Permutations(Space)
=============================================================================
