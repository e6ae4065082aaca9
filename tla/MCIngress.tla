----------------------------- MODULE MCIngress -----------------------------
(* Two forks of two blocks, one of them with two swaps in its first block. *)
EXTENDS Ingress, TLC

CONSTANTS g, a1, a2, b1, b2, first, second, one

ForkBlocks == {g, a1, a2, b1, b2}
Parents == [b \in ForkBlocks \ {g} |->
    CASE b \in {a1, b1} -> g [] b = a2 -> a1 [] b = b2 -> b1]
Heights == [b \in ForkBlocks |->
    CASE b = g -> 0 [] b \in {a1, b1} -> 1 [] b \in {a2, b2} -> 2]
Swaps == {first, second}
BothInB1 == [e \in Swaps |-> b1]
OneService == {one}
Early == {g, b1}     \* the first checkpoint is before the swaps, or in their block
Symmetry == Permutations(Swaps)
=============================================================================
