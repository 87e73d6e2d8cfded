-------------------------- MODULE MCThreadLocalPtr --------------------------
EXTENDS ThreadLocalPtr, TLC

MCSymmetry == Permutations(Threads) \cup Permutations(Instances) \cup Permutations(Ptrs)
=============================================================================
