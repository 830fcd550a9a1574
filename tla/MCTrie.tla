-------------------------------- MODULE MCTrie --------------------------------
(* Small instances of Trie for TLC.                                         *)
EXTENDS Trie, TLC

ValSymmetry == Permutations(Vals)
=============================================================================
