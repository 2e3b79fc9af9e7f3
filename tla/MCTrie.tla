------------------------------- MODULE MCTrie -------------------------------
(***************************************************************************)
(* Words for Trie: one begins with the other, or they part in the middle;  *)
(* with room for two characters in a node the long ones are split by all   *)
(* the others.  The last two words make siblings at the root.              *)
(***************************************************************************)
EXTENDS Trie, TLC

MCWords == {<<1>>, <<1, 1>>, <<1, 1, 1, 1>>, <<1, 1, 2, 2>>, <<2>>, <<3>>}
Symmetry == Permutations(Data)

=============================================================================
