---------------------------- MODULE Reachability ----------------------------
(***************************************************************************)
(* What can be reached from a set of nodes along the edges of a graph      *)
(* given as a function from a node to the set of its successors.  Stated   *)
(* as a least closed set, not by iteration, so that it can be used in a    *)
(* proof as well as evaluated by TLC.                                      *)
(***************************************************************************)

\* No edge of succ leaves S.
Closed(S, succ) == \A n \in S : succ[n] \subseteq S

\* The least closed set that contains the seeds: n is in it when no closed set
\* with the seeds does without n.
ReachableFrom(seeds, succ) ==
  {n \in DOMAIN succ :
     \A S \in SUBSET (DOMAIN succ \ {n}) : ~(seeds \subseteq S /\ Closed(S, succ))}

=============================================================================
