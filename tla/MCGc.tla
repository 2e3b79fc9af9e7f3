-------------------------------- MODULE MCGc --------------------------------
(***************************************************************************)
(* Gc for TLC, with a history variable that remembers the garbage of which *)
(* the cycle in progress must dispose.                                     *)
(***************************************************************************)
EXTENDS Gc, TLC

VARIABLE
  doomed  \* objects and headers that were unreachable when the cycle began

mcvars == <<vars, doomed>>

MCInit == Init /\ doomed = {}

\* The cycle begins with the marking of the roots; a full collection and
\* gc_clear abandon it, and a freed node may be allocated again.
MCNext ==
  /\ Next
  /\ doomed' = CASE state = "PAUSE" /\ state' = "PROPAGATE" -> (heap \ Strs) \ Accessible
                 [] call # "drain" /\ call' = "drain" /\ ~Sweeping -> {}
                 [] OTHER -> doomed \cap heap'

MCSpec == MCInit /\ [][MCNext]_mcvars

Symmetry == Permutations(Objs \ Leaf) \cup Permutations(Hdrs) \cup Permutations(Strs)

\* A cycle frees every object and header that was garbage when it began: none
\* of it is carried into the next one (step, atomic, the sweeps).
CycleComplete ==
  [][state = "SWEEP_HEADER" /\ state' = "PAUSE" => doomed' = {}]_mcvars

=============================================================================
