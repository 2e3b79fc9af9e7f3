----------------------------- MODULE MCPathman -----------------------------
(***************************************************************************)
(* Paths for Pathman: two names, one the beginning of the other, as        *)
(* directories and as files, down to MaxDepth directories.                 *)
(***************************************************************************)
EXTENDS Pathman

CONSTANT MaxDepth  \* bound: names in the path of a directory

MCSlash == 1
MCNames == {<<2>>, <<2, 3>>}

DirPaths[n \in Nat] ==
  IF n = 0 THEN {<<MCSlash>>}
  ELSE DirPaths[n - 1] \cup {d \o m \o <<MCSlash>> : d \in DirPaths[n - 1], m \in MCNames}

MCWords == DirPaths[MaxDepth + 1] \cup {d \o m : d \in DirPaths[MaxDepth + 1], m \in MCNames}
MCData  == [isdir : BOOLEAN, index : 1 .. 2]

=============================================================================
