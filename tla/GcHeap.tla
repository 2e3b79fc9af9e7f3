------------------------------- MODULE GcHeap -------------------------------
(***************************************************************************)
(* What src/src/gc promises to its clients: a heap of nodes that refer to  *)
(* one another, in which memory is given back only for nodes the client    *)
(* can no longer reach.  Nothing is said here of colours, lists or phases. *)
(* The collector of module Gc is checked and proved to implement this.     *)
(***************************************************************************)
EXTENDS Reachability

CONSTANTS
  Objs,  \* objects: nodes with GC_VT_FLAG_OBJ
  Hdrs,  \* plain headers: GC_VT_FLAG_HDR only, no references of their own
  Strs   \* interned strings, one node for each content

VARIABLES
  heap,   \* the nodes that are allocated
  refs,   \* refs[n]: the nodes n refers to
  roots,  \* the objects registered with gc_add_root
  fresh   \* nodes the client got from an allocator since its last gc_collect

hvars == <<heap, refs, roots, fresh>>

Node == Objs \cup Hdrs \cup Strs

\* What the client may still use: it follows references from the roots and
\* from the nodes it was handed since it last let the collector run.
Accessible == ReachableFrom(roots \cup fresh, refs)

Init ==
  /\ heap = {}
  /\ refs = [n \in Node |-> {}]
  /\ roots = {}
  /\ fresh = {}

\* A new node, or one the caller was never told of: gc_new_str leaves the
\* string in the table when growing the table fails.
Allocate(n) ==
  /\ n \in Node \ heap
  /\ heap' = heap \cup {n}
  /\ fresh' \in {fresh, fresh \cup {n}}
  /\ UNCHANGED <<refs, roots>>

\* gc_new_str with a content that is already in the table.
Intern(s) ==
  /\ s \in Strs \cap heap
  /\ fresh' = fresh \cup {s}
  /\ UNCHANGED <<heap, refs, roots>>

\* The client stores or clears a reference.
Store(o, v) ==
  /\ refs' = [refs EXCEPT ![o] = @ \cup {v}]
  /\ UNCHANGED <<heap, roots, fresh>>
  /\ {o, v} \subseteq Accessible

Erase(o, v) ==
  /\ refs' = [refs EXCEPT ![o] = @ \ {v}]
  /\ UNCHANGED <<heap, roots, fresh>>
  /\ o \in Accessible

AddRoot(o) ==
  /\ roots' = roots \cup {o}
  /\ UNCHANGED <<heap, refs, fresh>>
  /\ o \in Accessible

DelRoot(o) ==
  /\ roots' = roots \ {o}
  /\ UNCHANGED <<heap, refs, fresh>>

\* The client calls gc_collect: what it had only in its own variables is
\* no longer protected.
Forget ==
  /\ fresh' = {}
  /\ UNCHANGED <<heap, refs, roots>>

\* The collector gives memory back, for unreachable nodes only.
Reclaim ==
  /\ UNCHANGED <<roots, fresh>>
  /\ \E D \in SUBSET (heap \ Accessible) :
       /\ heap' = heap \ D
       /\ refs' = [n \in Node |-> IF n \in D THEN {} ELSE refs[n]]

\* gc_clear at the end of the collector's life.
Clear ==
  /\ heap' = {}
  /\ refs' = [n \in Node |-> {}]
  /\ roots' = {}
  /\ fresh' = {}

Next ==
  \/ \E n \in Node : Allocate(n) \/ Intern(n)
  \/ \E o \in Objs, v \in Node : Store(o, v) \/ Erase(o, v)
  \/ \E o \in Objs : AddRoot(o) \/ DelRoot(o)
  \/ Forget
  \/ Reclaim
  \/ Clear

Spec == Init /\ [][Next]_hvars

=============================================================================
