--------------------------- MODULE MCStoreUnpack ----------------------------
(***************************************************************************)
(* Two classes, one with a field of the other and a record of it as that   *)
(* field's meta; two records of the first and one of the second; three     *)
(* pages.                                                                  *)
(***************************************************************************)
EXTENDS StoreUnpack, TLC

CONSTANTS c, d, m, q, r

MCClasses == {c, d}
MCRecords == {m, q, r}
MCPageOf == (c :> 1) @@ (d :> 2) @@ (m :> 2) @@ (q :> 1) @@ (r :> 3)
MCClassOf == (m :> c) @@ (q :> c) @@ (r :> d)
MCMeta == (c :> Nil) @@ (d :> q)
MCFieldRefs == (c :> <<>>) @@ (d :> <<c, m>>)

ASSUME DeepAssumption == Deep

=============================================================================
