----------------------------- MODULE MCMetaStore -----------------------------
(* MetaStore with two sites. *)
EXTENDS MetaStore

MCSiteId == {"s1", "s2"}
=============================================================================
