----------------------------- MODULE MCLruCache -----------------------------
(* Instances of LruCache for TLC.                                          *)
EXTENDS LruCache, TLC

Symmetry == UNION {Permutations(S) : S \in {Key, Value, Elem, Thread}}
=============================================================================
