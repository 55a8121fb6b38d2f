----------------------------- MODULE MCPagedKV ------------------------------
(* PagedKV on small instances: the .cfg files give the constants. *)
EXTENDS PagedKV, TLC

(* Keys only differ by name. *)
KeySymmetry == Permutations(Keys)
=============================================================================
