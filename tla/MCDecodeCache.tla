---------------------------- MODULE MCDecodeCache ----------------------------
(* DecodeCache on small instances. *)
EXTENDS DecodeCache

(* Tokens only differ by name. *)
TokenSymmetry == Permutations(Tokens)
=============================================================================
