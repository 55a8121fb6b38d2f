--------------------------- MODULE MCBatchWorker ----------------------------
(* Workloads for BatchWorker: the .cfg files choose one with Work <- ... *)
EXTENDS BatchWorker

CONSTANTS d1, d2, d3, s1, s2, key1

(* Two requests with one prompt of one page beside bulk work: a single row *)
(* of one model, and two rows at once, which padded to a pair need four    *)
(* rows of a budget of three: they must be refused.                        *)
LiveWork ==
  [w \in Works |-> CASE w = s1 -> StatelessWork("bulk", 1)
                     [] w = s2 -> StatelessWork("bulk", 2)
                     [] OTHER -> DecodeWork("llm", 2, 1, key1)]

(* A prompt of three pages for a pool of two, and a short one behind it. *)
OversizedWork ==
  [w \in Works |-> IF w = d1 THEN DecodeWork("llm", 5, 1, NoKey)
                            ELSE DecodeWork("llm", 1, 1, NoKey)]

(* One published prompt of exactly one page, then work without a key. *)
PrefixWork ==
  [w \in Works |-> DecodeWork("llm", 2, 1, IF w = d1 THEN key1 ELSE NoKey)]

=============================================================================
