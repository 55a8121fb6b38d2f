-------------------------- MODULE MCBatchScheduler --------------------------
(* A workload for BatchScheduler. *)
EXTENDS BatchScheduler

CONSTANTS d1, d2, d3, s1, key1

(* Two requests with one prompt, which is published, and a longer one that *)
(* needs two chunks and the pages the published prompt holds; bulk work.   *)
MixedWork ==
  [w \in Works |-> CASE w = s1 -> StatelessWork("bulk", 1)
                     [] w = d3 -> DecodeWork("llm", 3, 1, NoKey)
                     [] OTHER -> DecodeWork("llm", 2, 1, key1)]

(* d1 and d2 differ by name only. *)
PromptSymmetry == Permutations({d1, d2})
=============================================================================
