--------------------------- MODULE MCShortTermMemory ---------------------------
(* Model-checking instances of ShortTermMemory. *)
EXTENDS ShortTermMemory, TLC

(* Slots, workers and answers are interchangeable. *)
Symmetry ==
  Permutations(Workers) \cup Permutations(Tasks) \cup Permutations(Pieces)
===============================================================================
