----------------------------- MODULE MCComposer -----------------------------
(* Two requests under way at once, one file, and the windows, letters and  *)
(* rows it takes for an answer to meet a window it was not asked from.     *)
EXTENDS Composer, TLC

Interchangeable == Permutations(Slots)
=============================================================================
