----------------------------- MODULE MCSpoolLog -----------------------------
(***************************************************************************)
(* SpoolLog for TLC.  Frames of a kind and writers are interchangeable.    *)
(***************************************************************************)
EXTENDS SpoolLog, TLC

Symmetry == Permutations(Frames \ Oversized) \cup Permutations(Writers)
=============================================================================
