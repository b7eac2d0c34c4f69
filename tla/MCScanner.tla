----------------------------- MODULE MCScanner -----------------------------
(* Small instances of Scanner for TLC. *)
EXTENDS ScannerProperties, TLC

\* Workspace paths are only compared, so they may be permuted (safety runs only).
PathSymmetry == Permutations(Paths)
=============================================================================
