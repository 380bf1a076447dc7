---------------------------- MODULE MCImageCache ----------------------------
(* Small instances of ImageCache.  Processes and checkouts are             *)
(* interchangeable: its properties name none of them.                      *)
EXTENDS ImageCache, TLC

Interchangeable == Permutations(Procs) \cup Permutations(Local)
=============================================================================
