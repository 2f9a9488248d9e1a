----------------------------- MODULE MCDownload -----------------------------
(* Two downloads in a row of two blocks each, of either kind: the second may *)
(* run while the worker of the first, abandoned, is still writing.           *)
EXTENDS Download

BothKinds == {"local", "remote"}
=============================================================================
