----------------------------- MODULE MCThreadPool -----------------------------
(***************************************************************************)
(* Small instances of ThreadPoolChoice for TLC.  Clients and tasks are     *)
(* model values; the clients are interchangeable, and so are the tasks     *)
(* where Throwing is all of them.                                          *)
(***************************************************************************)
EXTENDS ThreadPoolChoice

Symmetry == Permutations(Clients) \cup Permutations(Tasks)
=============================================================================
