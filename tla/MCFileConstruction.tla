------------------------- MODULE MCFileConstruction -------------------------
(* A small instance of FileConstruction for TLC: one path is a directory   *)
(* of the other, which goes through two.                                   *)
EXTENDS FileConstruction, TLC

MCPaths == {<<"a">>, <<"a", "b", "c">>}

(* Threads are interchangeable (for runs without liveness).                *)
Interchangeable == Permutations(Thread)
=============================================================================
