----------------------------- MODULE MCIndexBuild ----------------------------
(***************************************************************************)
(* Instances of IndexBuild.  c1 and c2 have the same size and the same     *)
(* first 4 KB, so that only the modification time tells them apart; c3 is  *)
(* c1 with one more message appended.                                      *)
(***************************************************************************)
EXTENDS IndexBuild, TLC

CONSTANTS c1, c2, c3

MCContents == {c1, c2, c3}

MCSizeOf == c1 :> 10 @@ c2 :> 10 @@ c3 :> 15

MCHeadOf == c1 :> 1 @@ c2 :> 1 @@ c3 :> 1

MCCountOf == c1 :> 2 @@ c2 :> 2 @@ c3 :> 3

ProcSymmetry == Permutations(Procs)
=============================================================================
