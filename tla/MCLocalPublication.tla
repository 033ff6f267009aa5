------------------------- MODULE MCLocalPublication -------------------------
(* Two uploads of one size that want the same path, so that a file of the one  *)
(* could pass for a file of the other; deletions by the loop alone, and by a   *)
(* request and the loop, which shows why the loop needs the fence.             *)
EXTENDS LocalPublication, TLC
CONSTANTS a, b, d1, d2
MCUploads == {a, b}
MCSize == a :> 1 @@ b :> 1
MCDeleters == {d1, d2}
RequestAndLoop == {[request |-> {d2}, loop |-> {d1}]}
LoopOnly == {[request |-> {}, loop |-> {d1}]}
=============================================================================
