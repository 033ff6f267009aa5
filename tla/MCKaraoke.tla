------------------------------ MODULE MCKaraoke -------------------------------
(* One recording and two requests at once, of which one reserves, stores and    *)
(* confirms and the other removes.                                              *)
EXTENDS Karaoke, TLC
CONSTANTS q1, q2
MCRequests == {q1, q2}
MCAsks == q1 :> {"ticket", "relay", "finalize"} @@ q2 :> {"cancel", "delete", "close"}
=============================================================================
