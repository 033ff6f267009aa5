--------------------------- MODULE SharedExclusive ---------------------------
(* What the media fence promises its callers: a task is inside alone, or       *)
(* together with others that all entered shared.  Waiting, precedence and      *)
(* cancellation are not visible here.                                          *)
CONSTANT Tasks

VARIABLES shared, exclusive      \* the tasks inside, by the way they entered

vars == <<shared, exclusive>>

Init == shared = {} /\ exclusive = {}

Inside == shared \cup exclusive

AdmitShared(t) ==
  /\ t \notin Inside /\ exclusive = {}
  /\ shared' = shared \cup {t}
  /\ UNCHANGED exclusive

AdmitExclusive(t) ==
  /\ Inside = {}
  /\ exclusive' = {t}
  /\ UNCHANGED shared

Exit(t) ==
  /\ t \in Inside
  /\ shared' = shared \ {t}
  /\ exclusive' = exclusive \ {t}

Next == \E t \in Tasks : AdmitShared(t) \/ AdmitExclusive(t) \/ Exit(t)

Spec == Init /\ [][Next]_vars
=============================================================================
