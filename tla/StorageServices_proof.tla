------------------------ MODULE StorageServices_proof ------------------------
(* Proofs about the storage services that MCStorageServices checks together   *)
(* and that share no state: MediaFence for every finite set of tasks,         *)
(* MemberQuota for every finite set of uploads and every set of deleters,     *)
(* Karaoke for every finite set of recordings and any requests, and           *)
(* DirectoryRename for any files, members and names.                          *)
EXTENDS MediaFence, QuotaState, KarState, RenState, Sequences, FiniteSetTheorems, TLAPS

-----------------------------------------------------------------------------
(* MediaFence.                                                                *)

(* The inductive invariant: exclusion alone is not inductive, since admission  *)
(* tests the counters; they must be known to be exact.                         *)
IInv == TypeOK /\ CountsExact /\ Exclusive /\ NoLostWakeup

-----------------------------------------------------------------------------
(* Moving one task to a phase adds it to, or removes it from, each group of    *)
(* phases.                                                                     *)
LEMMA AtMoves ==
  ASSUME NEW t \in Tasks, NEW phase, pc \in [Tasks -> Phases], Goto(t, phase), NEW S
  PROVE  At(S)' = IF phase \in S THEN At(S) \cup {t} ELSE At(S) \ {t}
BY DEF At, Goto

(* Membership of a group of phases, spelled out.                                *)
LEMMA AtMembers == ASSUME NEW S PROVE \A t \in Tasks : t \in At(S) <=> pc[t] \in S
BY DEF At

(* Every group is a set of tasks, hence finite.                                 *)
LEMMA AtFinite == ASSUME NEW S PROVE IsFiniteSet(At(S))
<1>1. At(S) \subseteq Tasks  BY DEF At
<1> QED  BY <1>1, TasksFinite, FS_Subset

(* The groups the counters stand for, after a task moved.                      *)
LEMMA GroupsMove ==
  ASSUME NEW t \in Tasks, NEW phase, pc \in [Tasks -> Phases], Goto(t, phase)
  PROVE
    /\ phase \in {"reading", "leaveRead"} => Readers' = Readers \cup {t}
    /\ phase \notin {"reading", "leaveRead"} => Readers' = Readers \ {t}
    /\ phase \in {"writing", "leaveWrite"} => Writers' = Writers \cup {t}
    /\ phase \notin {"writing", "leaveWrite"} => Writers' = Writers \ {t}
    /\ phase \in {"wantWrite"} => Queued' = Queued \cup {t}
    /\ phase \notin {"wantWrite"} => Queued' = Queued \ {t}
    /\ phase \in {"wantRead", "wantWrite"} => Sleepers' = Sleepers \cup {t}
    /\ phase \notin {"wantRead", "wantWrite"} => Sleepers' = Sleepers \ {t}
    /\ phase \in {"leaveRead", "leaveWrite"} => Leaving' = Leaving \cup {t}
    /\ phase \notin {"leaveRead", "leaveWrite"} => Leaving' = Leaving \ {t}
BY AtMoves DEF Readers, Writers, Queued, Sleepers, Leaving

(* Counting up is adding one new member ...                                     *)
LEMMA CountAdd ==
  ASSUME NEW A, IsFiniteSet(A), NEW t, t \notin A
  PROVE  Cardinality(A \cup {t}) = Cardinality(A) + 1
BY FS_AddElement

(* ... and counting down is removing one.                                       *)
LEMMA CountDrop ==
  ASSUME NEW A, IsFiniteSet(A), NEW t, t \in A
  PROVE  Cardinality(A \ {t}) = Cardinality(A) - 1
BY FS_RemoveElement

(* The groups the counters count are finite.                                    *)
LEMMA Finite == IsFiniteSet(Readers) /\ IsFiniteSet(Queued)
BY AtFinite DEF Readers, Queued

(* A fence whose predicate holds is empty, because the counters are exact.     *)
LEMMA CanWriteEmpty ==
  ASSUME CountsExact, CanWrite
  PROVE  Readers = {} /\ Writers = {}
BY Finite, FS_EmptySet DEF CountsExact, CanWrite

-----------------------------------------------------------------------------
(* The initial state satisfies the invariant.                                  *)
LEMMA InitInv == Init => IInv
<1> SUFFICES ASSUME Init PROVE IInv  OBVIOUS
<1>1. Readers = {} /\ Writers = {} /\ Queued = {} /\ Sleepers = {}
      /\ Leaving = {}
  BY DEF Init, At, Readers, Writers, Queued, Sleepers, Leaving
<1>2. TypeOK  BY <1>1 DEF Init, TypeOK, Phases
<1>3. CountsExact  BY <1>1, FS_EmptySet DEF Init, CountsExact
<1> QED  BY <1>1, <1>2, <1>3 DEF IInv, Exclusive, NoLostWakeup

(* Every step preserves it.                                                    *)
LEMMA NextInv == IInv /\ [Next]_vars => IInv'
<1> SUFFICES ASSUME IInv, [Next]_vars PROVE IInv'  OBVIOUS
<1> USE DEF IInv
<1>u. CASE UNCHANGED vars
  BY <1>u DEF vars, TypeOK, CountsExact, Exclusive, NoLostWakeup, At, Readers,
              Writers, Queued, Sleepers, Leaving, CanRead, CanWrite
<1>n. ASSUME NEW t \in Tasks, Step(t) PROVE IInv'
  <2>pc. pc \in [Tasks -> Phases]  BY DEF TypeOK
  <2>m. \A s \in Tasks :
          /\ s \in Readers <=> pc[s] \in {"reading", "leaveRead"}
          /\ s \in Writers <=> pc[s] \in {"writing", "leaveWrite"}
          /\ s \in Queued <=> pc[s] \in {"wantWrite"}
          /\ s \in Sleepers <=> pc[s] \in {"wantRead", "wantWrite"}
          /\ s \in Leaving <=> pc[s] \in {"leaveRead", "leaveWrite"}
    BY AtMembers DEF Readers, Writers, Queued, Sleepers, Leaving
  <2>s. Readers \subseteq Tasks /\ Writers \subseteq Tasks /\ Queued \subseteq Tasks
        /\ Sleepers \subseteq Tasks /\ Leaving \subseteq Tasks
    BY DEF At, Readers, Writers, Queued, Sleepers, Leaving
  <2>c. /\ t \notin Readers => Cardinality(Readers \cup {t}) = Cardinality(Readers) + 1
        /\ t \in Readers => Cardinality(Readers \ {t}) = Cardinality(Readers) - 1
        /\ t \notin Queued => Cardinality(Queued \cup {t}) = Cardinality(Queued) + 1
        /\ t \in Queued => Cardinality(Queued \ {t}) = Cardinality(Queued) - 1
    BY Finite, CountAdd, CountDrop
  <2>k. /\ Cardinality(Queued \ {t}) \in Nat /\ Cardinality(Readers \ {t}) \in Nat
        /\ t \in Readers => Readers \cup {t} = Readers
        /\ t \in Writers => Writers \cup {t} = Writers
        /\ t \notin Readers => Readers \ {t} = Readers
        /\ t \notin Writers => Writers \ {t} = Writers
        /\ t \notin Queued => Queued \ {t} = Queued
    BY Finite, FS_RemoveElement, FS_CardinalityType, FS_Subset
  <2>t. TypeOK /\ CountsExact /\ Exclusive /\ NoLostWakeup  OBVIOUS
  <2>e. CanWrite => Readers = {} /\ Writers = {}  BY CanWriteEmpty
  <2>1. CASE EnterWrite(t)
    <3>1. Goto(t, "writing")  BY <2>1 DEF EnterWrite
    <3>2. /\ Readers' = Readers \ {t}
          /\ Writers' = Writers \cup {t}
          /\ Queued' = Queued \ {t}
          /\ Sleepers' = Sleepers \ {t}
          /\ Leaving' = Leaving \ {t}
      BY <2>pc, <3>1, GroupsMove
    <3>3. TypeOK'
      BY <2>1, <2>t, <2>m, <2>s, <2>c, <2>k, <3>2 DEF EnterWrite, Goto, NotifyAll, TypeOK, CountsExact, Phases
    <3>4. CountsExact'
      BY <2>1, <2>t, <2>m, <2>c, <2>k, <2>e, <3>2 DEF EnterWrite, TypeOK, CountsExact, Exclusive, CanRead, CanWrite
    <3>5. Exclusive'
      BY <2>1, <2>t, <2>m, <2>e, <3>2 DEF EnterWrite, Exclusive, CountsExact, CanRead, CanWrite
    <3>6. NoLostWakeup'
      BY <2>1, <2>t, <2>m, <2>s, <2>pc, <3>2 DEF EnterWrite, Goto, NotifyAll, NoLostWakeup, TypeOK, CanRead, CanWrite
    <3> QED  BY <3>3, <3>4, <3>5, <3>6
  <2>2. CASE QueueWrite(t)
    <3>1. Goto(t, "wantWrite")  BY <2>2 DEF QueueWrite
    <3>2. /\ Readers' = Readers \ {t}
          /\ Writers' = Writers \ {t}
          /\ Queued' = Queued \cup {t}
          /\ Sleepers' = Sleepers \cup {t}
          /\ Leaving' = Leaving \ {t}
      BY <2>pc, <3>1, GroupsMove
    <3>3. TypeOK'
      BY <2>2, <2>t, <2>m, <2>s, <2>c, <2>k, <3>2 DEF QueueWrite, Goto, NotifyAll, TypeOK, CountsExact, Phases
    <3>4. CountsExact'
      BY <2>2, <2>t, <2>m, <2>c, <2>k, <2>e, <3>2 DEF QueueWrite, TypeOK, CountsExact, Exclusive, CanRead, CanWrite
    <3>5. Exclusive'
      BY <2>2, <2>t, <2>m, <2>e, <3>2 DEF QueueWrite, Exclusive, CountsExact, CanRead, CanWrite
    <3>6. NoLostWakeup'
      BY <2>2, <2>t, <2>m, <2>s, <2>pc, <3>2 DEF QueueWrite, Goto, NotifyAll, NoLostWakeup, TypeOK, CanRead, CanWrite
    <3> QED  BY <3>3, <3>4, <3>5, <3>6
  <2>3. CASE WakeWrite(t)
    <3>1. Goto(t, "writing")  BY <2>3 DEF WakeWrite
    <3>2. /\ Readers' = Readers \ {t}
          /\ Writers' = Writers \cup {t}
          /\ Queued' = Queued \ {t}
          /\ Sleepers' = Sleepers \ {t}
          /\ Leaving' = Leaving \ {t}
      BY <2>pc, <3>1, GroupsMove
    <3>3. TypeOK'
      BY <2>3, <2>t, <2>m, <2>s, <2>c, <2>k, <3>2 DEF WakeWrite, Goto, NotifyAll, TypeOK, CountsExact, Phases
    <3>4. CountsExact'
      BY <2>3, <2>t, <2>m, <2>c, <2>k, <2>e, <3>2 DEF WakeWrite, TypeOK, CountsExact, Exclusive, CanRead, CanWrite
    <3>5. Exclusive'
      BY <2>3, <2>t, <2>m, <2>e, <3>2 DEF WakeWrite, Exclusive, CountsExact, CanRead, CanWrite
    <3>6. NoLostWakeup'
      BY <2>3, <2>t, <2>m, <2>s, <2>pc, <3>2 DEF WakeWrite, Goto, NotifyAll, NoLostWakeup, TypeOK, CanRead, CanWrite
    <3> QED  BY <3>3, <3>4, <3>5, <3>6
  <2>4. CASE CancelWrite(t)
    <3>1. Goto(t, "idle")  BY <2>4 DEF CancelWrite
    <3>2. /\ Readers' = Readers \ {t}
          /\ Writers' = Writers \ {t}
          /\ Queued' = Queued \ {t}
          /\ Sleepers' = Sleepers \ {t}
          /\ Leaving' = Leaving \ {t}
      BY <2>pc, <3>1, GroupsMove
    <3>3. TypeOK'
      BY <2>4, <2>t, <2>m, <2>s, <2>c, <2>k, <3>2 DEF CancelWrite, Goto, NotifyAll, TypeOK, CountsExact, Phases
    <3>4. CountsExact'
      BY <2>4, <2>t, <2>m, <2>c, <2>k, <2>e, <3>2 DEF CancelWrite, TypeOK, CountsExact, Exclusive, CanRead, CanWrite
    <3>5. Exclusive'
      BY <2>4, <2>t, <2>m, <2>e, <3>2 DEF CancelWrite, Exclusive, CountsExact, CanRead, CanWrite
    <3>6. NoLostWakeup'
      BY <2>4, <2>t, <2>m, <2>s, <2>pc, <3>2 DEF CancelWrite, Goto, NotifyAll, NoLostWakeup, TypeOK, CanRead, CanWrite
    <3> QED  BY <3>3, <3>4, <3>5, <3>6
  <2>5. CASE EnterRead(t)
    <3>1. Goto(t, "reading")  BY <2>5 DEF EnterRead
    <3>2. /\ Readers' = Readers \cup {t}
          /\ Writers' = Writers \ {t}
          /\ Queued' = Queued \ {t}
          /\ Sleepers' = Sleepers \ {t}
          /\ Leaving' = Leaving \ {t}
      BY <2>pc, <3>1, GroupsMove
    <3>3. TypeOK'
      BY <2>5, <2>t, <2>m, <2>s, <2>c, <2>k, <3>2 DEF EnterRead, Goto, NotifyAll, TypeOK, CountsExact, Phases
    <3>4. CountsExact'
      BY <2>5, <2>t, <2>m, <2>c, <2>k, <2>e, <3>2 DEF EnterRead, TypeOK, CountsExact, Exclusive, CanRead, CanWrite
    <3>5. Exclusive'
      BY <2>5, <2>t, <2>m, <2>e, <3>2 DEF EnterRead, Exclusive, CountsExact, CanRead, CanWrite
    <3>6. NoLostWakeup'
      BY <2>5, <2>t, <2>m, <2>s, <2>pc, <3>2 DEF EnterRead, Goto, NotifyAll, NoLostWakeup, TypeOK, CanRead, CanWrite
    <3> QED  BY <3>3, <3>4, <3>5, <3>6
  <2>6. CASE SleepRead(t)
    <3>1. Goto(t, "wantRead")  BY <2>6 DEF SleepRead
    <3>2. /\ Readers' = Readers \ {t}
          /\ Writers' = Writers \ {t}
          /\ Queued' = Queued \ {t}
          /\ Sleepers' = Sleepers \cup {t}
          /\ Leaving' = Leaving \ {t}
      BY <2>pc, <3>1, GroupsMove
    <3>3. TypeOK'
      BY <2>6, <2>t, <2>m, <2>s, <2>c, <2>k, <3>2 DEF SleepRead, Goto, NotifyAll, TypeOK, CountsExact, Phases
    <3>4. CountsExact'
      BY <2>6, <2>t, <2>m, <2>c, <2>k, <2>e, <3>2 DEF SleepRead, TypeOK, CountsExact, Exclusive, CanRead, CanWrite
    <3>5. Exclusive'
      BY <2>6, <2>t, <2>m, <2>e, <3>2 DEF SleepRead, Exclusive, CountsExact, CanRead, CanWrite
    <3>6. NoLostWakeup'
      BY <2>6, <2>t, <2>m, <2>s, <2>pc, <3>2 DEF SleepRead, Goto, NotifyAll, NoLostWakeup, TypeOK, CanRead, CanWrite
    <3> QED  BY <3>3, <3>4, <3>5, <3>6
  <2>7. CASE WakeRead(t)
    <3>1. Goto(t, "reading")  BY <2>7 DEF WakeRead
    <3>2. /\ Readers' = Readers \cup {t}
          /\ Writers' = Writers \ {t}
          /\ Queued' = Queued \ {t}
          /\ Sleepers' = Sleepers \ {t}
          /\ Leaving' = Leaving \ {t}
      BY <2>pc, <3>1, GroupsMove
    <3>3. TypeOK'
      BY <2>7, <2>t, <2>m, <2>s, <2>c, <2>k, <3>2 DEF WakeRead, Goto, NotifyAll, TypeOK, CountsExact, Phases
    <3>4. CountsExact'
      BY <2>7, <2>t, <2>m, <2>c, <2>k, <2>e, <3>2 DEF WakeRead, TypeOK, CountsExact, Exclusive, CanRead, CanWrite
    <3>5. Exclusive'
      BY <2>7, <2>t, <2>m, <2>e, <3>2 DEF WakeRead, Exclusive, CountsExact, CanRead, CanWrite
    <3>6. NoLostWakeup'
      BY <2>7, <2>t, <2>m, <2>s, <2>pc, <3>2 DEF WakeRead, Goto, NotifyAll, NoLostWakeup, TypeOK, CanRead, CanWrite
    <3> QED  BY <3>3, <3>4, <3>5, <3>6
  <2>8. CASE CancelRead(t)
    <3>1. Goto(t, "idle")  BY <2>8 DEF CancelRead
    <3>2. /\ Readers' = Readers \ {t}
          /\ Writers' = Writers \ {t}
          /\ Queued' = Queued \ {t}
          /\ Sleepers' = Sleepers \ {t}
          /\ Leaving' = Leaving \ {t}
      BY <2>pc, <3>1, GroupsMove
    <3>3. TypeOK'
      BY <2>8, <2>t, <2>m, <2>s, <2>c, <2>k, <3>2 DEF CancelRead, Goto, NotifyAll, TypeOK, CountsExact, Phases
    <3>4. CountsExact'
      BY <2>8, <2>t, <2>m, <2>c, <2>k, <2>e, <3>2 DEF CancelRead, TypeOK, CountsExact, Exclusive, CanRead, CanWrite
    <3>5. Exclusive'
      BY <2>8, <2>t, <2>m, <2>e, <3>2 DEF CancelRead, Exclusive, CountsExact, CanRead, CanWrite
    <3>6. NoLostWakeup'
      BY <2>8, <2>t, <2>m, <2>s, <2>pc, <3>2 DEF CancelRead, Goto, NotifyAll, NoLostWakeup, TypeOK, CanRead, CanWrite
    <3> QED  BY <3>3, <3>4, <3>5, <3>6
  <2>9. CASE SleepAgain(t)
    <3>1. pc' = pc /\ Readers' = Readers /\ Writers' = Writers /\ Queued' = Queued
          /\ Sleepers' = Sleepers /\ Leaving' = Leaving
      BY <2>9 DEF SleepAgain, At, Readers, Writers, Queued, Sleepers, Leaving
    <3> QED
      BY <2>9, <2>t, <3>1 DEF SleepAgain, TypeOK, CountsExact, Exclusive, NoLostWakeup,
                              CanRead, CanWrite
  <2>10. CASE Leave(t)
    <3>1. PICK phase \in {"leaveRead", "leaveWrite"} :
            Goto(t, phase) /\ pc[t] = (IF phase = "leaveRead" THEN "reading" ELSE "writing")
      BY <2>10 DEF Leave
    <3>2. /\ Readers' = Readers /\ Writers' = Writers /\ Queued' = Queued
          /\ Sleepers' = Sleepers /\ Leaving' = Leaving \cup {t}
      <4>1. CASE phase = "leaveRead"
        <5>1. Readers' = Readers \cup {t} /\ Writers' = Writers \ {t} /\ Queued' = Queued \ {t}
              /\ Sleepers' = Sleepers \ {t} /\ Leaving' = Leaving \cup {t}
          BY <4>1, <2>pc, <3>1, GroupsMove
        <5> QED  BY <4>1, <3>1, <5>1, <2>m
      <4>2. CASE phase = "leaveWrite"
        <5>1. Readers' = Readers \ {t} /\ Writers' = Writers \cup {t} /\ Queued' = Queued \ {t}
              /\ Sleepers' = Sleepers \ {t} /\ Leaving' = Leaving \cup {t}
          BY <4>2, <2>pc, <3>1, GroupsMove
        <5> QED  BY <4>2, <3>1, <5>1, <2>m
      <4> QED  BY <4>1, <4>2
    <3>3. /\ readers' = readers /\ writer' = writer /\ waiting_writers' = waiting_writers
          /\ woken' = woken /\ cancellation' = cancellation
      BY <2>10 DEF Leave
    <3>4. TypeOK'
      <4>1. pc' \in [Tasks -> Phases]  BY <2>pc, <3>1 DEF Goto, Phases
      <4> QED  BY <4>1, <2>t, <3>2, <3>3 DEF TypeOK
    <3>5. CountsExact' /\ Exclusive'  BY <2>t, <3>2, <3>3 DEF CountsExact, Exclusive
    <3>6. NoLostWakeup'
      BY <2>t, <2>m, <2>s, <2>pc, <3>1, <3>2, <3>3 DEF NoLostWakeup, Goto, CanRead, CanWrite
    <3> QED  BY <3>4, <3>5, <3>6
  <2>11. CASE CancelLeave(t)
    <3>1. pc' = pc /\ Readers' = Readers /\ Writers' = Writers /\ Queued' = Queued
          /\ Sleepers' = Sleepers /\ Leaving' = Leaving
      BY <2>11 DEF CancelLeave, At, Readers, Writers, Queued, Sleepers, Leaving
    <3> QED
      BY <2>11, <2>t, <3>1 DEF CancelLeave, TypeOK, CountsExact, Exclusive, NoLostWakeup,
                               CanRead, CanWrite
  <2>12. CASE Release(t)
    <3>1. Goto(t, "idle")  BY <2>12 DEF Release
    <3>2. /\ Readers' = Readers \ {t} /\ Writers' = Writers \ {t} /\ Queued' = Queued \ {t}
          /\ Sleepers' = Sleepers \ {t} /\ Leaving' = Leaving \ {t}
      BY <2>pc, <3>1, GroupsMove
    <3>3. TypeOK'
      BY <2>12, <2>t, <2>m, <2>s, <2>c, <2>k, <3>2
         DEF Release, Goto, NotifyAll, TypeOK, CountsExact, Phases
    <3>4. CountsExact'
      <4>1. CASE pc[t] = "leaveWrite"
        <5>1. Writers = {t} /\ t \notin Readers /\ t \notin Queued  BY <4>1, <2>t, <2>m DEF Exclusive
        <5>2. writer' = FALSE /\ readers' = readers /\ waiting_writers' = waiting_writers
          BY <4>1, <2>12 DEF Release
        <5> QED  BY <5>1, <5>2, <2>t, <2>k, <3>2 DEF CountsExact
      <4>2. CASE pc[t] = "leaveRead"
        <5>1. t \in Readers /\ t \notin Writers /\ t \notin Queued  BY <4>2, <2>m
        <5>2. writer' = writer /\ readers' = readers - 1 /\ waiting_writers' = waiting_writers
          BY <4>2, <2>12 DEF Release
        <5> QED  BY <5>1, <5>2, <2>t, <2>c, <2>k, <3>2 DEF CountsExact
      <4> QED  BY <4>1, <4>2, <2>12 DEF Release
    <3>5. Exclusive'  BY <2>t, <3>2 DEF Exclusive
    <3>6. NoLostWakeup'
      BY <2>12, <2>t, <2>m, <2>s, <2>pc, <3>2 DEF Release, Goto, NotifyAll, NoLostWakeup
    <3> QED  BY <3>3, <3>4, <3>5, <3>6
  <2> QED
    BY <1>n, <2>1, <2>2, <2>3, <2>4, <2>5, <2>6, <2>7, <2>8, <2>9, <2>10, <2>11, <2>12 DEF Step
<1> QED  BY <1>u, <1>n DEF Next

(* Together: the inductive invariant holds in every behaviour.                  *)
LEMMA Invariance == Spec => []IInv
<1> QED  BY InitInv, NextInv, PTL DEF Spec

-----------------------------------------------------------------------------
(* In every behaviour, for any number of tasks, a task inside exclusively is   *)
(* alone: the fence never lets a rename or a publication overlap anything.     *)
THEOREM ExclusionHolds == Spec => []Exclusive
<1>1. IInv => Exclusive  BY DEF IInv
<1> QED  BY Invariance, <1>1, PTL

(* Every value of the lock stays in its type: no counter drops below zero.     *)
THEOREM TypesHold == Spec => []TypeOK
<1>1. IInv => TypeOK  BY DEF IInv
<1> QED  BY Invariance, <1>1, PTL

(* The counters are exact in every behaviour: cancellation leaks none.         *)
THEOREM CountersExact == Spec => []CountsExact
<1>1. IInv => CountsExact  BY DEF IInv
<1> QED  BY Invariance, <1>1, PTL

(* In every behaviour a sleeper that may enter has been made runnable.         *)
THEOREM WakeupsKept == Spec => []NoLostWakeup
<1>1. IInv => NoLostWakeup  BY DEF IInv
<1> QED  BY Invariance, <1>1, PTL

(* In every behaviour no task is admitted shared past a queued writer.         *)
THEOREM PrecedenceHolds == Spec => WriterPrecedence
<1>1. IInv /\ [Next]_vars => [\A t \in Tasks : t \in Readers' \ Readers => Queued = {}]_vars
  <2> SUFFICES ASSUME IInv, Next, NEW r \in Tasks, r \in Readers', r \notin Readers
               PROVE  Queued = {}
    BY DEF Next
  <2>1. PICK t \in Tasks : Step(t)  BY DEF Next
  <2>pc. pc \in [Tasks -> Phases]  BY DEF IInv, TypeOK
  <2>2. pc[r] \notin {"reading", "leaveRead"} /\ pc'[r] \in {"reading", "leaveRead"}
    BY DEF Readers, At
  <2>3. EnterRead(t) \/ WakeRead(t)
    BY <2>1, <2>2, <2>pc DEF Step, EnterWrite, QueueWrite, WakeWrite, CancelWrite, SleepRead,
       CancelRead, SleepAgain, Leave, CancelLeave, Release, Goto
  <2>4. Cardinality(Queued) = 0
    BY <2>3 DEF EnterRead, WakeRead, CanRead, IInv, CountsExact
  <2> QED  BY <2>4, Finite, FS_EmptySet
<1> QED  BY <1>1, Invariance, PTL DEF Spec, WriterPrecedence

(* The lock implements SharedExclusive for every finite set of tasks: each     *)
(* step is an admission, an exit or invisible.                                 *)
THEOREM PromiseKept == Spec => ImplementsPromise
<1>1. Init => Promise!Init
  BY DEF Init, Promise!Init, At, Readers, Writers
<1>2. IInv /\ [Next]_vars => [Promise!Next]_(Promise!vars)
  <2> SUFFICES ASSUME IInv, [Next]_vars PROVE [Promise!Next]_(Promise!vars)  OBVIOUS
  <2>pc. pc \in [Tasks -> Phases]  BY DEF IInv, TypeOK
  <2>m. \A s \in Tasks : /\ s \in Readers <=> pc[s] \in {"reading", "leaveRead"}
                         /\ s \in Writers <=> pc[s] \in {"writing", "leaveWrite"}
    BY AtMembers DEF Readers, Writers
  <2>e. CanWrite => Readers = {} /\ Writers = {}  BY CanWriteEmpty DEF IInv
  <2>r. CanRead => Writers = {}  BY DEF CanRead, IInv, CountsExact
  <2>u. ASSUME UNCHANGED pc PROVE UNCHANGED Promise!vars
    BY <2>u DEF Promise!vars, Readers, Writers, At
  <2>1. CASE UNCHANGED vars  BY <2>1, <2>u DEF vars
  <2>2. ASSUME NEW t \in Tasks, Step(t) PROVE [Promise!Next]_(Promise!vars)
    <3>1. CASE EnterWrite(t) \/ WakeWrite(t)
      <4>1. CanWrite /\ Goto(t, "writing")  BY <3>1 DEF EnterWrite, WakeWrite
      <4>2. Readers' = Readers \ {t} /\ Writers' = Writers \cup {t}  BY <2>pc, <4>1, GroupsMove
      <4>3. Promise!AdmitExclusive(t)
        BY <2>e, <4>1, <4>2 DEF Promise!AdmitExclusive, Promise!Inside
      <4> QED  BY <4>3 DEF Promise!Next
    <3>2. CASE EnterRead(t) \/ WakeRead(t)
      <4>1. CanRead /\ Goto(t, "reading") /\ t \notin Readers
        BY <3>2, <2>m DEF EnterRead, WakeRead
      <4>2. Readers' = Readers \cup {t} /\ Writers' = Writers \ {t}  BY <2>pc, <4>1, GroupsMove
      <4>3. Promise!AdmitShared(t)
        BY <2>r, <4>1, <4>2 DEF Promise!AdmitShared, Promise!Inside
      <4> QED  BY <4>3 DEF Promise!Next
    <3>3. CASE Release(t)
      <4>1. Goto(t, "idle") /\ t \in Readers \cup Writers  BY <3>3, <2>m DEF Release
      <4>2. Readers' = Readers \ {t} /\ Writers' = Writers \ {t}  BY <2>pc, <4>1, GroupsMove
      <4>3. Promise!Exit(t)  BY <4>1, <4>2 DEF Promise!Exit, Promise!Inside
      <4> QED  BY <4>3 DEF Promise!Next
    <3>4. CASE QueueWrite(t) \/ CancelWrite(t) \/ SleepRead(t) \/ CancelRead(t)
      <4>1. PICK phase \in {"idle", "wantRead", "wantWrite"} : Goto(t, phase)
        BY <3>4 DEF QueueWrite, CancelWrite, SleepRead, CancelRead
      <4>2. t \notin Readers /\ t \notin Writers
        BY <3>4, <2>m DEF QueueWrite, CancelWrite, SleepRead, CancelRead
      <4>3. phase \notin {"reading", "leaveRead"} /\ phase \notin {"writing", "leaveWrite"}
        BY <4>1
      <4>4. Readers' = Readers \ {t} /\ Writers' = Writers \ {t}
        BY <2>pc, <4>1, <4>3, GroupsMove
      <4> QED  BY <4>2, <4>4 DEF Promise!vars
    <3>5. CASE Leave(t)
      <4>1. \A s \in Tasks : /\ pc[s] \in {"reading", "leaveRead"} <=> pc'[s] \in {"reading", "leaveRead"}
                             /\ pc[s] \in {"writing", "leaveWrite"} <=> pc'[s] \in {"writing", "leaveWrite"}
        BY <3>5, <2>pc DEF Leave, Goto
      <4> QED  BY <4>1 DEF Promise!vars, Readers, Writers, At
    <3>6. CASE SleepAgain(t) \/ CancelLeave(t)
      BY <3>6, <2>u DEF SleepAgain, CancelLeave
    <3> QED  BY <2>2, <3>1, <3>2, <3>3, <3>4, <3>5, <3>6 DEF Step
  <2> QED  BY <2>1, <2>2 DEF Next
<1> QED  BY <1>1, <1>2, Invariance, PTL DEF Spec, ImplementsPromise, Promise!Spec

-----------------------------------------------------------------------------
(* MemberQuota: the inductive invariant says that the counters cover what the *)
(* rows stand for, now and when an open heartbeat has written back what it    *)
(* read, up to what was settled once more, and that a deletion under way is   *)
(* of a row that is pending or that another attempt has deleted.              *)

CONSTANTS Deleters, Databases

MQ == INSTANCE MemberQuota

Beats == [used : Nat, reserved : Nat, placed : Nat]

QuotaTypes ==
    /\ media \in [Claims -> MediaStates]
    /\ allocated \in Nat /\ used \in Nat /\ reserved \in Nat /\ twice \in Nat
    /\ removing \in [Deleters -> Claims \cup {NoClaim}]
    /\ beat # <<>> => beat \in Beats /\ engine = "MySQL"

\* A deletion that was begun is of a row that is still there or deleted by another.
RemovalsFit ==
    \A d \in Deleters :
        removing[d] # NoClaim => media[removing[d]] \in {"pending_delete", "deleted"}

\* What the open heartbeat is going to write back covers what there is.
BeatCovers ==
    beat # <<>> =>
        /\ beat.used + beat.reserved + twice >= Placed + LiveReserved
        /\ beat.reserved >= LiveReserved

QuotaInv ==
    /\ QuotaTypes
    /\ RemovalsFit
    /\ AllocationRespected /\ CountersCover /\ AccountsExact
    /\ reserved >= LiveReserved
    /\ BeatCovers

-----------------------------------------------------------------------------
\* The bytes of one more file are its size.
LEMMA TotalType == ASSUME NEW us \in SUBSET Claims PROVE IsFiniteSet(BytesOf(us)) /\ Total(us) \in Nat
<1> DEFINE of(u) == {u} \X (1..Size[u])
<1> DEFINE parts == {of(u) : u \in us}
<1>1. IsFiniteSet(us)
  BY FS_Subset, QuotaConstants
<1>2. ASSUME NEW u \in us PROVE IsFiniteSet(of(u))
  <2>0. Size[u] \in Nat
    BY QuotaConstants
  <2>1. IsFiniteSet({u})
    BY FS_Singleton
  <2>2. IsFiniteSet(1..Size[u])
    BY <2>0, FS_Interval
  <2>3. QED
    BY <2>1, <2>2, FS_Product
<1>3. IsFiniteSet(parts)
  <2>1. [u \in us |-> of(u)] \in Surjection(us, parts)
    BY DEF Surjection
  <2>2. QED
    BY <2>1, <1>1, FS_Surjection
<1>4. IsFiniteSet(UNION parts)
  BY <1>2, <1>3, FS_UNION
<1>5. BytesOf(us) = UNION parts
  BY DEF BytesOf
<1>6. QED
  BY <1>4, <1>5, FS_CardinalityType DEF Total

LEMMA TotalAdd ==
  ASSUME NEW us \in SUBSET Claims, NEW u \in Claims, u \notin us
  PROVE  Total(us \cup {u}) = Total(us) + Size[u]
<1> DEFINE mine == {u} \X (1..Size[u])
<1>1. BytesOf(us \cup {u}) = BytesOf(us) \cup mine
  BY DEF BytesOf
<1>2. BytesOf(us) \cap mine = {}
  BY DEF BytesOf
<1>3. IsFiniteSet(BytesOf(us)) /\ Total(us) \in Nat
  BY TotalType
<1>4. IsFiniteSet({u}) /\ Cardinality({u}) = 1
  BY FS_Singleton
<1>5. Size[u] \in Nat
  BY QuotaConstants
<1>6. IsFiniteSet(1..Size[u]) /\ Cardinality(1..Size[u]) = Size[u]
  BY SMTT(60), <1>5, FS_Interval
<1>7. IsFiniteSet(mine) /\ Cardinality(mine) = 1 * Size[u]
  <2>1. IsFiniteSet(mine) /\ Cardinality(mine) = Cardinality({u}) * Cardinality(1..Size[u])
    BY <1>4, <1>6, FS_Product
  <2>2. QED
    BY <1>4, <1>6, <2>1
<1>8. Cardinality(BytesOf(us) \cap mine) = 0
  BY <1>2, FS_EmptySet
<1>9. Cardinality(BytesOf(us) \cup mine) = Cardinality(BytesOf(us)) + Cardinality(mine) - 0
  BY <1>3, <1>7, <1>8, FS_Union
<1>10. Total(us \cup {u}) = Cardinality(BytesOf(us) \cup mine)
  BY <1>1 DEF Total
<1>11. Cardinality(BytesOf(us)) = Total(us) /\ Cardinality(mine) = Size[u]
  BY <1>5, <1>7 DEF Total
<1>12. QED
  BY <1>3, <1>5, <1>9, <1>10, <1>11

LEMMA TotalNone == Total({}) = 0
BY FS_EmptySet DEF Total, BytesOf

\* A file moves from one set of states to another: its bytes move with it.
LEMMA TotalMoves ==
  ASSUME media \in [Claims -> MediaStates], NEW u \in Claims, NEW to,
         media' = [media EXCEPT ![u] = to], NEW states
  PROVE  /\ Total(In(states)) \in Nat
         /\ Total(In(states))' =
              IF media[u] \in states THEN IF to \in states THEN Total(In(states))
                                          ELSE Total(In(states)) - Size[u]
              ELSE IF to \in states THEN Total(In(states)) + Size[u] ELSE Total(In(states))
<1> DEFINE rest == In(states) \ {u}
           now == In(states)
           next == {v \in Claims : media'[v] \in states}
<1>1. now \in SUBSET Claims /\ rest \in SUBSET Claims /\ u \notin rest
  BY DEF In
<1>2. now = IF media[u] \in states THEN rest \cup {u} ELSE rest
  BY DEF In
<1>3. next = IF to \in states THEN rest \cup {u} ELSE rest
  BY DEF In
<1>4. Total(In(states))' = Total(next)
  BY DEF Total, BytesOf, In
<1> HIDE DEF rest, now, next
<1>5. Size[u] \in Nat /\ Total(rest) \in Nat
  BY <1>1, TotalType, QuotaConstants
<1>6. Total(rest \cup {u}) = Total(rest) + Size[u]
  BY <1>1, TotalAdd
<1>7. Total(now) = IF media[u] \in states THEN Total(rest) + Size[u] ELSE Total(rest)
  BY <1>2, <1>6
<1>8. Total(next) = IF to \in states THEN Total(rest) + Size[u] ELSE Total(rest)
  BY <1>3, <1>6
<1>9. QED
  BY <1>4, <1>5, <1>7, <1>8 DEF now

\* What becomes of the bytes of the rows when one of them changes.
LEMMA RowMoves ==
  ASSUME QuotaInv, NEW u \in Claims, NEW to \in MediaStates, MQ!Becomes(u, to)
  PROVE  /\ Size[u] \in Nat /\ Placed \in Nat /\ LiveReserved \in Nat
         /\ Placed' \in Nat /\ LiveReserved' \in Nat
         /\ Placed' = Placed
              - (IF media[u] \in {"active", "pending_delete"} THEN Size[u] ELSE 0)
              + (IF to \in {"active", "pending_delete"} THEN Size[u] ELSE 0)
         /\ LiveReserved' = LiveReserved
              - (IF media[u] = "reserved" THEN Size[u] ELSE 0)
              + (IF to = "reserved" THEN Size[u] ELSE 0)
<1>1. media \in [Claims -> MediaStates] /\ media' = [media EXCEPT ![u] = to]
  BY DEF QuotaInv, QuotaTypes, MQ!Becomes
<1>2. Size[u] \in Nat
  BY QuotaConstants
<1>3. /\ Placed \in Nat
      /\ Placed' = IF media[u] \in {"active", "pending_delete"}
                   THEN IF to \in {"active", "pending_delete"} THEN Placed ELSE Placed - Size[u]
                   ELSE IF to \in {"active", "pending_delete"} THEN Placed + Size[u] ELSE Placed
  BY <1>1, TotalMoves DEF Placed
<1>4. /\ LiveReserved \in Nat
      /\ LiveReserved' = IF media[u] \in {"reserved"}
                         THEN IF to \in {"reserved"} THEN LiveReserved ELSE LiveReserved - Size[u]
                         ELSE IF to \in {"reserved"} THEN LiveReserved + Size[u]
                              ELSE LiveReserved
  BY <1>1, TotalMoves DEF LiveReserved
<1>5. Placed' \in Nat /\ LiveReserved' \in Nat
  BY TotalType DEF Placed, LiveReserved, In
<1>6. QED
  BY <1>2, <1>3, <1>4, <1>5

LEMMA RowsRest ==
  ASSUME QuotaInv, UNCHANGED media
  PROVE  Placed' = Placed /\ LiveReserved' = LiveReserved /\ Placed \in Nat /\ LiveReserved \in Nat
<1>1. In({"active", "pending_delete"}) \in SUBSET Claims /\ In({"reserved"}) \in SUBSET Claims
  BY DEF In
<1>2. QED
  BY <1>1, TotalType DEF Placed, LiveReserved, Total, BytesOf, In

\* MemberQuota counts the same bytes.
LEMMA SamePlaced == MQ!Placed = Placed
BY DEF MQ!Cardinality, Cardinality, MQ!Placed, MQ!Total, MQ!BytesOf, MQ!In, Placed, Total, BytesOf, In

-----------------------------------------------------------------------------
LEMMA QuotaStarts == MQ!Init => QuotaInv
<1> SUFFICES ASSUME MQ!Init PROVE QuotaInv
  OBVIOUS
<1>1. In({"active", "pending_delete"}) = {} /\ In({"reserved"}) = {}
  BY DEF MQ!Init, In
<1>2. Placed = 0 /\ LiveReserved = 0
  BY <1>1, TotalNone DEF Placed, LiveReserved
<1>3. QED
  BY <1>2, QuotaConstants DEF MQ!Init, QuotaInv, QuotaTypes, RemovalsFit, BeatCovers,
     AllocationRespected, CountersCover, AccountsExact, MediaStates

\* What SQLite's counters say.
LEMMA Accounts ==
  ASSUME QuotaInv, engine = "SQLite"
  PROVE  reserved = LiveReserved /\ used <= Placed /\ Placed <= used + twice
BY DEF QuotaInv, AccountsExact

\* A row is reserved, published, released or marked.
LEMMA RowKeeps ==
  ASSUME QuotaInv, NEW u \in Claims,
         MQ!Reserve(u) \/ MQ!Finalize(u) \/ MQ!FailUpload(u) \/ MQ!MarkPendingDelete(u)
  PROVE  QuotaInv'
<1>1. CASE MQ!Reserve(u)
  <2>1. MQ!Becomes(u, "reserved") /\ media[u] = "new" /\ "reserved" \in MediaStates
    BY <1>1 DEF MQ!Reserve, MediaStates
  <2>2. /\ Size[u] \in Nat /\ Placed \in Nat /\ LiveReserved \in Nat
        /\ Placed' = Placed /\ LiveReserved' = LiveReserved + Size[u]
    BY <2>1, RowMoves
  <2>3. /\ reserved' = reserved + Size[u] /\ beat = <<>> /\ media' = [media EXCEPT ![u] = "reserved"]
        /\ UNCHANGED <<engine, allocated, used, removing, beat, twice>>
        /\ allocated - used - reserved >= Size[u]
    BY <1>1 DEF MQ!Reserve, MQ!NodeLocked, MQ!Becomes
  <2>4. /\ used \in Nat /\ reserved \in Nat /\ allocated \in Nat /\ twice \in Nat
        /\ used + reserved + twice >= Placed + LiveReserved /\ reserved >= LiveReserved
    BY DEF QuotaInv, QuotaTypes, CountersCover
  <2>5. /\ reserved' \in Nat /\ reserved' >= LiveReserved' /\ AllocationRespected' /\ CountersCover'
    <3>0. /\ reserved' = reserved + Size[u] /\ used' = used /\ allocated' = allocated
          /\ twice' = twice /\ used + reserved + Size[u] <= allocated
      BY <2>2, <2>3, <2>4
    <3>1. reserved' \in Nat /\ reserved' >= LiveReserved'
      BY <2>2, <2>4, <3>0
    <3>2. CountersCover'
      BY <2>2, <2>4, <3>0 DEF CountersCover
    <3>3. Placed + LiveReserved + Size[u] <= allocated + twice
      BY <2>2, <2>4, <3>0
    <3>4. AllocationRespected'
      BY <2>2, <3>0, <3>3 DEF AllocationRespected
    <3>5. QED
      BY <3>1, <3>2, <3>4
  <2>6. AccountsExact'
    BY <2>2, <2>3, Accounts DEF AccountsExact
  <2>7. QuotaTypes' /\ RemovalsFit' /\ BeatCovers'
    BY <2>1, <2>3, <2>5 DEF QuotaInv, QuotaTypes, RemovalsFit, BeatCovers, MediaStates
  <2>8. QED
    BY <2>5, <2>6, <2>7 DEF QuotaInv
<1>2. CASE MQ!Finalize(u)
  <2>1. MQ!Becomes(u, "active") /\ media[u] = "reserved" /\ "active" \in MediaStates
    BY <1>2 DEF MQ!Finalize, MediaStates
  <2>2. /\ Size[u] \in Nat /\ Placed \in Nat /\ LiveReserved \in Nat /\ LiveReserved' \in Nat
        /\ Placed' = Placed + Size[u] /\ LiveReserved' = LiveReserved - Size[u]
    BY <2>1, RowMoves
  <2>3. /\ Size[u] <= LiveReserved /\ LiveReserved' <= LiveReserved
        /\ Placed' + LiveReserved' = Placed + LiveReserved
    BY <2>2
  <2>4. /\ reserved' = reserved - Size[u] /\ used' = used + Size[u]
        /\ UNCHANGED <<engine, allocated, removing, beat, twice>>
    BY <1>2 DEF MQ!Finalize
  <2>5. /\ used' + reserved' = used + reserved /\ reserved' \in Nat /\ used' \in Nat
        /\ reserved' >= LiveReserved'
    <3>1. used \in Nat /\ reserved \in Nat /\ reserved >= LiveReserved
      BY DEF QuotaInv, QuotaTypes
    <3>2. reserved' = reserved - Size[u] /\ used' = used + Size[u]
      BY <2>4
    <3>3. Size[u] \in Nat /\ LiveReserved \in Nat /\ LiveReserved' = LiveReserved - Size[u]
      BY <2>2
    <3>4. QED
      BY <2>3, <3>1, <3>2, <3>3
  <2>6. QuotaTypes' /\ RemovalsFit'
    BY <2>1, <2>4, <2>5 DEF MQ!Becomes, MediaStates, QuotaInv, QuotaTypes, RemovalsFit
  <2>7. AllocationRespected' /\ CountersCover'
    BY <2>3, <2>4, <2>5 DEF QuotaInv, AllocationRespected, CountersCover
  <2>8. AccountsExact'
    <3>1. used \in Nat /\ twice \in Nat
      BY DEF QuotaInv, QuotaTypes
    <3>2. QED
      BY <2>2, <2>4, <3>1, Accounts DEF AccountsExact
  <2>9. BeatCovers'
    <3>1. SUFFICES ASSUME beat # <<>>
                   PROVE  /\ beat.used + beat.reserved + twice >= Placed' + LiveReserved'
                          /\ beat.reserved >= LiveReserved'
      BY <2>4 DEF BeatCovers
    <3>2. /\ beat.used \in Nat /\ beat.reserved \in Nat /\ twice \in Nat
          /\ beat.used + beat.reserved + twice >= Placed + LiveReserved
          /\ beat.reserved >= LiveReserved
      BY <3>1 DEF QuotaInv, QuotaTypes, BeatCovers, Beats
    <3>3. QED
      BY <2>2, <2>3, <3>2
  <2>10. QED
    BY <2>5, <2>6, <2>7, <2>8, <2>9 DEF QuotaInv
<1>3. CASE MQ!FailUpload(u)
  <2>1. MQ!Becomes(u, "failed") /\ media[u] = "reserved" /\ "failed" \in MediaStates
    BY <1>3 DEF MQ!FailUpload, MediaStates
  <2>2. /\ Size[u] \in Nat /\ Placed \in Nat /\ LiveReserved \in Nat /\ LiveReserved' \in Nat
        /\ Placed' = Placed /\ LiveReserved' = LiveReserved - Size[u]
    BY <2>1, RowMoves
  <2>3. QuotaTypes' /\ RemovalsFit'
    BY <1>3, <2>1, <2>2 DEF MQ!FailUpload, MQ!AtLeastZero, MQ!Becomes, MediaStates, QuotaInv, QuotaTypes, RemovalsFit
  <2>4. /\ AllocationRespected' /\ CountersCover' /\ AccountsExact' /\ reserved' >= LiveReserved'
    <3>1. /\ used \in Nat /\ reserved \in Nat /\ allocated \in Nat /\ reserved >= LiveReserved
          /\ twice \in Nat
          /\ used + reserved + twice >= Placed + LiveReserved
          /\ Placed + LiveReserved <= allocated + twice
      BY DEF QuotaInv, QuotaTypes, CountersCover, AllocationRespected
    <3>2. /\ reserved' = IF reserved - Size[u] > 0 THEN reserved - Size[u] ELSE 0
          /\ UNCHANGED <<engine, allocated, used, removing, beat, twice>>
      BY <1>3 DEF MQ!FailUpload, MQ!AtLeastZero
    <3>3. reserved' >= LiveReserved' /\ reserved' >= reserved - Size[u] /\ reserved' \in Nat
      BY <2>2, <3>1, <3>2
    <3>4. AllocationRespected' /\ CountersCover'
      BY SMTT(60), <2>2, <3>1, <3>2, <3>3 DEF AllocationRespected, CountersCover
    <3>5. AccountsExact'
      BY SMTT(60), <2>2, <3>1, <3>2, Accounts DEF AccountsExact
    <3>6. QED
      BY <3>3, <3>4, <3>5
  <2>5. BeatCovers'
    <3>1. SUFFICES ASSUME beat # <<>>
                   PROVE  /\ beat.used + beat.reserved + twice >= Placed' + LiveReserved'
                          /\ beat.reserved >= LiveReserved'
      BY <1>3 DEF MQ!FailUpload, BeatCovers
    <3>2. /\ beat.used \in Nat /\ beat.reserved \in Nat /\ beat.reserved >= LiveReserved
          /\ beat.used + beat.reserved + twice >= Placed + LiveReserved /\ twice \in Nat
      BY <3>1 DEF QuotaInv, QuotaTypes, BeatCovers, Beats
    <3>3. QED
      BY SMTT(60), <2>2, <3>2
  <2>6. QED
    BY <2>3, <2>4, <2>5 DEF QuotaInv
<1>4. CASE MQ!MarkPendingDelete(u)
  <2>1. /\ MQ!Becomes(u, "pending_delete") /\ media[u] = "active"
        /\ "pending_delete" \in MediaStates
    BY <1>4 DEF MQ!MarkPendingDelete, MediaStates
  <2>2. /\ Size[u] \in Nat /\ Placed \in Nat /\ LiveReserved \in Nat
        /\ Placed' = Placed /\ LiveReserved' = LiveReserved
    BY <2>1, RowMoves
  <2>3. QED
    BY <1>4, <2>1, <2>2 DEF MQ!MarkPendingDelete, MQ!NodeLocked, MQ!Becomes, MediaStates,
       QuotaInv, QuotaTypes, RemovalsFit, BeatCovers, AllocationRespected, CountersCover,
       AccountsExact
<1>5. QED
  BY <1>1, <1>2, <1>3, <1>4

\* A deletion is begun, refused or settled.
LEMMA DeletionKeeps ==
  ASSUME QuotaInv, NEW d \in Deleters,
         (\E u \in Claims : MQ!ReadPending(d, u)) \/ MQ!DeleteRefused(d) \/ MQ!SettleDelete(d)
  PROVE  QuotaInv'
<1>1. CASE \E u \in Claims : MQ!ReadPending(d, u)
  BY <1>1, RowsRest
  DEF MQ!ReadPending, QuotaInv, QuotaTypes, RemovalsFit, BeatCovers, AllocationRespected,
      CountersCover, AccountsExact, Beats
<1>2. CASE MQ!DeleteRefused(d)
  BY <1>2, RowsRest
  DEF MQ!DeleteRefused, QuotaInv, QuotaTypes, RemovalsFit, BeatCovers, AllocationRespected,
      CountersCover, AccountsExact, Beats
<1>3. CASE MQ!SettleDelete(d)
  <2> DEFINE u == removing[d]
  <2>1. /\ u \in Claims /\ media[u] \in {"pending_delete", "deleted"}
        /\ MQ!Becomes(u, "deleted") /\ "deleted" \in MediaStates
    BY <1>3 DEF MQ!SettleDelete, MediaStates, QuotaInv, QuotaTypes, RemovalsFit
  <2>2. /\ used' = MQ!AtLeastZero(used - Size[u])
        /\ twice' = IF media[u] = "deleted" THEN twice + Size[u] ELSE twice
        /\ removing' = [removing EXCEPT ![d] = NoClaim]
        /\ UNCHANGED <<engine, allocated, reserved, beat>>
    BY <1>3 DEF MQ!SettleDelete
  <2>3. RemovalsFit'
    BY <2>1, <2>2 DEF MQ!Becomes, u, QuotaInv, QuotaTypes, RemovalsFit
  <2>4. /\ used \in Nat /\ reserved \in Nat /\ allocated \in Nat /\ twice \in Nat
        /\ used + reserved + twice >= Placed + LiveReserved
        /\ Placed + LiveReserved <= allocated + twice /\ reserved >= LiveReserved
    BY DEF QuotaInv, QuotaTypes, CountersCover, AllocationRespected
  <2>5. beat # <<>> => /\ beat.used \in Nat /\ beat.reserved \in Nat
                       /\ beat.used + beat.reserved + twice >= Placed + LiveReserved
                       /\ beat.reserved >= LiveReserved
    BY DEF QuotaInv, QuotaTypes, BeatCovers, Beats
  <2> HIDE DEF u
  <2>6. /\ Size[u] \in Nat /\ Placed \in Nat /\ LiveReserved \in Nat /\ Placed' \in Nat
        /\ Placed' = IF media[u] = "deleted" THEN Placed ELSE Placed - Size[u]
        /\ LiveReserved' = LiveReserved
    BY <2>1, RowMoves
  <2>7. QuotaTypes'
    BY <2>1, <2>2, <2>4, <2>6 DEF MQ!AtLeastZero, MQ!Becomes, MediaStates, QuotaInv, QuotaTypes
  \* Whether the bytes leave the rows or are written down as settled once more.
  <2>8. /\ twice' \in Nat /\ Placed' <= Placed /\ twice <= twice'
        /\ Placed - Placed' + (twice' - twice) = Size[u]
    <3>1. CASE media[u] = "deleted"
      BY <2>2, <2>4, <2>6, <3>1
    <3>2. CASE media[u] # "deleted"
      BY <2>2, <2>4, <2>6, <3>2
    <3>3. QED
      BY <3>1, <3>2
  <2>9. used' = IF used - Size[u] > 0 THEN used - Size[u] ELSE 0
    BY <2>2 DEF MQ!AtLeastZero
  <2>10. /\ used' \in Nat /\ used' >= used - Size[u]
         /\ used <= Placed /\ Placed <= used + twice =>
              used' <= Placed' /\ Placed' <= used' + twice'
    <3>1. CASE used - Size[u] > 0
      BY SMTT(30), <2>4, <2>6, <2>8, <2>9, <3>1
    <3>2. CASE ~(used - Size[u] > 0)
      BY SMTT(30), <2>4, <2>6, <2>8, <2>9, <3>2
    <3>3. QED
      BY <3>1, <3>2
  <2>11. BeatCovers'
    <3>1. SUFFICES ASSUME beat # <<>>
                   PROVE  /\ beat.used + beat.reserved + twice' >= Placed' + LiveReserved'
                          /\ beat.reserved >= LiveReserved'
      BY <2>2 DEF BeatCovers
    <3> DEFINE sum == beat.used + beat.reserved
    <3>2. sum \in Nat /\ sum + twice >= Placed + LiveReserved /\ beat.reserved >= LiveReserved
      BY <2>5, <3>1
    <3>3. beat.reserved >= LiveReserved'
      BY <2>6, <3>2
    <3> HIDE DEF sum
    <3>4. sum + twice' >= Placed' + LiveReserved'
      BY <2>4, <2>6, <2>8, <3>2
    <3>5. QED
      BY <3>3, <3>4 DEF sum
  <2>12. AllocationRespected'
    BY <2>2, <2>4, <2>6, <2>8 DEF AllocationRespected
  <2>13. CountersCover'
    BY <2>2, <2>4, <2>6, <2>8, <2>10 DEF CountersCover
  <2>14. AccountsExact'
    BY <2>2, <2>6, <2>10, Accounts DEF AccountsExact
  <2>15. reserved' >= LiveReserved'
    BY <2>2, <2>4, <2>6
  <2>16. QED
    BY <2>3, <2>7, <2>11, <2>12, <2>13, <2>14, <2>15 DEF QuotaInv
<1>4. QED
  BY <1>1, <1>2, <1>3

\* A heartbeat reads and writes back, and an administrator changes the allocation.
LEMMA HeartbeatKeeps ==
  ASSUME QuotaInv,
         \/ MQ!HeartbeatRead \/ MQ!HeartbeatWrite \/ MQ!HeartbeatSerial
         \/ \E bytes \in Allocations : MQ!Configure(bytes)
  PROVE  QuotaInv'
<1> USE DEF QuotaInv, QuotaTypes, RemovalsFit, BeatCovers, AllocationRespected, CountersCover,
            AccountsExact, Beats
<1>1. Placed \in Nat /\ LiveReserved \in Nat
  BY TotalType DEF Placed, LiveReserved, In
<1>2. CASE MQ!HeartbeatRead
  BY <1>1, <1>2, RowsRest, SamePlaced DEF MQ!HeartbeatRead, MQ!Observed
<1>3. CASE MQ!HeartbeatWrite
  BY <1>1, <1>3, RowsRest DEF MQ!HeartbeatWrite, MQ!WriteBack, MQ!NodeLocked, MQ!Larger
<1>4. CASE MQ!HeartbeatSerial
  BY <1>1, <1>4, RowsRest, SamePlaced DEF MQ!HeartbeatSerial, MQ!WriteBack, MQ!Observed, MQ!Larger
<1>5. CASE \E bytes \in Allocations : MQ!Configure(bytes)
  BY <1>1, <1>5, RowsRest, QuotaConstants DEF MQ!Configure
<1>6. QED
  BY <1>2, <1>3, <1>4, <1>5

LEMMA QuotaKeeps == ASSUME QuotaInv, [MQ!Next]_(MQ!quotavars) PROVE QuotaInv'
<1>1. CASE UNCHANGED MQ!quotavars
  BY <1>1, RowsRest DEF MQ!quotavars, QuotaInv, QuotaTypes, RemovalsFit, BeatCovers, AllocationRespected, CountersCover,
            AccountsExact
<1>2. QED
  BY <1>1, RowKeeps, DeletionKeeps, HeartbeatKeeps DEF MQ!Next

\* However heartbeats, uploads and deletions interleave, retries of one deletion that
\* overlap included, what is placed and reserved exceeds the allocation and the counters by
\* no more than what such retries subtracted once more, and where the heartbeat is serial
\* the reservations are exact and used_bytes is short by no more than that.
THEOREM CapacityKept == MQ!Spec => []QuotaSound
<1>1. MQ!Init => QuotaInv
  BY QuotaStarts
<1>2. QuotaInv /\ [MQ!Next]_(MQ!quotavars) => QuotaInv'
  BY QuotaKeeps
<1>3. QuotaInv => QuotaSound
  BY DEF QuotaInv, QuotaSound
<1>4. QED
  BY <1>1, <1>2, <1>3, PTL DEF MQ!Spec

-----------------------------------------------------------------------------
(* Karaoke: the inductive invariant says what each place of a request has     *)
(* behind it, that one sweep at a time holds a recording, that bytes are only *)
(* erased of recordings that are being deleted (or were once given back), and *)
(* that the Follower's counters cover both its files and its open uploads.    *)

CONSTANTS Requests, Asks, Quota, Allocated, MaxSanctions, MaxFailures

Kar == INSTANCE Karaoke

RowStates == {"none", "pending", "ready", "deleting", "gone"}
KarPlaces ==
    {"idle", "survey", "look", "stage", "disown", "each", "remove", "settle", "finish", "sweep",
     "swept", "wipe", "clear", "restore", "send", "stat", "confirm"}
Named == Recordings \cup {"none"}

Rows == [state : RowStates, final : BOOLEAN, old : BOOLEAN]
Books == [reserved : Nat, used : Nat]
Handlings ==
    [at : KarPlaces, op : Kar!UserOps \cup {"none", "status", "list"}, rec : Named, now : Named,
     todo : SUBSET Recordings]

KarTypes ==
    /\ account \in [status : {"active", "banned", "deleting", "gone"}, used : Nat]
    /\ row \in [Recordings -> Rows]
    /\ books \in Books /\ shelf \in Books
    /\ file \in SUBSET Recordings /\ late \in SUBSET Recordings
    /\ receiver \in [Recordings -> {"none", "write", "count", "undo"}]
    /\ request \in [Kar!Handlers -> Handlings]

\* Only a recording that was confirmed is final.
RowsFit == \A r \in Recordings : row[r].state \in {"none", "pending", "gone"} => ~row[r].final

Doomed == {"deleting", "gone"}

\* A request works on a recording that exists, a ticket on one that does not exist yet, and
\* only a ticket sweeps.
Fits(q, rows) ==
    /\ q.at \in {"look", "stage", "stat", "confirm", "send"} =>
         q.rec \in Recordings /\ q.op # "ticket"
    /\ q.at \in {"remove", "settle", "wipe", "clear", "restore"} => q.now \in Recordings
    /\ q.at \in {"sweep", "swept", "wipe", "clear", "restore"} => q.op = "ticket"
    /\ q.at \in {"wipe", "clear", "restore"} => q.now \notin q.todo
    /\ q.rec # "none" => (q.op = "ticket" <=> rows[q.rec].state = "none")

PlacesFit == \A h \in Kar!Handlers : Fits(request[h], row)

TicketsApart ==
    \A g, h \in Kar!Handlers :
        /\ request[g].op = "ticket" /\ request[h].op = "ticket"
        /\ request[g].rec = request[h].rec /\ request[g].rec # "none"
        => g = h

\* The old reservations that a sweep still has to remove, or to give back.
Held(q) ==
    IF q.at \in {"wipe", "clear", "restore"} THEN q.todo \cup {q.now}
    ELSE IF q.at = "swept" THEN q.todo ELSE {}

SweepFits ==
    /\ \A h \in Kar!Handlers : \A r \in Held(request[h]) :
         row[r].state \in Doomed /\ ~row[r].final
    /\ \A g, h \in Kar!Handlers : \A r \in Held(request[g]) : r \in Held(request[h]) => g = h

\* What may still erase the bytes of a recording: a late call, or one under way.
ErasersFit ==
    /\ \A r \in late \ withdrawn : row[r].state \in Doomed
    /\ \A h \in Kar!Handlers :
         request[h].at \in {"remove", "wipe"} /\ request[h].now \notin withdrawn =>
             row[request[h].now].state \in Doomed

\* Until it is deleted, a file that was seen stays.
ConfirmFits ==
    \A h \in Kar!Handlers :
        LET r == request[h].rec IN
        request[h].at = "confirm" /\ row[r].state = "pending" /\ r \notin withdrawn => r \in file

Counting == {r \in Recordings : receiver[r] = "count"}

\* The Follower counts a file when its upload is over, and a crash in between leaves the
\* upload's reservation.
ShelfFits ==
    /\ Counting \subseteq file
    /\ shelf.reserved >= Cardinality(InFlight)
    /\ shelf.used + shelf.reserved >= Cardinality(file \ Counting) + Cardinality(InFlight)

RequestsFit == PlacesFit /\ TicketsApart /\ SweepFits /\ ErasersFit /\ ConfirmFits

KarInv ==
    /\ KarTypes /\ RowsFit
    /\ RequestsFit /\ ReadyIsStored
    /\ BooksExact /\ ShelfFits

-----------------------------------------------------------------------------
\* What nobody touches stays as it fits.
LEMMA BooksRest == ASSUME BooksExact, UNCHANGED <<account, row, books>> PROVE BooksExact'
BY DEF BooksExact, Charged

LEMMA ShelfRests == ASSUME ShelfFits, UNCHANGED <<shelf, file, receiver>> PROVE ShelfFits'
BY DEF ShelfFits, InFlight, Counting

\* The row of a recording that is being deleted is not revived, unless by the sweep that
\* holds it; a row stays unborn; and a ready row has its file.
RowsGo(h) ==
    /\ row' \in [Recordings -> Rows] /\ withdrawn \subseteq withdrawn'
    /\ \A r \in Recordings :
         /\ row'[r].state = "none" <=> row[r].state = "none"
         /\ row[r].state \in Doomed =>
              \/ row'[r].state \in Doomed /\ (row'[r].final => row[r].final)
              \/ r \in Held(request[h]) \ Held(request'[h]) /\ r \in withdrawn'
         /\ r \notin withdrawn' =>
              /\ row'[r].state = "pending" => row[r].state = "pending"
              /\ row'[r].state = "ready" => row[r].state = "ready" \/ r \in file

\* A request moves on, to a place that fits what it knows.
Moves(h) ==
    LET q == request'[h] IN
    /\ request' \in [Kar!Handlers -> Handlings]
    /\ \A g \in Kar!Handlers \ {h} : request'[g] = request[g]
    /\ Fits(q, row')
    /\ q.op = "ticket" /\ q.rec # "none" =>
         \A g \in Kar!Handlers \ {h} : request[g].op = "ticket" => request[g].rec # q.rec
    /\ \A r \in Held(q) :
         /\ row'[r].state \in Doomed /\ ~row'[r].final
         /\ \A g \in Kar!Handlers \ {h} : r \notin Held(request[g])
    /\ q.at \in {"remove", "wipe"} => row'[q.now].state \in Doomed \/ q.now \in withdrawn'
    /\ q.at = "confirm" /\ row'[q.rec].state = "pending" /\ q.rec \notin withdrawn' => q.rec \in file'

\* A file goes only when its recording is being deleted, or was once given back.
FilesStay ==
    \A r \in Recordings \ withdrawn' :
        r \in file /\ row'[r].state \in {"pending", "ready"} => r \in file'

\* Calls the Master gives up on become late.
LateFits(h) ==
    \A r \in late' : r \in late \/ (Kar!Removing(h) /\ r = request[h].now)

LEMMA OneMoves ==
  ASSUME KarInv, NEW h \in Kar!Handlers, Moves(h), RowsGo(h), FilesStay, LateFits(h)
  PROVE  RequestsFit' /\ ReadyIsStored'
<1>1. /\ request \in [Kar!Handlers -> Handlings] /\ row \in [Recordings -> Rows]
      /\ late \in SUBSET Recordings
      /\ PlacesFit /\ TicketsApart /\ SweepFits /\ ErasersFit /\ ConfirmFits /\ ReadyIsStored
  BY DEF KarInv, KarTypes, RequestsFit
<1>2. ASSUME NEW g \in Kar!Handlers PROVE Held(request[g]) \subseteq Recordings
  BY <1>1 DEF Held, Handlings, PlacesFit, Fits
<1>3. PlacesFit'
  BY <1>1 DEF Moves, RowsGo, PlacesFit, Fits, Handlings, Named
<1>4. TicketsApart'
  BY <1>1 DEF Moves, TicketsApart
<1>5. SweepFits'
  <2>1. ASSUME NEW g \in Kar!Handlers, NEW r \in Held(request'[g])
        PROVE  row'[r].state \in Doomed /\ ~row'[r].final
    BY <1>1, <1>2 DEF Moves, RowsGo, SweepFits
  <2>2. ASSUME NEW f \in Kar!Handlers, NEW g \in Kar!Handlers, NEW r \in Held(request'[f]),
               r \in Held(request'[g])
        PROVE  f = g
    BY <1>1, <2>2 DEF Moves, SweepFits
  <2>3. QED
    BY <2>1, <2>2 DEF SweepFits, Held
<1>6. ErasersFit'
  <2>1. ASSUME NEW r \in late' \ withdrawn' PROVE row'[r].state \in Doomed
    BY <1>1 DEF RowsGo, LateFits, ErasersFit, Kar!Removing, PlacesFit, Fits
  <2>2. ASSUME NEW g \in Kar!Handlers, request'[g].at \in {"remove", "wipe"},
               request'[g].now \notin withdrawn'
        PROVE  row'[request'[g].now].state \in Doomed
    BY <1>1, <2>2 DEF Moves, RowsGo, ErasersFit, PlacesFit, Fits
  <2>3. QED
    BY <2>1, <2>2 DEF ErasersFit
<1>7. ConfirmFits'
  BY <1>1 DEF Moves, RowsGo, FilesStay, ConfirmFits, PlacesFit, Fits
<1>8. ReadyIsStored'
  BY <1>1 DEF RowsGo, FilesStay, ReadyIsStored
<1>9. QED
  BY <1>3, <1>4, <1>5, <1>6, <1>7, <1>8 DEF RequestsFit

LEMMA RequestsRest ==
  ASSUME KarInv, UNCHANGED <<row, request>>, withdrawn \subseteq withdrawn', late' \subseteq late,
         FilesStay
  PROVE  RequestsFit' /\ ReadyIsStored'
BY DEF FilesStay, RequestsFit, KarInv, PlacesFit, TicketsApart, SweepFits, ErasersFit, ConfirmFits,
       ReadyIsStored, Kar!Handlers, Fits, Held

LEMMA RowsStill == ASSUME KarInv, NEW h \in Kar!Handlers, UNCHANGED <<row, withdrawn>> PROVE RowsGo(h)
BY DEF RowsGo, KarInv, KarTypes, ReadyIsStored

LEMMA FilesStill == ASSUME file \subseteq file' PROVE FilesStay
BY DEF FilesStay

\* Where a request goes, and how it ends.
LEMMA GoesOn ==
  ASSUME KarTypes, NEW h \in Kar!Handlers, NEW at \in KarPlaces, Kar!Goes(h, at)
  PROVE  /\ request' \in [Kar!Handlers -> Handlings]
         /\ \A g \in Kar!Handlers \ {h} : request'[g] = request[g]
         /\ request'[h].at = at /\ request'[h].op = request[h].op
         /\ request'[h].rec = request[h].rec /\ request'[h].todo = request[h].todo
         /\ request'[h].now = IF at \in {"each", "swept"} THEN "none" ELSE request[h].now
<1>1. /\ request \in [Kar!Handlers -> Handlings] /\ "none" \in Named
      /\ request' = [request EXCEPT ![h].at = at,
                                   ![h].now = IF at \in {"each", "swept"} THEN "none" ELSE @]
  BY DEF KarTypes, Kar!Goes, Named
<1>2. QED
  BY <1>1 DEF Handlings

LEMMA EndsMoves ==
  ASSUME KarTypes, NEW h \in Kar!Handlers, Kar!Ends(h)
  PROVE  Moves(h) /\ Held(request'[h]) = {}
BY DEF KarTypes, Kar!Ends, Kar!Idle, Moves, Handlings, Named, KarPlaces, Fits, Held

-----------------------------------------------------------------------------
\* The Master's books.
LEMMA ChargedFinite ==
  /\ IsFiniteSet(Charged)
  /\ IsFiniteSet({r \in Charged : row[r].final})
  /\ IsFiniteSet({r \in Charged : ~row[r].final})
<1>1. /\ Charged \in SUBSET Recordings
      /\ {r \in Charged : row[r].final} \in SUBSET Recordings
      /\ {r \in Charged : ~row[r].final} \in SUBSET Recordings
  BY DEF Charged
<1>2. QED
  BY <1>1, KarConstants, FS_Subset

LEMMA LessType == \A n \in Nat : Kar!Less(n) \in Nat /\ (n > 0 => Kar!Less(n) = n - 1)
BY DEF Kar!Less

\* A row changes its state, and stays one that is charged or one that is not.
LEMMA BooksMove ==
  ASSUME KarInv, UNCHANGED books, account'.used = account.used,
         account'.status = "gone" <=> account.status = "gone",
         \A r \in Recordings :
            /\ row'[r].final = row[r].final
            /\ row'[r].state \in {"pending", "ready", "deleting"}
                 <=> row[r].state \in {"pending", "ready", "deleting"}
  PROVE  BooksExact'
<1>1. Charged' = Charged
  BY DEF Charged
<1>2. /\ {r \in Charged : row[r].final}' = {r \in Charged : row[r].final}
      /\ {r \in Charged : ~row[r].final}' = {r \in Charged : ~row[r].final}
  <2>1. \A r \in Charged : r \in Recordings
    BY DEF Charged
  <2>2. QED
    BY <1>1, <2>1
<1>3. QED
  BY <1>1, <1>2 DEF KarInv, BooksExact

\* A row that is forgotten was charged once.
LEMMA BooksForget ==
  ASSUME KarInv, NEW r \in Recordings, row[r].state = "deleting", Kar!Forgotten(r),
         books' = IF row[r].final THEN [books EXCEPT !.used = Kar!Less(@)]
                                  ELSE [books EXCEPT !.reserved = Kar!Less(@)]
  PROVE  BooksExact'
<1> DEFINE F == {s \in Charged : row[s].final}
           N == {s \in Charged : ~row[s].final}
<1>1. /\ row \in [Recordings -> Rows] /\ account.used \in Nat /\ books.used \in Nat
      /\ books.reserved \in Nat
      /\ account \in [status : {"active", "banned", "deleting", "gone"}, used : Nat]
      /\ books \in [reserved : Nat, used : Nat]
  BY DEF KarInv, KarTypes, Books
<1>2. row'[r].state = "gone" /\ \A s \in Recordings \ {r} : row'[s] = row[s]
  BY <1>1 DEF Kar!Forgotten, Kar!Unborn
<1>3. r \in Charged /\ Charged' = Charged \ {r}
  BY <1>1, <1>2 DEF Charged
<1>4. F' = F \ {r} /\ N' = N \ {r}
  BY <1>1, <1>2, <1>3 DEF Charged
<1>5. /\ Cardinality(Charged \ {r}) = Cardinality(Charged) - 1
      /\ Cardinality(F \ {r}) = IF row[r].final THEN Cardinality(F) - 1 ELSE Cardinality(F)
      /\ Cardinality(N \ {r}) = IF row[r].final THEN Cardinality(N) ELSE Cardinality(N) - 1
  BY <1>3, ChargedFinite, FS_RemoveElement
<1>6. /\ account.status # "gone" /\ account.used = Cardinality(Charged)
      /\ books.used = Cardinality(F) /\ books.reserved = Cardinality(N)
  BY <1>3 DEF KarInv, BooksExact
<1>7. /\ Cardinality(Charged) > 0
      /\ row[r].final => Cardinality(F) > 0
      /\ ~row[r].final => Cardinality(N) > 0
  BY <1>1, <1>3, <1>6, ChargedFinite, FS_EmptySet
<1>8. account' = [account EXCEPT !.used = account.used - 1]
  BY <1>1, <1>6, <1>7, LessType DEF Kar!Forgotten
<1>9. books' = IF row[r].final THEN [books EXCEPT !.used = books.used - 1]
                               ELSE [books EXCEPT !.reserved = books.reserved - 1]
  BY <1>1, <1>6, <1>7, LessType
<1>10. account'.used = account.used - 1 /\ account'.status = account.status
  BY <1>1, <1>8
<1>11. /\ books'.used = IF row[r].final THEN books.used - 1 ELSE books.used
       /\ books'.reserved = IF row[r].final THEN books.reserved ELSE books.reserved - 1
  BY <1>1, <1>9
<1> HIDE DEF F, N
<1>12. /\ account'.used = Cardinality(Charged') /\ account'.status # "gone"
       /\ books'.used = Cardinality(F') /\ books'.reserved = Cardinality(N')
  BY <1>1, <1>3, <1>4, <1>5, <1>6, <1>10, <1>11
<1>13. QED
  BY <1>12 DEF BooksExact, F, N

\* A reservation is charged to the account and to the member.
LEMMA BooksReserve ==
  ASSUME KarInv, NEW r \in Recordings, row[r].state = "none", account.status = "active",
         row' = [row EXCEPT ![r].state = "pending"],
         account' = [account EXCEPT !.used = @ + 1],
         books' = [books EXCEPT !.reserved = @ + 1]
  PROVE  BooksExact'
<1> DEFINE F == {s \in Charged : row[s].final}
           N == {s \in Charged : ~row[s].final}
<1>1. /\ row \in [Recordings -> [state : RowStates, final : BOOLEAN, old : BOOLEAN]]
      /\ account.used \in Nat /\ books.used \in Nat /\ books.reserved \in Nat
      /\ account \in [status : {"active", "banned", "deleting", "gone"}, used : Nat]
      /\ books \in [reserved : Nat, used : Nat]
  BY DEF KarInv, KarTypes, Books, Rows
<1>2. ~row[r].final
  BY DEF KarInv, RowsFit
<1>3. r \notin Charged /\ Charged' = Charged \cup {r}
  BY <1>1 DEF Charged
<1>4. r \notin N /\ F' = F /\ N' = N \cup {r}
  BY <1>1, <1>2, <1>3 DEF Charged
<1>5. /\ Cardinality(Charged \cup {r}) = Cardinality(Charged) + 1
      /\ Cardinality(N \cup {r}) = Cardinality(N) + 1
  BY <1>3, <1>4, ChargedFinite, FS_AddElement
<1>6. /\ account.used = Cardinality(Charged)
      /\ books.used = Cardinality(F) /\ books.reserved = Cardinality(N)
  BY DEF KarInv, BooksExact
<1>7. /\ account'.used = account.used + 1 /\ account'.status = "active"
      /\ books'.used = books.used /\ books'.reserved = books.reserved + 1
  BY <1>1
<1> HIDE DEF F, N
<1>8. /\ account'.used = Cardinality(Charged')
      /\ books'.used = Cardinality(F') /\ books'.reserved = Cardinality(N')
  BY <1>1, <1>3, <1>4, <1>5, <1>6, <1>7
<1>9. QED
  BY <1>7, <1>8 DEF BooksExact, F, N

\* A confirmation moves the charge from what is reserved to what is used.
LEMMA BooksConfirm ==
  ASSUME KarInv, NEW r \in Recordings, row[r].state = "pending", UNCHANGED account,
         row' = [row EXCEPT ![r] = [Kar!Unborn EXCEPT !.state = "ready", !.final = TRUE]],
         books' = [reserved |-> Kar!Less(books.reserved), used |-> books.used + 1]
  PROVE  BooksExact'
<1> DEFINE F == {s \in Charged : row[s].final}
           N == {s \in Charged : ~row[s].final}
<1>1. /\ row \in [Recordings -> Rows] /\ books.used \in Nat /\ books.reserved \in Nat
  BY DEF KarInv, KarTypes, Books
<1>2. ~row[r].final
  BY DEF KarInv, RowsFit
<1>3. r \in Charged /\ Charged' = Charged
  BY <1>1 DEF Charged, Kar!Unborn
<1>4. r \in N /\ r \notin F /\ F' = F \cup {r} /\ N' = N \ {r}
  BY <1>1, <1>2, <1>3 DEF Charged, Kar!Unborn
<1>5. /\ Cardinality(F \cup {r}) = Cardinality(F) + 1
      /\ Cardinality(N \ {r}) = Cardinality(N) - 1
  BY <1>4, ChargedFinite, FS_AddElement, FS_RemoveElement
<1>6. books.used = Cardinality(F) /\ books.reserved = Cardinality(N)
  BY DEF KarInv, BooksExact
<1>7. Cardinality(N) > 0
  <2>1. IsFiniteSet(N) /\ N # {}
    BY <1>4, ChargedFinite
  <2>2. Cardinality(N) # 0
    BY <2>1, FS_EmptySet
  <2>3. QED
    BY <1>1, <1>6, <2>2
<1>8. books'.used = books.used + 1 /\ books'.reserved = books.reserved - 1
  BY <1>1, <1>6, <1>7, LessType
<1> HIDE DEF F, N
<1>9. books'.used = Cardinality(F') /\ books'.reserved = Cardinality(N')
  BY <1>4, <1>5, <1>6, <1>8
<1>10. QED
  BY <1>3, <1>9 DEF KarInv, BooksExact, F, N

-----------------------------------------------------------------------------
\* The Follower's shelf.
LEMMA ShelfFinite ==
  ASSUME KarTypes
  PROVE  /\ IsFiniteSet(InFlight) /\ Cardinality(InFlight) \in Nat
         /\ IsFiniteSet(file \ Counting) /\ Cardinality(file \ Counting) \in Nat
         /\ IsFiniteSet(file) /\ IsFiniteSet(Counting)
<1>1. /\ InFlight \in SUBSET Recordings /\ file \ Counting \in SUBSET Recordings
      /\ file \in SUBSET Recordings /\ Counting \in SUBSET Recordings
  BY DEF KarTypes, InFlight, Counting
<1>2. QED
  BY <1>1, KarConstants, FS_Subset, FS_CardinalityType

LEMMA ShelfErases ==
  ASSUME KarInv, NEW r \in Recordings, Kar!Erases(r), UNCHANGED receiver
  PROVE  ShelfFits'
<1> DEFINE I == Cardinality(InFlight)
           S == file \ Counting
<1>1. /\ shelf \in [reserved : Nat, used : Nat] /\ shelf.reserved >= I
      /\ shelf.used + shelf.reserved >= Cardinality(S) + I /\ I \in Nat /\ Cardinality(S) \in Nat
      /\ IsFiniteSet(S)
  BY ShelfFinite DEF KarInv, KarTypes, Books, ShelfFits
<1>2. InFlight' = InFlight /\ Counting' = Counting /\ r \notin Counting
  BY DEF InFlight, Counting, Kar!Erases
<1>3. file' = file \ {r} /\ S' = S \ {r} /\ Counting' \subseteq file'
  BY <1>2 DEF Kar!Erases, KarInv, ShelfFits
<1>4. r \in file <=> r \in S
  BY <1>2
<1> HIDE DEF I, S
<1>5. CASE r \in file
  <2>1. Cardinality(S') = Cardinality(S) - 1
    BY <1>1, <1>3, <1>4, <1>5, FS_RemoveElement
  <2>2. shelf' = [shelf EXCEPT !.used = Kar!Less(@)]
    BY <1>5 DEF Kar!Erases
  <2>3. /\ shelf'.reserved = shelf.reserved /\ shelf'.used = Kar!Less(shelf.used)
        /\ shelf.used \in Nat /\ shelf.reserved \in Nat
    BY <1>1, <2>2
  <2>4. shelf'.used \in Nat /\ shelf'.used >= shelf.used - 1
    BY <2>3 DEF Kar!Less
  <2>5. shelf'.used + shelf'.reserved >= Cardinality(S') + I
    BY <1>1, <2>1, <2>3, <2>4
  <2>6. QED
    BY <1>1, <1>2, <1>3, <2>3, <2>5 DEF ShelfFits, I, S
<1>6. CASE r \notin file
  <2>1. S' = S /\ shelf' = shelf
    BY <1>3, <1>4, <1>6 DEF Kar!Erases
  <2>2. QED
    BY <1>1, <1>2, <1>3, <2>1 DEF ShelfFits, I, S
<1>7. QED
  BY <1>5, <1>6

LEMMA ShelfAdmits ==
  ASSUME KarInv, NEW r \in Recordings, Kar!Admit(r), UNCHANGED file
  PROVE  ShelfFits'
<1>1. CASE UNCHANGED <<shelf, receiver>>
  BY <1>1, ShelfRests DEF KarInv
<1>2. CASE /\ receiver[r] = "none" /\ shelf' = [shelf EXCEPT !.reserved = @ + 1]
           /\ receiver' = [receiver EXCEPT ![r] = "write"]
  <2>1. r \notin InFlight /\ InFlight' = InFlight \cup {r} /\ Counting' = Counting
    <3>1. r \notin InFlight /\ r \notin Counting
      BY <1>2 DEF InFlight, Counting
    <3>2. receiver \in [Recordings -> {"none", "write", "count", "undo"}]
      BY DEF KarInv, KarTypes
    <3>3. InFlight' = InFlight \cup {r}
      BY <1>2, <3>2 DEF InFlight
    <3>4. Counting' = Counting
      BY <1>2, <3>1, <3>2 DEF Counting
    <3>5. QED
      BY <3>1, <3>3, <3>4
  <2>2. Cardinality(InFlight \cup {r}) = Cardinality(InFlight) + 1
    BY <2>1, ShelfFinite, FS_AddElement DEF KarInv
  <2>3. /\ shelf.reserved \in Nat /\ shelf.used \in Nat
        /\ shelf'.reserved = shelf.reserved + 1 /\ shelf'.used = shelf.used
    BY <1>2 DEF KarInv, KarTypes, Books
  <2>4. Cardinality(InFlight) \in Nat /\ Cardinality(file \ Counting) \in Nat
    BY ShelfFinite DEF KarInv
  <2>5. QED
    BY <2>1, <2>2, <2>3, <2>4 DEF KarInv, ShelfFits
<1>3. QED
  BY <1>1, <1>2 DEF Kar!Admit, Kar!Writes

\* The Follower stops: every upload is gone, and what it had reserved stays reserved.
LEMMA ShelfStops ==
  ASSUME KarInv, receiver' = Kar!Stopped, file' \subseteq file, UNCHANGED shelf
  PROVE  ShelfFits'
<1>1. InFlight' = {} /\ Counting' = {} /\ Counting \subseteq InFlight /\ Counting \subseteq file
  BY DEF Kar!Stopped, InFlight, Counting, KarInv, ShelfFits
<1>2. /\ IsFiniteSet(InFlight) /\ Cardinality(InFlight) \in Nat
      /\ IsFiniteSet(file \ Counting) /\ Cardinality(file \ Counting) \in Nat
      /\ IsFiniteSet(file) /\ IsFiniteSet(Counting)
  BY ShelfFinite DEF KarInv
<1>3. Cardinality(file') <= Cardinality(file) /\ Cardinality(file') \in Nat
  BY <1>2, FS_Subset, FS_CardinalityType
<1>4. Cardinality(Counting) <= Cardinality(InFlight) /\ Cardinality(Counting) \in Nat
  BY <1>1, <1>2, FS_Subset, FS_CardinalityType
<1>5. /\ Cardinality(file \ Counting) = Cardinality(file) - Cardinality(file \cap Counting)
      /\ file \cap Counting = Counting
      /\ Cardinality(file) \in Nat
  BY <1>1, <1>2, FS_Difference, FS_CardinalityType
<1>6. /\ shelf.reserved \in Nat /\ shelf.used \in Nat
      /\ shelf.used + shelf.reserved >= Cardinality(file \ Counting) + Cardinality(InFlight)
  BY DEF KarInv, KarTypes, Books, ShelfFits
<1>7. shelf.used + shelf.reserved >= Cardinality(file')
  <2>1. Cardinality(file \ Counting) = Cardinality(file) - Cardinality(Counting)
    BY <1>5
  <2>2. Cardinality(file \ Counting) + Cardinality(InFlight) >= Cardinality(file)
    BY <1>2, <1>4, <1>5, <2>1
  <2>3. shelf.used + shelf.reserved >= Cardinality(file)
    BY <1>2, <1>5, <1>6, <2>2
  <2>4. QED
    BY <1>3, <1>5, <1>6, <2>3
<1>8. (file \ Counting)' = file' /\ Cardinality(InFlight') = 0
  BY <1>1, FS_EmptySet
<1>9. QED
  BY <1>1, <1>3, <1>6, <1>7, <1>8 DEF ShelfFits


-----------------------------------------------------------------------------
\* A request that stays what it is, at its next place.
LEMMA SameMoves ==
  ASSUME KarInv, NEW h \in Kar!Handlers, RowsGo(h),
         request' \in [Kar!Handlers -> Handlings],
         \A g \in Kar!Handlers \ {h} : request'[g] = request[g],
         request'[h].op = request[h].op, request'[h].rec = request[h].rec,
         Fits(request'[h], row),
         Held(request'[h]) \subseteq Held(request[h]),
         request'[h].at \in {"remove", "wipe"} =>
            row'[request'[h].now].state \in Doomed \/ request'[h].now \in withdrawn',
         request'[h].at = "confirm" /\ row'[request[h].rec].state = "pending"
           /\ request[h].rec \notin withdrawn' => request[h].rec \in file'
  PROVE  Moves(h)
<1>1. /\ request \in [Kar!Handlers -> Handlings] /\ TicketsApart /\ SweepFits /\ PlacesFit
  BY DEF KarInv, KarTypes, RequestsFit
<1>2. Held(request[h]) \subseteq Recordings
  BY <1>1 DEF Held, Handlings, PlacesFit, Fits
<1>3. Fits(request'[h], row')
  <2>1. request'[h].rec \in Named
    BY <1>1 DEF Handlings
  <2>2. QED
    BY <2>1 DEF Fits, RowsGo, Named
<1>4. \A g \in Kar!Handlers \ {h} :
         request[h].op = "ticket" /\ request[h].rec # "none" /\ request[g].op = "ticket" =>
            request[g].rec # request[h].rec
  BY <1>1 DEF TicketsApart
<1>5. ASSUME NEW r \in Held(request'[h])
      PROVE  /\ row'[r].state \in Doomed /\ ~row'[r].final
             /\ \A g \in Kar!Handlers \ {h} : r \notin Held(request[g])
  BY <1>1, <1>2 DEF SweepFits, RowsGo
<1>6. QED
  BY <1>3, <1>4, <1>5 DEF Moves

\* A step that moves one request only.
LEMMA CalmKeeps ==
  ASSUME KarInv, NEW h \in Kar!Handlers, Moves(h),
         UNCHANGED <<account, row, books, shelf, file, receiver, late, withdrawn>>
  PROVE  KarInv'
<1>1. RowsGo(h) /\ FilesStay /\ LateFits(h)
  BY RowsStill, FilesStill DEF LateFits
<1>2. RequestsFit' /\ ReadyIsStored'
  BY <1>1, OneMoves
<1>3. KarTypes' /\ RowsFit'
  BY DEF KarInv, KarTypes, RowsFit, Moves, Kar!Handlers
<1>4. BooksExact' /\ ShelfFits'
  BY BooksRest, ShelfRests DEF KarInv
<1>5. QED
  BY <1>2, <1>3, <1>4 DEF KarInv

\* The places of one request, as the invariant has them.
LEMMA PlaceFits ==
  ASSUME KarInv, NEW h \in Kar!Handlers
  PROVE  request[h] \in Handlings /\ Fits(request[h], row)
BY DEF KarInv, KarTypes, RequestsFit, PlacesFit

\* One request becomes what it is said to become.
LEMMA Becoming ==
  ASSUME KarInv, NEW h \in Kar!Handlers, NEW q \in Handlings, request' = [request EXCEPT ![h] = q]
  PROVE  /\ request' \in [Kar!Handlers -> Handlings]
         /\ \A g \in Kar!Handlers \ {h} : request'[g] = request[g]
         /\ request'[h] = q
BY DEF KarInv, KarTypes

LEMMA AskKeeps ==
  ASSUME KarInv, NEW h \in Requests, NEW op \in Kar!UserOps, NEW r \in Recordings, Kar!Ask(h, op, r)
  PROVE  KarInv'
<1>1. h \in Kar!Handlers /\ r # "none" /\ row[r].state \in RowStates
  BY KarConstants DEF Kar!Handlers, KarInv, KarTypes, Rows
<1> DEFINE q == [Kar!Idle EXCEPT !.at = Kar!Begins(op), !.op = op,
                                 !.rec = IF Kar!Names(op, r) THEN r ELSE "none"]
<1>2. request' = [request EXCEPT ![h] = q]
  BY DEF Kar!Ask
<1>3. /\ Kar!Begins(op) \in {"survey", "look", "stage", "disown"}
      /\ Kar!Begins(op) \in {"look", "stage"} => op \notin {"ticket", "close"}
  BY DEF Kar!Begins, Kar!UserOps
<1>4. /\ request' \in [Kar!Handlers -> Handlings]
      /\ \A g \in Kar!Handlers \ {h} : request'[g] = request[g]
      /\ request'[h].at = Kar!Begins(op) /\ request'[h].op = op
      /\ request'[h].rec = (IF Kar!Names(op, r) THEN r ELSE "none")
  <2>1. /\ q \in Handlings
        /\ q.at = Kar!Begins(op) /\ q.op = op
        /\ q.rec = (IF Kar!Names(op, r) THEN r ELSE "none")
    BY <1>1, <1>3 DEF Kar!Idle, Handlings, Named, KarPlaces
  <2>2. QED
    BY <1>1, <1>2, <2>1, Becoming
<1>5. op \notin {"ticket", "close"} => row[r].state \in {"pending", "ready", "deleting"}
  BY DEF Kar!Ask
<1>6. op = "ticket" => \A g \in Kar!Handlers : request[g].rec # r
  BY DEF Kar!Ask
<1>7. UNCHANGED <<account, row, books, shelf, file, receiver, late, withdrawn>>
  BY DEF Kar!Ask
<1>8. Moves(h)
  <2>1. Fits(request'[h], row')
    BY <1>1, <1>3, <1>4, <1>5, <1>7 DEF Fits, Kar!Names
  <2>2. Held(request'[h]) = {}
    BY <1>3, <1>4 DEF Held
  <2>3. QED
    BY <1>1, <1>3, <1>4, <1>6, <2>1, <2>2 DEF Moves
<1>9. QED
  BY <1>1, <1>7, <1>8, CalmKeeps

LEMMA VisitKeeps ==
  ASSUME KarInv, NEW op \in {"status", "list"}, Kar!Visit(op)
  PROVE  KarInv'
<1> DEFINE h == "visitor"
<1>1. h \in Kar!Handlers
  BY DEF Kar!Handlers
<1> DEFINE q == [Kar!Idle EXCEPT !.at = "survey", !.op = op]
<1>2. q \in Handlings /\ q.at = "survey" /\ q.op = op /\ q.rec = "none"
  BY DEF Kar!Idle, Handlings, Named, KarPlaces
<1>3. Moves(h)
  <2>1. /\ request' \in [Kar!Handlers -> Handlings]
        /\ \A g \in Kar!Handlers \ {h} : request'[g] = request[g]
        /\ request'[h] = q
    BY <1>1, <1>2, Becoming DEF Kar!Visit
  <2>2. QED
    BY <1>2, <2>1 DEF Moves, Fits, Held
<1>4. QED
  BY <1>1, <1>3, CalmKeeps DEF Kar!Visit

LEMMA SurveyKeeps ==
  ASSUME KarInv, NEW h \in Kar!Handlers, Kar!Survey(h)
  PROVE  KarInv'
<1>1. /\ request' \in [Kar!Handlers -> Handlings]
      /\ \A g \in Kar!Handlers \ {h} : request'[g] = request[g]
      /\ request'[h].op = request[h].op /\ request'[h].rec = request[h].rec
      /\ request'[h].at = "each"
  <2> DEFINE q == [request[h] EXCEPT !.at = "each", !.todo = {r \in Recordings : Kar!Recoverable(r)}]
  <2>1. request' = [request EXCEPT ![h] = q]
    BY DEF Kar!Survey
  <2>2. q \in Handlings /\ q.at = "each" /\ q.op = request[h].op /\ q.rec = request[h].rec
    BY PlaceFits DEF Handlings, KarPlaces
  <2>3. QED
    BY <2>1, <2>2, Becoming
<1>2. Fits(request'[h], row) /\ Held(request'[h]) = {}
  BY <1>1, PlaceFits DEF Fits, Held
<1>3. RowsGo(h)
  BY RowsStill DEF Kar!Survey
<1>4. Moves(h)
  BY <1>1, <1>2, <1>3, SameMoves
<1>5. QED
  BY <1>4, CalmKeeps DEF Kar!Survey

LEMMA TakeKeeps ==
  ASSUME KarInv, NEW h \in Kar!Handlers, NEW r \in Recordings, Kar!Take(h, r)
  PROVE  KarInv'
<1>1. /\ request' \in [Kar!Handlers -> Handlings]
      /\ \A g \in Kar!Handlers \ {h} : request'[g] = request[g]
      /\ request'[h].op = request[h].op /\ request'[h].rec = request[h].rec
      /\ \/ request'[h].at = "each"
         \/ request'[h].at = "remove" /\ request'[h].now = r /\ row[r].state = "deleting"
  <2> DEFINE q == [request[h] EXCEPT !.at = "remove", !.now = r, !.todo = @ \ {r}]
             s == [request[h] EXCEPT !.todo = @ \ {r}]
  <2>1. request[h].at = "each" /\ request[h] \in Handlings
    BY PlaceFits DEF Kar!Take
  <2>2. /\ q \in Handlings /\ q.at = "remove" /\ q.now = r /\ q.op = request[h].op
        /\ q.rec = request[h].rec
        /\ s \in Handlings /\ s.at = "each" /\ s.op = request[h].op /\ s.rec = request[h].rec
    BY <2>1 DEF Handlings, KarPlaces, Named
  <2>3. /\ row[r].state = "deleting" => request' = [request EXCEPT ![h] = q]
        /\ row[r].state # "deleting" => request' = [request EXCEPT ![h] = s]
    BY DEF Kar!Take
  <2>4. QED
    BY <2>2, <2>3, Becoming
<1>2. Fits(request'[h], row) /\ Held(request'[h]) = {}
  BY <1>1, PlaceFits DEF Fits, Held
<1>3. RowsGo(h)
  BY RowsStill DEF Kar!Take
<1>4. row' = row
  BY DEF Kar!Take
<1>5. Moves(h)
  BY <1>1, <1>2, <1>3, <1>4, SameMoves DEF Doomed
<1>6. QED
  BY <1>5, CalmKeeps DEF Kar!Take

LEMMA ThroughKeeps ==
  ASSUME KarInv, NEW h \in Kar!Handlers, Kar!Through(h)
  PROVE  KarInv'
<1>1. CASE Kar!Ends(h)
  BY <1>1, EndsMoves, CalmKeeps DEF Kar!Through, KarInv
<1>2. ASSUME NEW at \in {"sweep", "finish"}, Kar!Goes(h, at), at = "sweep" => request[h].op = "ticket"
      PROVE  KarInv'
  <2>1. /\ request' \in [Kar!Handlers -> Handlings]
        /\ \A g \in Kar!Handlers \ {h} : request'[g] = request[g]
        /\ request'[h].op = request[h].op /\ request'[h].rec = request[h].rec
        /\ request'[h].at = at
    BY <1>2, GoesOn DEF KarInv, KarPlaces
  <2>2. Fits(request'[h], row) /\ Held(request'[h]) = {}
    BY <1>2, <2>1, PlaceFits DEF Fits, Held
  <2>3. RowsGo(h)
    BY RowsStill DEF Kar!Through
  <2>4. Moves(h)
    BY <2>1, <2>2, <2>3, SameMoves
  <2>5. QED
    BY <2>4, CalmKeeps DEF Kar!Through
<1>3. Kar!After(request[h].op) \in {"sweep", "finish", "idle"}
      /\ (Kar!After(request[h].op) = "sweep" => request[h].op = "ticket")
  BY DEF Kar!After
<1>4. QED
  BY <1>1, <1>2, <1>3 DEF Kar!Through

\* A removal that was not done, or not known to be done.
LEMMA NotRemovedMoves ==
  ASSUME KarInv, NEW h \in Kar!Handlers, Kar!Removing(h), UNCHANGED <<row, withdrawn>>,
         \/ Kar!NotRemoved(h) \/ Kar!Removed(h)
  PROVE  Moves(h) /\ request[h].now \in Recordings
<1>1. PICK at \in {"each", "restore", "settle", "clear"} :
         /\ Kar!Goes(h, at)
         /\ at \in {"each", "settle"} <=> request[h].at = "remove"
  BY DEF Kar!NotRemoved, Kar!Removed, Kar!Removing
<1>2. /\ request' \in [Kar!Handlers -> Handlings]
      /\ \A g \in Kar!Handlers \ {h} : request'[g] = request[g]
      /\ request'[h].op = request[h].op /\ request'[h].rec = request[h].rec
      /\ request'[h].at = at /\ request'[h].todo = request[h].todo
      /\ at # "each" => request'[h].now = request[h].now
  BY <1>1, GoesOn DEF KarInv, KarPlaces
<1>3. Fits(request[h], row)
  BY PlaceFits
<1>4. Fits(request'[h], row) /\ Held(request'[h]) \subseteq Held(request[h])
  BY <1>1, <1>2, <1>3 DEF Fits, Held, Kar!Removing
<1>5. RowsGo(h)
  BY RowsStill
<1>6. Moves(h)
  BY <1>2, <1>4, <1>5, SameMoves
<1>7. QED
  BY <1>3, <1>6 DEF Fits, Kar!Removing

LEMMA BusyKeeps == ASSUME KarInv, NEW h \in Kar!Handlers, Kar!Busy(h) PROVE KarInv'
BY NotRemovedMoves, CalmKeeps DEF Kar!Busy

LEMMA WipeKeeps ==
  ASSUME KarInv, NEW h \in Kar!Handlers, NEW r \in Recordings, Kar!Wipe(h, r)
  PROVE  KarInv'
<1> DEFINE q == [request[h] EXCEPT !.at = "wipe", !.now = r, !.todo = @ \ {r}]
<1>1. /\ q \in Handlings /\ q.at = "wipe" /\ q.now = r /\ q.op = request[h].op
      /\ q.rec = request[h].rec /\ q.todo = request[h].todo \ {r}
  BY PlaceFits DEF Handlings, KarPlaces, Named
<1>2. /\ request' \in [Kar!Handlers -> Handlings]
      /\ \A g \in Kar!Handlers \ {h} : request'[g] = request[g]
      /\ request'[h].op = request[h].op /\ request'[h].rec = request[h].rec
      /\ request'[h].at = "wipe" /\ request'[h].now = r /\ request'[h].todo = request[h].todo \ {r}
  <2>1. request' = [request EXCEPT ![h] = q]
    BY DEF Kar!Wipe
  <2>2. QED
    BY <1>1, <2>1, Becoming
<1>3. request[h].at = "swept" /\ r \in request[h].todo
  BY DEF Kar!Wipe
<1>4. Fits(request'[h], row) /\ Held(request'[h]) = Held(request[h]) /\ r \in Held(request[h])
  BY <1>2, <1>3, PlaceFits DEF Fits, Held
<1>5. row[r].state \in Doomed
  BY <1>4 DEF KarInv, RequestsFit, SweepFits
<1>6. RowsGo(h) /\ row' = row
  BY RowsStill DEF Kar!Wipe
<1>7. Moves(h)
  BY <1>2, <1>4, <1>5, <1>6, SameMoves
<1>8. QED
  BY <1>7, CalmKeeps DEF Kar!Wipe

LEMMA LookKeeps == ASSUME KarInv, NEW h \in Kar!Handlers, Kar!Look(h) PROVE KarInv'
<1>1. CASE Kar!Ends(h)
  BY <1>1, EndsMoves, CalmKeeps DEF Kar!Look, KarInv
<1>2. ASSUME NEW at \in {"send", "stat"}, Kar!Goes(h, at) PROVE KarInv'
  <2>1. /\ request' \in [Kar!Handlers -> Handlings]
        /\ \A g \in Kar!Handlers \ {h} : request'[g] = request[g]
        /\ request'[h].op = request[h].op /\ request'[h].rec = request[h].rec
        /\ request'[h].at = at
    BY <1>2, GoesOn DEF KarInv, KarPlaces
  <2>2. Fits(request'[h], row) /\ Held(request'[h]) = {}
    BY <2>1, PlaceFits DEF Fits, Held, Kar!Look
  <2>3. RowsGo(h)
    BY RowsStill DEF Kar!Look
  <2>4. Moves(h)
    BY <2>1, <2>2, <2>3, SameMoves
  <2>5. QED
    BY <2>4, CalmKeeps DEF Kar!Look
<1>3. QED
  BY <1>1, <1>2 DEF Kar!Look

LEMMA StatKeeps == ASSUME KarInv, NEW h \in Kar!Handlers, Kar!Stat(h) PROVE KarInv'
<1>1. CASE Kar!Ends(h)
  BY <1>1, EndsMoves, CalmKeeps DEF Kar!Stat, KarInv
<1>2. CASE Kar!Goes(h, "confirm") /\ request[h].rec \in file
  <2>1. /\ request' \in [Kar!Handlers -> Handlings]
        /\ \A g \in Kar!Handlers \ {h} : request'[g] = request[g]
        /\ request'[h].op = request[h].op /\ request'[h].rec = request[h].rec
        /\ request'[h].at = "confirm"
    BY <1>2, GoesOn DEF KarInv, KarPlaces
  <2>2. Fits(request'[h], row) /\ Held(request'[h]) = {}
    BY <2>1, PlaceFits DEF Fits, Held, Kar!Stat
  <2>3. RowsGo(h) /\ file' = file
    BY RowsStill DEF Kar!Stat
  <2>4. Moves(h)
    BY <1>2, <2>1, <2>2, <2>3, SameMoves
  <2>5. QED
    BY <2>4, CalmKeeps DEF Kar!Stat
<1>3. QED
  BY <1>1, <1>2 DEF Kar!Stat

\* A step of one request, and what it leaves behind it.
LEMMA StepKeeps ==
  ASSUME KarInv, NEW h \in Kar!Handlers, Moves(h), RowsGo(h), FilesStay, LateFits(h),
         KarTypes', RowsFit', BooksExact', ShelfFits'
  PROVE  KarInv'
BY OneMoves DEF KarInv

LEMMA StageKeeps == ASSUME KarInv, NEW h \in Kar!Handlers, Kar!Stage(h) PROVE KarInv'
<1>1. CASE ~Kar!Stageable(request[h].op, request[h].rec)
  BY <1>1, EndsMoves, CalmKeeps DEF Kar!Stage, KarInv
<1>2. CASE Kar!Stageable(request[h].op, request[h].rec)
  <2> DEFINE r == request[h].rec
             q == [request[h] EXCEPT !.at = "each", !.rec = "none", !.todo = {r}]
  <2>1. /\ r \in Recordings /\ request[h] \in Handlings /\ row[r] \in Rows
    BY PlaceFits DEF Fits, Kar!Stage, KarInv, KarTypes
  <2>2. q \in Handlings /\ q.at = "each" /\ q.rec = "none"
    BY <2>1 DEF Handlings, KarPlaces, Named
  <2>3. row' = [row EXCEPT ![r].state = "deleting"] /\ request' = [request EXCEPT ![h] = q]
    BY <1>2 DEF Kar!Stage, Kar!Marks
  <2>4. /\ request' \in [Kar!Handlers -> Handlings]
        /\ \A g \in Kar!Handlers \ {h} : request'[g] = request[g]
        /\ request'[h] = q
    BY <2>2, <2>3, Becoming
  <2>5. Moves(h) /\ Held(request'[h]) = {}
    BY <2>2, <2>4 DEF Moves, Fits, Held
  <2>6. row[r].state \in {"pending", "ready", "deleting"}
    BY <1>2 DEF Kar!Stageable
  <2>7. /\ row' \in [Recordings -> Rows]
        /\ row'[r].state = "deleting" /\ row'[r].final = row[r].final
        /\ \A s \in Recordings \ {r} : row'[s] = row[s]
    BY <2>1, <2>3 DEF KarInv, KarTypes, Rows, RowStates
  <2>8. RowsGo(h)
    BY <2>1, <2>6, <2>7 DEF RowsGo, Doomed, Kar!Stage
  <2>9. KarTypes' /\ RowsFit'
    BY <2>4, <2>7 DEF KarInv, KarTypes, RowsFit, Kar!Stage, Kar!Handlers
  <2>10. BooksExact'
    BY <2>6, <2>7, BooksMove DEF Kar!Stage
  <2>11. ShelfFits' /\ FilesStay /\ LateFits(h)
    BY ShelfRests, FilesStill DEF KarInv, Kar!Stage, LateFits
  <2>12. QED
    BY <2>5, <2>8, <2>9, <2>10, <2>11, StepKeeps
<1>3. QED
  BY <1>1, <1>2

LEMMA DisownKeeps == ASSUME KarInv, NEW h \in Kar!Handlers, Kar!Disown(h) PROVE KarInv'
<1>1. CASE account.status = "gone"
  BY <1>1, EndsMoves, CalmKeeps DEF Kar!Disown, KarInv
<1>2. CASE account.status # "gone"
  <2>1. /\ account' = [account EXCEPT !.status = "deleting"]
        /\ row' = [r \in Recordings |->
              IF Kar!Condemned(r) THEN [row[r] EXCEPT !.state = "deleting"] ELSE row[r]]
        /\ Kar!Goes(h, "survey")
    BY <1>2 DEF Kar!Disown
  <2>2. /\ request' \in [Kar!Handlers -> Handlings]
        /\ \A g \in Kar!Handlers \ {h} : request'[g] = request[g]
        /\ request'[h].op = request[h].op /\ request'[h].rec = request[h].rec
        /\ request'[h].at = "survey"
    BY <2>1, GoesOn DEF KarInv, KarPlaces
  <2>3. Fits(request'[h], row) /\ Held(request'[h]) = {} /\ Held(request[h]) = {}
    BY <2>2, PlaceFits DEF Fits, Held, Kar!Disown
  <2>4. /\ row' \in [Recordings -> Rows]
        /\ \A r \in Recordings :
              /\ row'[r].final = row[r].final
              /\ row'[r].state = IF row[r].state \in {"pending", "ready"} THEN "deleting"
                                                                         ELSE row[r].state
    BY <2>1 DEF KarInv, KarTypes, Rows, RowStates, Kar!Condemned
  <2>5. RowsGo(h)
    BY <2>4 DEF RowsGo, Doomed, Kar!Disown
  <2>6. Moves(h)
    BY <2>2, <2>3, <2>5, SameMoves
  <2>7. /\ account'.status = "deleting" /\ account'.used = account.used
        /\ account' \in [status : {"active", "banned", "deleting", "gone"}, used : Nat]
    BY <2>1 DEF KarInv, KarTypes
  <2>8. KarTypes' /\ RowsFit'
    BY <2>2, <2>4, <2>7 DEF KarInv, KarTypes, RowsFit, Kar!Disown, Kar!Handlers
  <2>9. BooksExact'
    BY <1>2, <2>4, <2>7, BooksMove DEF Kar!Disown
  <2>10. ShelfFits' /\ FilesStay /\ LateFits(h)
    BY ShelfRests, FilesStill DEF KarInv, Kar!Disown, LateFits
  <2>11. QED
    BY <2>5, <2>6, <2>8, <2>9, <2>10, StepKeeps
<1>3. QED
  BY <1>1, <1>2

\* A row that is forgotten stays away.
LEMMA ForgottenGoes ==
  ASSUME KarInv, NEW h \in Kar!Handlers, NEW r \in Recordings, row[r].state = "deleting",
         Kar!Forgotten(r), withdrawn' = withdrawn
  PROVE  /\ row' \in [Recordings -> Rows] /\ row'[r].state = "gone" /\ ~row'[r].final
         /\ \A s \in Recordings \ {r} : row'[s] = row[s]
         /\ RowsGo(h) /\ RowsFit'
         /\ account' \in [status : {"active", "banned", "deleting", "gone"}, used : Nat]
<1>1. /\ row' \in [Recordings -> Rows] /\ row'[r].state = "gone" /\ ~row'[r].final
      /\ \A s \in Recordings \ {r} : row'[s] = row[s]
  BY DEF KarInv, KarTypes, Kar!Forgotten, Kar!Unborn, Rows, RowStates
<1>2. RowsGo(h)
  BY <1>1 DEF RowsGo, Doomed, KarInv, KarTypes
<1>3. RowsFit'
  BY <1>1 DEF RowsFit, KarInv
<1>4. account' \in [status : {"active", "banned", "deleting", "gone"}, used : Nat]
  BY LessType DEF KarInv, KarTypes, Kar!Forgotten
<1>5. QED
  BY <1>1, <1>2, <1>3, <1>4

LEMMA SettleKeeps == ASSUME KarInv, NEW h \in Kar!Handlers, Kar!Settle(h) PROVE KarInv'
<1> DEFINE r == request[h].now
<1>1. /\ request' \in [Kar!Handlers -> Handlings]
      /\ \A g \in Kar!Handlers \ {h} : request'[g] = request[g]
      /\ request'[h].op = request[h].op /\ request'[h].rec = request[h].rec
      /\ request'[h].at = "each"
  BY GoesOn DEF KarInv, KarPlaces, Kar!Settle
<1>2. Fits(request'[h], row) /\ Held(request'[h]) = {} /\ r \in Recordings
  BY <1>1, PlaceFits DEF Fits, Held, Kar!Settle
<1>3. ASSUME RowsGo(h) PROVE Moves(h)
  BY <1>1, <1>2, <1>3, SameMoves
<1>4. CASE row[r].state = "deleting"
  <2>1. /\ Kar!Forgotten(r)
        /\ books' = IF row[r].final THEN [books EXCEPT !.used = Kar!Less(@)]
                                    ELSE [books EXCEPT !.reserved = Kar!Less(@)]
    BY <1>4 DEF Kar!Settle
  <2>2. /\ row' \in [Recordings -> Rows] /\ RowsGo(h) /\ RowsFit'
        /\ account' \in [status : {"active", "banned", "deleting", "gone"}, used : Nat]
    BY <1>2, <1>4, <2>1, ForgottenGoes DEF Kar!Settle
  <2>3. books' \in Books
    BY <2>1, LessType DEF KarInv, KarTypes, Books
  <2>4. KarTypes'
    BY <1>1, <2>2, <2>3 DEF KarInv, KarTypes, Kar!Settle, Kar!Handlers
  <2>5. BooksExact'
    BY <1>2, <1>4, <2>1, BooksForget
  <2>6. ShelfFits' /\ FilesStay /\ LateFits(h)
    BY ShelfRests, FilesStill DEF KarInv, Kar!Settle, LateFits
  <2>7. QED
    BY <1>3, <2>2, <2>4, <2>5, <2>6, StepKeeps
<1>5. CASE row[r].state # "deleting"
  BY <1>3, <1>5, RowsStill, CalmKeeps DEF Kar!Settle
<1>6. QED
  BY <1>4, <1>5

LEMMA FinishKeeps == ASSUME KarInv, NEW h \in Kar!Handlers, Kar!Finish(h) PROVE KarInv'
<1>1. Moves(h)
  BY EndsMoves DEF Kar!Finish, KarInv
<1>2. CASE UNCHANGED account
  BY <1>1, <1>2, CalmKeeps DEF Kar!Finish
<1>3. CASE Kar!Charged = {} /\ account' = [status |-> "gone", used |-> 0]
  <2>1. Charged = {} /\ Charged' = {}
    BY <1>3 DEF Charged, Kar!Charged, Kar!Finish
  <2>2. BooksExact'
    BY <1>3, <2>1 DEF KarInv, BooksExact, Kar!Finish
  <2>3. KarTypes' /\ RowsFit'
    BY <1>1, <1>3 DEF KarInv, KarTypes, RowsFit, Kar!Finish, Moves, Kar!Handlers
  <2>4. ShelfFits' /\ FilesStay /\ LateFits(h) /\ RowsGo(h)
    BY ShelfRests, FilesStill, RowsStill DEF KarInv, Kar!Finish, LateFits
  <2>5. QED
    BY <1>1, <2>2, <2>3, <2>4, StepKeeps
<1>4. QED
  BY <1>2, <1>3 DEF Kar!Finish

LEMMA RemoveKeeps == ASSUME KarInv, NEW h \in Kar!Handlers, Kar!Remove(h) PROVE KarInv'
<1> DEFINE r == request[h].now
<1>1. Moves(h) /\ r \in Recordings
  BY NotRemovedMoves DEF Kar!Remove
<1>2. ShelfFits'
  BY <1>1, ShelfErases DEF Kar!Remove
<1>3. FilesStay
  <2>1. r \in withdrawn \/ row[r].state \in Doomed
    BY DEF KarInv, RequestsFit, ErasersFit, Kar!Remove, Kar!Removing
  <2>2. QED
    BY <2>1 DEF FilesStay, Kar!Remove, Kar!Erases, Doomed
<1>4. BooksExact' /\ RowsGo(h) /\ LateFits(h)
  BY BooksRest, RowsStill DEF KarInv, Kar!Remove, LateFits
<1>5. shelf' \in Books /\ file' \in SUBSET Recordings
  BY LessType DEF Kar!Remove, Kar!Erases, KarInv, KarTypes, Books
<1>6. KarTypes' /\ RowsFit'
  BY <1>1, <1>5 DEF KarInv, KarTypes, RowsFit, Kar!Remove, Moves, Kar!Handlers
<1>7. QED
  BY <1>1, <1>2, <1>3, <1>4, <1>6, StepKeeps

LEMMA UnansweredKeeps == ASSUME KarInv, NEW h \in Kar!Handlers, Kar!Unanswered(h) PROVE KarInv'
<1>1. Moves(h) /\ request[h].now \in Recordings
  BY NotRemovedMoves DEF Kar!Unanswered
<1>2. LateFits(h) /\ late' \in SUBSET Recordings
  BY <1>1 DEF LateFits, Kar!Unanswered, KarInv, KarTypes
<1>3. BooksExact' /\ ShelfFits' /\ RowsGo(h) /\ FilesStay
  BY BooksRest, ShelfRests, RowsStill, FilesStill DEF KarInv, Kar!Unanswered
<1>4. KarTypes' /\ RowsFit'
  BY <1>1, <1>2 DEF KarInv, KarTypes, RowsFit, Kar!Unanswered, Moves, Kar!Handlers
<1>5. QED
  BY <1>1, <1>2, <1>3, <1>4, StepKeeps

LEMMA EraseHalfKeeps == ASSUME KarInv, NEW h \in Kar!Handlers, Kar!EraseHalf(h) PROVE KarInv'
<1> DEFINE r == request[h].now
<1>1. Moves(h) /\ r \in Recordings
  BY NotRemovedMoves DEF Kar!EraseHalf
<1>2. ShelfFits'
  BY ShelfStops DEF Kar!EraseHalf
<1>3. FilesStay
  <2>1. r \in withdrawn \/ row[r].state \in Doomed
    BY DEF KarInv, RequestsFit, ErasersFit, Kar!EraseHalf, Kar!Removing
  <2>2. QED
    BY <2>1 DEF FilesStay, Kar!EraseHalf, Doomed
<1>4. BooksExact' /\ RowsGo(h) /\ LateFits(h)
  BY BooksRest, RowsStill DEF KarInv, Kar!EraseHalf, LateFits
<1>5. KarTypes' /\ RowsFit'
  BY <1>1 DEF KarInv, KarTypes, RowsFit, Kar!EraseHalf, Kar!Stopped, Moves, Kar!Handlers
<1>6. QED
  BY <1>1, <1>2, <1>3, <1>4, <1>5, StepKeeps

LEMMA SweepKeeps == ASSUME KarInv, NEW h \in Kar!Handlers, Kar!Sweep(h) PROVE KarInv'
<1> DEFINE q == [request[h] EXCEPT !.at = "swept", !.todo = Kar!Stale]
<1>1. request[h] \in Handlings /\ Fits(request[h], row) /\ request[h].op = "ticket"
  BY PlaceFits DEF Kar!Sweep, Fits
<1>2. /\ q \in Handlings /\ q.at = "swept" /\ q.todo = Kar!Stale /\ q.op = "ticket"
      /\ q.rec = request[h].rec
  BY <1>1 DEF Handlings, KarPlaces, Kar!Stale
<1>3. /\ request' \in [Kar!Handlers -> Handlings]
      /\ \A g \in Kar!Handlers \ {h} : request'[g] = request[g]
      /\ request'[h] = q
  <2>1. request' = [request EXCEPT ![h] = q]
    BY DEF Kar!Sweep
  <2>2. QED
    BY <1>2, <2>1, Becoming
<1> HIDE DEF q
<1>4. /\ row' \in [Recordings -> Rows]
      /\ \A r \in Recordings :
            /\ row'[r].final = row[r].final
            /\ row'[r].state = IF r \in Kar!Stale THEN "deleting" ELSE row[r].state
            /\ r \in Kar!Stale => row[r].state = "pending"
  BY DEF Kar!Sweep, Kar!Stale, KarInv, KarTypes, Rows, RowStates
<1>5. Held(request[h]) = {} /\ Held(request'[h]) = Kar!Stale /\ Kar!Stale \subseteq Recordings
  BY <1>2, <1>3 DEF Held, Kar!Stale, Kar!Sweep
<1>6. RowsGo(h)
  BY <1>4, <1>5 DEF RowsGo, Doomed, Kar!Sweep
<1>7. Moves(h)
  <2>1. ASSUME NEW r \in Kar!Stale
        PROVE  /\ row'[r].state \in Doomed /\ ~row'[r].final
               /\ \A g \in Kar!Handlers \ {h} : r \notin Held(request[g])
    BY <1>4, <1>5 DEF KarInv, RowsFit, RequestsFit, SweepFits, Doomed
  <2>2. Fits(q, row')
    BY <1>1, <1>2, <1>6 DEF Fits, RowsGo, Handlings, Named
  <2>3. q.rec # "none" =>
           \A g \in Kar!Handlers \ {h} : request[g].op = "ticket" => request[g].rec # q.rec
    BY <1>1, <1>2 DEF KarInv, RequestsFit, TicketsApart
  <2>4. QED
    BY <1>2, <1>3, <1>5, <2>1, <2>2, <2>3 DEF Moves
<1>8. KarTypes' /\ RowsFit'
  BY <1>3, <1>4 DEF KarInv, KarTypes, RowsFit, Kar!Sweep, Kar!Handlers
<1>9. BooksExact'
  BY <1>4, BooksMove DEF Kar!Sweep
<1>10. ShelfFits' /\ FilesStay /\ LateFits(h)
  BY ShelfRests, FilesStill DEF KarInv, Kar!Sweep, LateFits
<1>11. QED
  BY <1>6, <1>7, <1>8, <1>9, <1>10, StepKeeps

\* A sweep lets go of one recording.
LEMMA SweptMoves ==
  ASSUME KarInv, NEW h \in Kar!Handlers, request[h].at \in {"clear", "restore"},
         Kar!Goes(h, "swept"), RowsGo(h)
  PROVE  /\ Moves(h) /\ request[h].now \in Held(request[h]) \ Held(request'[h])
<1>1. /\ request' \in [Kar!Handlers -> Handlings]
      /\ \A g \in Kar!Handlers \ {h} : request'[g] = request[g]
      /\ request'[h].op = request[h].op /\ request'[h].rec = request[h].rec
      /\ request'[h].at = "swept" /\ request'[h].todo = request[h].todo
  BY GoesOn DEF KarInv, KarPlaces
<1>2. /\ Fits(request'[h], row) /\ Held(request'[h]) \subseteq Held(request[h])
      /\ request[h].now \in Held(request[h]) \ Held(request'[h])
  BY <1>1, PlaceFits DEF Fits, Held
<1>3. QED
  BY <1>1, <1>2, SameMoves

LEMMA ClearKeeps == ASSUME KarInv, NEW h \in Kar!Handlers, Kar!Clear(h) PROVE KarInv'
<1> DEFINE r == request[h].now
<1>1. r \in Recordings /\ r \in Held(request[h]) /\ ~row[r].final
  <2>1. r \in Recordings /\ r \in Held(request[h])
    BY PlaceFits DEF Fits, Held, Kar!Clear
  <2>2. QED
    BY <2>1 DEF KarInv, RequestsFit, SweepFits
<1>2. request' \in [Kar!Handlers -> Handlings]
  BY GoesOn DEF KarInv, KarPlaces, Kar!Clear
<1>3. CASE row[r].state = "deleting"
  <2>1. Kar!Forgotten(r) /\ books' = [books EXCEPT !.reserved = Kar!Less(@)]
    BY <1>3 DEF Kar!Clear
  <2>2. /\ row' \in [Recordings -> Rows] /\ RowsGo(h) /\ RowsFit'
        /\ account' \in [status : {"active", "banned", "deleting", "gone"}, used : Nat]
    BY <1>1, <1>3, <2>1, ForgottenGoes DEF Kar!Clear
  <2>3. books' \in Books
    BY <2>1, LessType DEF KarInv, KarTypes, Books
  <2>4. KarTypes'
    BY <1>2, <2>2, <2>3 DEF KarInv, KarTypes, Kar!Clear, Kar!Handlers
  <2>5. BooksExact'
    BY <1>1, <1>3, <2>1, BooksForget
  <2>6. ShelfFits' /\ FilesStay /\ LateFits(h)
    BY ShelfRests, FilesStill DEF KarInv, Kar!Clear, LateFits
  <2>7. Moves(h)
    BY <2>2, SweptMoves DEF Kar!Clear
  <2>8. QED
    BY <2>2, <2>4, <2>5, <2>6, <2>7, StepKeeps
<1>4. CASE row[r].state # "deleting"
  <2>1. RowsGo(h)
    BY <1>4, RowsStill DEF Kar!Clear
  <2>2. QED
    BY <1>4, <2>1, SweptMoves, CalmKeeps DEF Kar!Clear
<1>5. QED
  BY <1>3, <1>4

LEMMA RestoreKeeps == ASSUME KarInv, NEW h \in Kar!Handlers, Kar!Restore(h) PROVE KarInv'
<1> DEFINE r == request[h].now
<1>1. /\ request' \in [Kar!Handlers -> Handlings] /\ request'[h].at = "swept"
      /\ request'[h].todo = request[h].todo
  BY GoesOn DEF KarInv, KarPlaces, Kar!Restore
<1>2. r \in Recordings /\ r \in Held(request[h]) \ Held(request'[h]) /\ ~row[r].final
  <2>1. r \in Recordings /\ r \in Held(request[h]) /\ r \notin Held(request'[h])
    BY <1>1, PlaceFits DEF Fits, Held, Kar!Restore
  <2>2. QED
    BY <2>1 DEF KarInv, RequestsFit, SweepFits
<1>3. CASE row[r].state = "deleting"
  <2>1. row' = [row EXCEPT ![r].state = "pending"] /\ withdrawn' = withdrawn \cup {r}
    BY <1>3 DEF Kar!Restore, Kar!Marks
  <2>2. /\ row' \in [Recordings -> Rows]
        /\ row'[r].state = "pending" /\ row'[r].final = row[r].final
        /\ \A s \in Recordings \ {r} : row'[s] = row[s]
    BY <1>2, <2>1 DEF KarInv, KarTypes, Rows, RowStates
  <2>3. RowsGo(h)
    BY <1>2, <1>3, <2>1, <2>2 DEF RowsGo
  <2>4. KarTypes' /\ RowsFit'
    BY <1>1, <1>2, <2>2 DEF KarInv, KarTypes, RowsFit, Kar!Restore, Kar!Handlers
  <2>5. BooksExact'
    BY <1>3, <2>2, BooksMove DEF Kar!Restore
  <2>6. ShelfFits' /\ FilesStay /\ LateFits(h)
    BY ShelfRests, FilesStill DEF KarInv, Kar!Restore, LateFits
  <2>7. Moves(h)
    BY <2>3, SweptMoves DEF Kar!Restore
  <2>8. QED
    BY <2>3, <2>4, <2>5, <2>6, <2>7, StepKeeps
<1>4. CASE row[r].state # "deleting"
  <2>1. RowsGo(h)
    BY <1>4, RowsStill DEF Kar!Restore
  <2>2. QED
    BY <1>4, <2>1, SweptMoves, CalmKeeps DEF Kar!Restore
<1>5. QED
  BY <1>3, <1>4

LEMMA ReserveKeeps == ASSUME KarInv, NEW h \in Kar!Handlers, Kar!Reserve(h) PROVE KarInv'
<1> DEFINE r == request[h].rec
<1>1. CASE ~(r # "none" /\ Kar!Admits)
  BY <1>1, EndsMoves, CalmKeeps DEF Kar!Reserve, KarInv
<1>2. CASE r # "none" /\ Kar!Admits
  <2>1. /\ row' = [row EXCEPT ![r].state = "pending"]
        /\ account' = [account EXCEPT !.used = @ + 1]
        /\ books' = [books EXCEPT !.reserved = @ + 1]
    BY <1>2 DEF Kar!Reserve
  <2>2. r \in Recordings /\ request[h].op = "ticket" /\ row[r].state = "none"
    BY <1>2, PlaceFits DEF Fits, Handlings, Named, Kar!Reserve
  <2>3. /\ request' \in [Kar!Handlers -> Handlings]
        /\ \A g \in Kar!Handlers \ {h} : request'[g] = request[g]
        /\ request'[h] = Kar!Idle
    BY DEF Kar!Reserve, Kar!Ends, Kar!Idle, KarInv, KarTypes, Handlings, Named, KarPlaces
  <2>4. Held(request'[h]) = {} /\ Fits(request'[h], row') /\ request'[h].op # "ticket"
        /\ request'[h].at = "idle" /\ request'[h].rec = "none"
    BY <2>3 DEF Held, Fits, Kar!Idle
  <2>5. /\ row' \in [Recordings -> Rows] /\ row'[r].state = "pending"
        /\ row'[r].final = row[r].final /\ \A s \in Recordings \ {r} : row'[s] = row[s]
    BY <2>1, <2>2 DEF KarInv, KarTypes, Rows, RowStates
  <2>6. \A g \in Kar!Handlers \ {h} : request[g].rec # r
    BY <1>2, <2>2, PlaceFits DEF KarInv, RequestsFit, TicketsApart, Fits
  <2>7. \A g \in Kar!Handlers : request[g] \in Handlings /\ Fits(request[g], row)
    BY PlaceFits
  <2>8. PlacesFit'
    <3>1. ASSUME NEW g \in Kar!Handlers \ {h} PROVE Fits(request'[g], row')
      BY <2>3, <2>5, <2>6, <2>7 DEF Fits, Handlings, Named
    <3>2. QED
      BY <2>4, <3>1 DEF PlacesFit, Kar!Handlers
  <2>9. TicketsApart'
    BY <2>3, <2>4 DEF KarInv, RequestsFit, TicketsApart, Kar!Handlers
  <2>10. ASSUME NEW g \in Kar!Handlers \ {h}, NEW s \in Held(request'[g])
         PROVE  s \in Held(request[g]) /\ s \in Recordings /\ s # r /\ row'[s] = row[s]
    <3>1. s \in Held(request[g]) /\ s \in Recordings
      BY <2>3, <2>7 DEF Held, Fits, Handlings
    <3>2. s # r
      BY <2>2, <3>1 DEF KarInv, RequestsFit, SweepFits, Doomed
    <3>3. QED
      BY <2>5, <3>1, <3>2
  <2>11. SweepFits'
    <3>1. ASSUME NEW g \in Kar!Handlers, NEW s \in Held(request'[g])
          PROVE  g # h /\ s \in Held(request[g]) /\ row'[s].state \in Doomed /\ ~row'[s].final
      BY <2>4, <2>10 DEF KarInv, RequestsFit, SweepFits
    <3>2. QED
      BY <3>1 DEF KarInv, RequestsFit, SweepFits, Held
  <2>12. ErasersFit'
    <3>1. ASSUME NEW s \in late' \ withdrawn' PROVE row'[s].state \in Doomed
      BY <2>2, <2>5 DEF KarInv, KarTypes, RequestsFit, ErasersFit, Doomed, Kar!Reserve
    <3>2. ASSUME NEW g \in Kar!Handlers, request'[g].at \in {"remove", "wipe"},
                 request'[g].now \notin withdrawn'
          PROVE  row'[request'[g].now].state \in Doomed
      <4>1. g # h /\ request'[g] = request[g] /\ request[g].now \in Recordings
        BY <2>3, <2>4, <2>7, <3>2 DEF Fits
      <4>2. row[request[g].now].state \in Doomed
        BY <3>2, <4>1 DEF KarInv, RequestsFit, ErasersFit, Kar!Reserve
      <4>3. QED
        BY <2>2, <2>5, <4>1, <4>2 DEF Doomed
    <3>3. QED
      BY <3>1, <3>2 DEF ErasersFit
  <2>13. ConfirmFits'
    <3>1. ASSUME NEW g \in Kar!Handlers, request'[g].at = "confirm",
                 row'[request'[g].rec].state = "pending", request'[g].rec \notin withdrawn'
          PROVE  request'[g].rec \in file'
      <4>1. g # h /\ request'[g] = request[g] /\ request[g].rec \in Recordings \ {r}
        BY <2>3, <2>4, <2>6, <2>7, <3>1 DEF Fits
      <4>2. QED
        BY <2>5, <3>1, <4>1 DEF KarInv, RequestsFit, ConfirmFits, Kar!Reserve
    <3>2. QED
      BY <3>1 DEF ConfirmFits
  <2>14. ReadyIsStored'
    BY <2>2, <2>5 DEF KarInv, ReadyIsStored, Kar!Reserve
  <2>15. account' \in [status : {"active", "banned", "deleting", "gone"}, used : Nat]
         /\ books' \in Books
    BY <2>1 DEF KarInv, KarTypes, Books
  <2>16. KarTypes' /\ RowsFit'
    BY <2>2, <2>3, <2>5, <2>15 DEF KarInv, KarTypes, RowsFit, Kar!Reserve, Kar!Handlers
  <2>17. BooksExact' /\ ShelfFits'
    BY <1>2, <2>1, <2>2, BooksReserve, ShelfRests DEF Kar!Admits, KarInv, Kar!Reserve
  <2>18. QED
    BY <2>8, <2>9, <2>11, <2>12, <2>13, <2>14, <2>16, <2>17 DEF KarInv, RequestsFit
<1>3. QED
  BY <1>1, <1>2

LEMMA ConfirmKeeps == ASSUME KarInv, NEW h \in Kar!Handlers, Kar!Confirm(h) PROVE KarInv'
<1> DEFINE r == request[h].rec
<1>1. Moves(h)
  BY EndsMoves DEF Kar!Confirm, KarInv
<1>2. r \in Recordings
  BY PlaceFits DEF Fits, Kar!Confirm
<1>3. CASE row[r].state = "pending"
  <2>1. /\ row' = [row EXCEPT ![r] = [Kar!Unborn EXCEPT !.state = "ready", !.final = TRUE]]
        /\ books' = [reserved |-> Kar!Less(books.reserved), used |-> books.used + 1]
    BY <1>3 DEF Kar!Confirm, Kar!Confirmable
  <2>2. /\ row' \in [Recordings -> Rows]
        /\ row'[r].state = "ready" /\ \A s \in Recordings \ {r} : row'[s] = row[s]
    BY <1>2, <2>1 DEF KarInv, KarTypes, Rows, RowStates, Kar!Unborn
  <2>3. r \in file \/ r \in withdrawn
    BY <1>3 DEF KarInv, RequestsFit, ConfirmFits, Kar!Confirm
  <2>4. RowsGo(h)
    BY <1>2, <1>3, <2>2, <2>3 DEF RowsGo, Doomed, Kar!Confirm
  <2>5. books' \in Books
    BY <2>1, LessType DEF KarInv, KarTypes, Books
  <2>6. KarTypes' /\ RowsFit'
    BY <1>1, <1>2, <2>2, <2>5 DEF KarInv, KarTypes, RowsFit, Kar!Confirm, Moves, Kar!Handlers
  <2>7. BooksExact'
    BY <1>2, <1>3, <2>1, BooksConfirm DEF Kar!Confirm
  <2>8. ShelfFits' /\ FilesStay /\ LateFits(h)
    BY ShelfRests, FilesStill DEF KarInv, Kar!Confirm, LateFits
  <2>9. QED
    BY <1>1, <2>4, <2>6, <2>7, <2>8, StepKeeps
<1>4. CASE row[r].state # "pending"
  BY <1>1, <1>4, CalmKeeps DEF Kar!Confirm, Kar!Confirmable
<1>5. QED
  BY <1>3, <1>4

LEMMA SendKeeps == ASSUME KarInv, NEW h \in Kar!Handlers, Kar!Send(h) PROVE KarInv'
<1>1. Moves(h) /\ request[h].rec \in Recordings
  BY EndsMoves, PlaceFits DEF Kar!Send, KarInv, Fits
<1>2. BooksExact' /\ ShelfFits' /\ RowsGo(h) /\ FilesStay /\ LateFits(h)
  BY <1>1, BooksRest, ShelfAdmits, RowsStill, FilesStill DEF KarInv, Kar!Send, LateFits
<1>3. KarTypes' /\ RowsFit'
  <2>1. shelf' \in Books /\ receiver' \in [Recordings -> {"none", "write", "count", "undo"}]
    BY <1>1 DEF Kar!Send, Kar!Admit, Kar!Writes, KarInv, KarTypes, Books
  <2>2. QED
    BY <1>1, <2>1 DEF KarInv, KarTypes, RowsFit, Kar!Send, Moves, Kar!Handlers
<1>4. QED
  BY <1>1, <1>2, <1>3, StepKeeps

\* A reservation grows old.
LEMMA AgeKeeps == ASSUME KarInv, NEW r \in Recordings, Kar!Age(r) PROVE KarInv'
<1> DEFINE h == "visitor"
<1>1. h \in Kar!Handlers
  BY DEF Kar!Handlers
<1>2. /\ row' \in [Recordings -> Rows]
      /\ \A s \in Recordings : row'[s].state = row[s].state /\ row'[s].final = row[s].final
  BY DEF Kar!Age, KarInv, KarTypes, Rows
<1>3. RowsGo(h)
  BY <1>2 DEF RowsGo, Kar!Age, Doomed
<1>4. request[h] \in Handlings /\ Fits(request[h], row) /\ request' = request
  BY <1>1, PlaceFits DEF Kar!Age
<1>5. request[h].at \in {"remove", "wipe"} =>
         row'[request[h].now].state \in Doomed \/ request[h].now \in withdrawn'
  BY <1>1, <1>2, <1>4 DEF KarInv, RequestsFit, ErasersFit, Kar!Age, Fits
<1>6. request[h].at = "confirm" /\ row'[request[h].rec].state = "pending"
        /\ request[h].rec \notin withdrawn' => request[h].rec \in file'
  BY <1>1, <1>2, <1>4 DEF KarInv, RequestsFit, ConfirmFits, Kar!Age, Fits
<1>7. Moves(h)
  <2>1. request' \in [Kar!Handlers -> Handlings]
    BY <1>4 DEF KarInv, KarTypes
  <2>2. Held(request'[h]) \subseteq Held(request[h])
    BY <1>4
  <2>3. QED
    BY <1>1, <1>3, <1>4, <1>5, <1>6, <2>1, <2>2, SameMoves
<1>8. KarTypes' /\ RowsFit'
  BY <1>2 DEF KarInv, KarTypes, RowsFit, Kar!Age, Kar!Handlers
<1>9. BooksExact'
  BY <1>2, BooksMove DEF Kar!Age
<1>10. ShelfFits' /\ FilesStay /\ LateFits(h)
  BY ShelfRests, FilesStill DEF KarInv, Kar!Age, LateFits
<1>11. QED
  BY <1>1, <1>3, <1>7, <1>8, <1>9, <1>10, StepKeeps

-----------------------------------------------------------------------------
\* Steps that move no request.
LEMMA RestKeeps ==
  ASSUME KarInv, UNCHANGED <<row, request>>, withdrawn \subseteq withdrawn', late' \subseteq late,
         FilesStay, KarTypes', BooksExact', ShelfFits'
  PROVE  KarInv'
<1>1. RowsFit'
  BY DEF KarInv, RowsFit
<1>2. QED
  BY <1>1, RequestsRest DEF KarInv

LEMMA SanctionKeeps ==
  ASSUME KarInv, NEW status \in {"active", "banned"}, Kar!Sanction(status)
  PROVE  KarInv'
<1>1. /\ account' \in [status : {"active", "banned", "deleting", "gone"}, used : Nat]
      /\ account'.used = account.used /\ account'.status # "gone" /\ account.status # "gone"
  BY DEF KarInv, KarTypes, Kar!Sanction
<1>2. KarTypes'
  BY <1>1 DEF KarInv, KarTypes, Kar!Sanction, Kar!Handlers
<1>3. BooksExact'
  BY <1>1, BooksMove DEF Kar!Sanction
<1>4. ShelfFits' /\ FilesStay
  BY ShelfRests, FilesStill DEF KarInv, Kar!Sanction
<1>5. QED
  BY <1>2, <1>3, <1>4, RestKeeps DEF Kar!Sanction

LEMMA EraseLateKeeps == ASSUME KarInv, NEW r \in Recordings, Kar!EraseLate(r) PROVE KarInv'
<1>1. FilesStay
  <2>1. r \in withdrawn \/ row[r].state \in Doomed
    BY DEF KarInv, RequestsFit, ErasersFit, Kar!EraseLate
  <2>2. QED
    BY <2>1 DEF FilesStay, Kar!EraseLate, Kar!Erases, Doomed
<1>2. BooksExact' /\ ShelfFits'
  BY BooksRest, ShelfErases DEF KarInv, Kar!EraseLate
<1>3. shelf' \in Books /\ file' \in SUBSET Recordings
  BY LessType DEF Kar!EraseLate, Kar!Erases, KarInv, KarTypes, Books
<1>4. KarTypes'
  BY <1>3 DEF KarInv, KarTypes, Kar!EraseLate, Kar!Handlers
<1>5. QED
  BY <1>1, <1>2, <1>4, RestKeeps DEF Kar!EraseLate

LEMMA RefuseLateKeeps == ASSUME KarInv, NEW r \in Recordings, Kar!RefuseLate(r) PROVE KarInv'
<1>1. BooksExact' /\ ShelfFits' /\ FilesStay
  BY BooksRest, ShelfRests, FilesStill DEF KarInv, Kar!RefuseLate
<1>2. KarTypes'
  BY DEF KarInv, KarTypes, Kar!RefuseLate, Kar!Handlers
<1>3. QED
  BY <1>1, <1>2, RestKeeps DEF Kar!RefuseLate

LEMMA ExpireKeeps == ASSUME KarInv, NEW r \in Recordings, Kar!Expire(r) PROVE KarInv'
<1>1. BooksExact' /\ ShelfFits' /\ FilesStay
  BY BooksRest, ShelfRests, FilesStill DEF KarInv, Kar!Expire
<1>2. KarTypes'
  BY DEF KarInv, KarTypes, Kar!Expire, Kar!Handlers
<1>3. QED
  BY <1>1, <1>2, RestKeeps DEF Kar!Expire

LEMMA PutKeeps == ASSUME KarInv, NEW r \in Recordings, Kar!Put(r) PROVE KarInv'
<1>1. BooksExact' /\ ShelfFits' /\ FilesStay
  BY BooksRest, ShelfAdmits, FilesStill DEF KarInv, Kar!Put
<1>2. shelf' \in Books /\ receiver' \in [Recordings -> {"none", "write", "count", "undo"}]
  BY DEF Kar!Put, Kar!Admit, Kar!Writes, KarInv, KarTypes, Books
<1>3. KarTypes'
  BY <1>2 DEF KarInv, KarTypes, Kar!Put, Kar!Handlers
<1>4. QED
  BY <1>1, <1>3, RestKeeps DEF Kar!Put

\* The receiver of one recording goes on.
LEMMA ReceiverGoes ==
  ASSUME KarInv, NEW r \in Recordings, NEW at \in {"none", "write", "count", "undo"},
         Kar!Writes(r, at), receiver[r] \in {"write", "count", "undo"}
  PROVE  /\ receiver' \in [Recordings -> {"none", "write", "count", "undo"}]
         /\ InFlight' = IF at = "none" THEN InFlight \ {r} ELSE InFlight
         /\ Counting' = IF at = "count" THEN Counting \cup {r} ELSE Counting \ {r}
         /\ r \in InFlight /\ (r \in Counting <=> receiver[r] = "count")
         /\ Cardinality(InFlight \ {r}) = Cardinality(InFlight) - 1
         /\ Cardinality(InFlight) \in Nat /\ Cardinality(InFlight) > 0
<1>1. receiver \in [Recordings -> {"none", "write", "count", "undo"}]
  BY DEF KarInv, KarTypes
<1>2. /\ receiver' \in [Recordings -> {"none", "write", "count", "undo"}]
      /\ receiver'[r] = at /\ \A s \in Recordings \ {r} : receiver'[s] = receiver[s]
  BY <1>1 DEF Kar!Writes
<1>3. r \in InFlight /\ InFlight' = IF at = "none" THEN InFlight \ {r} ELSE InFlight
  BY <1>2 DEF InFlight
<1>4. /\ r \in Counting <=> receiver[r] = "count"
      /\ Counting' = IF at = "count" THEN Counting \cup {r} ELSE Counting \ {r}
  BY <1>2 DEF Counting
<1>5. IsFiniteSet(InFlight) /\ Cardinality(InFlight) \in Nat
  BY ShelfFinite DEF KarInv
<1>6. Cardinality(InFlight \ {r}) = Cardinality(InFlight) - 1 /\ Cardinality(InFlight) # 0
  BY <1>3, <1>5, FS_RemoveElement, FS_EmptySet
<1>7. QED
  BY <1>2, <1>3, <1>4, <1>5, <1>6

LEMMA PublishKeeps == ASSUME KarInv, NEW r \in Recordings, Kar!Publish(r) PROVE KarInv'
<1>1. /\ receiver' \in [Recordings -> {"none", "write", "count", "undo"}]
      /\ InFlight' = InFlight /\ Counting' = Counting \cup {r} /\ r \notin Counting
  BY ReceiverGoes DEF Kar!Publish
<1>2. file' = file \cup {r} /\ r \notin file
  BY DEF Kar!Publish
<1>3. (file \ Counting)' = file \ Counting /\ Counting' \subseteq file'
  BY <1>1, <1>2 DEF KarInv, ShelfFits
<1>4. ShelfFits'
  BY <1>1, <1>3 DEF KarInv, ShelfFits, Kar!Publish
<1>5. BooksExact' /\ FilesStay
  BY <1>2, BooksRest, FilesStill DEF KarInv, Kar!Publish
<1>6. KarTypes'
  BY <1>1, <1>2 DEF KarInv, KarTypes, Kar!Publish, Kar!Handlers
<1>7. QED
  BY <1>4, <1>5, <1>6, RestKeeps DEF Kar!Publish

LEMMA RejectKeeps == ASSUME KarInv, NEW r \in Recordings, Kar!Reject(r) PROVE KarInv'
<1>1. /\ receiver' \in [Recordings -> {"none", "write", "count", "undo"}]
      /\ InFlight' = InFlight /\ Counting' = Counting
  BY ReceiverGoes DEF Kar!Reject
<1>2. ShelfFits'
  BY <1>1 DEF KarInv, ShelfFits, Kar!Reject
<1>3. BooksExact' /\ FilesStay
  BY BooksRest, FilesStill DEF KarInv, Kar!Reject
<1>4. KarTypes'
  BY <1>1 DEF KarInv, KarTypes, Kar!Reject, Kar!Handlers
<1>5. QED
  BY <1>2, <1>3, <1>4, RestKeeps DEF Kar!Reject

\* The counters of the Follower once its transaction is done.
LEMMA ShelfCounts ==
  ASSUME KarInv
  PROVE  /\ shelf \in [reserved : Nat, used : Nat]
         /\ shelf.reserved \in Nat /\ shelf.used \in Nat
         /\ Cardinality(file \ Counting) \in Nat /\ IsFiniteSet(file \ Counting)
         /\ shelf.reserved >= Cardinality(InFlight) /\ Counting \subseteq file
         /\ shelf.used + shelf.reserved >= Cardinality(file \ Counting) + Cardinality(InFlight)
BY ShelfFinite DEF KarInv, KarTypes, Books, ShelfFits

LEMMA CountKeeps == ASSUME KarInv, NEW r \in Recordings, Kar!Count(r) PROVE KarInv'
<1>1. /\ receiver' \in [Recordings -> {"none", "write", "count", "undo"}]
      /\ InFlight' = InFlight \ {r} /\ Counting' = Counting \ {r} /\ r \in Counting
      /\ Cardinality(InFlight \ {r}) = Cardinality(InFlight) - 1
      /\ Cardinality(InFlight) \in Nat /\ Cardinality(InFlight) > 0
  BY ReceiverGoes DEF Kar!Count
<1>2. shelf' = [reserved |-> Kar!Less(shelf.reserved), used |-> shelf.used + 1]
  BY DEF Kar!Count
<1>3. (file \ Counting)' = (file \ Counting) \cup {r} /\ r \notin file \ Counting
      /\ Counting' \subseteq file'
  BY <1>1, ShelfCounts DEF Kar!Count
<1>4. Cardinality((file \ Counting) \cup {r}) = Cardinality(file \ Counting) + 1
  BY <1>3, ShelfCounts, FS_AddElement
<1>5. Kar!Less(shelf.reserved) = shelf.reserved - 1 /\ shelf.reserved - 1 \in Nat
  BY <1>1, ShelfCounts, LessType
<1>6. shelf'.reserved = shelf.reserved - 1 /\ shelf'.used = shelf.used + 1
  BY <1>2, <1>5
<1>7. /\ shelf'.reserved >= Cardinality(InFlight')
      /\ shelf'.used + shelf'.reserved >= Cardinality((file \ Counting)') + Cardinality(InFlight')
  <2>1. /\ Cardinality(InFlight') = Cardinality(InFlight) - 1
        /\ Cardinality((file \ Counting)') = Cardinality(file \ Counting) + 1
    BY <1>1, <1>3, <1>4
  <2>2. QED
    BY <1>1, <1>6, <2>1, ShelfCounts
<1>8. ShelfFits'
  BY <1>3, <1>7 DEF ShelfFits
<1>9. BooksExact' /\ FilesStay
  BY BooksRest, FilesStill DEF KarInv, Kar!Count
<1>10. shelf' \in Books
  BY <1>2, <1>5, ShelfCounts DEF Books
<1>11. KarTypes'
  BY <1>1, <1>10 DEF KarInv, KarTypes, Kar!Count, Kar!Handlers
<1>12. QED
  BY <1>8, <1>9, <1>11, RestKeeps DEF Kar!Count

LEMMA CountFailsKeeps == ASSUME KarInv, NEW r \in Recordings, Kar!CountFails(r) PROVE KarInv'
<1>1. /\ receiver' \in [Recordings -> {"none", "write", "count", "undo"}]
      /\ InFlight' = InFlight /\ Counting' = Counting \ {r} /\ r \in Counting
  BY ReceiverGoes DEF Kar!CountFails
<1>2. file' = file \ {r} /\ withdrawn' = withdrawn \cup {r}
  BY DEF Kar!CountFails
<1>3. (file \ Counting)' = file \ Counting /\ Counting' \subseteq file'
  BY <1>1, <1>2, ShelfCounts
<1>4. ShelfFits'
  BY <1>1, <1>3 DEF KarInv, ShelfFits, Kar!CountFails
<1>5. BooksExact' /\ FilesStay
  BY <1>2, BooksRest DEF KarInv, Kar!CountFails, FilesStay
<1>6. KarTypes'
  BY <1>1, <1>2 DEF KarInv, KarTypes, Kar!CountFails, Kar!Handlers
<1>7. QED
  BY <1>2, <1>4, <1>5, <1>6, RestKeeps DEF Kar!CountFails

LEMMA UndoKeeps == ASSUME KarInv, NEW r \in Recordings, Kar!Undo(r) PROVE KarInv'
<1>1. /\ receiver' \in [Recordings -> {"none", "write", "count", "undo"}]
      /\ InFlight' = InFlight \ {r} /\ Counting' = Counting
      /\ Cardinality(InFlight \ {r}) = Cardinality(InFlight) - 1
      /\ Cardinality(InFlight) \in Nat /\ Cardinality(InFlight) > 0
  BY ReceiverGoes DEF Kar!Undo
<1>2. Kar!Less(shelf.reserved) = shelf.reserved - 1 /\ shelf.reserved - 1 \in Nat
  BY <1>1, ShelfCounts, LessType
<1>3. shelf' \in Books /\ shelf'.reserved = shelf.reserved - 1 /\ shelf'.used = shelf.used
  BY <1>2, ShelfCounts DEF Kar!Undo, Books
<1>4. /\ Cardinality(InFlight') = Cardinality(InFlight) - 1
      /\ (file \ Counting)' = file \ Counting /\ Counting' \subseteq file'
  BY <1>1, ShelfCounts DEF Kar!Undo
<1>5. ShelfFits'
  <2>1. /\ shelf'.reserved >= Cardinality(InFlight')
        /\ shelf'.used + shelf'.reserved >= Cardinality((file \ Counting)') + Cardinality(InFlight')
    <3>1. /\ Cardinality(InFlight') = Cardinality(InFlight) - 1
          /\ Cardinality((file \ Counting)') = Cardinality(file \ Counting)
      BY <1>1, <1>4
    <3>2. QED
      BY <1>1, <1>3, <3>1, ShelfCounts
  <2>2. QED
    BY <1>4, <2>1 DEF ShelfFits
<1>6. BooksExact' /\ FilesStay
  BY BooksRest, FilesStill DEF KarInv, Kar!Undo
<1>7. KarTypes'
  BY <1>1, <1>3 DEF KarInv, KarTypes, Kar!Undo, Kar!Handlers
<1>8. QED
  BY <1>5, <1>6, <1>7, RestKeeps DEF Kar!Undo

LEMMA CrashFollowerKeeps == ASSUME KarInv, Kar!CrashFollower PROVE KarInv'
<1>1. BooksExact' /\ ShelfFits' /\ FilesStay
  BY BooksRest, ShelfStops, FilesStill DEF KarInv, Kar!CrashFollower
<1>2. KarTypes'
  BY DEF KarInv, KarTypes, Kar!CrashFollower, Kar!Stopped, Kar!Handlers
<1>3. QED
  BY <1>1, <1>2, RestKeeps DEF Kar!CrashFollower

LEMMA IdleFits == \A rows : Fits(Kar!Idle, rows) /\ Held(Kar!Idle) = {} /\ Kar!Idle \in Handlings
BY DEF Kar!Idle, Fits, Held, Handlings, Named, KarPlaces

LEMMA CrashMasterKeeps == ASSUME KarInv, Kar!CrashMaster PROVE KarInv'
<1>1. request' \in [Kar!Handlers -> Handlings] /\ \A h \in Kar!Handlers : request'[h] = Kar!Idle
  BY IdleFits DEF Kar!CrashMaster
<1>2. RequestsFit'
  <2>1. PlacesFit' /\ SweepFits'
    BY <1>1, IdleFits DEF PlacesFit, SweepFits, Kar!Handlers
  <2>2. TicketsApart' /\ ConfirmFits'
    BY <1>1 DEF TicketsApart, ConfirmFits, Kar!Idle, Kar!Handlers
  <2>3. ErasersFit'
    BY <1>1 DEF KarInv, RequestsFit, ErasersFit, Kar!Idle, Kar!Handlers, Kar!CrashMaster
  <2>4. QED
    BY <2>1, <2>2, <2>3 DEF RequestsFit
<1>3. BooksExact' /\ ShelfFits' /\ ReadyIsStored' /\ RowsFit'
  BY BooksRest, ShelfRests DEF KarInv, Kar!CrashMaster, ReadyIsStored, RowsFit
<1>4. KarTypes'
  BY <1>1 DEF KarInv, KarTypes, Kar!CrashMaster, Kar!Handlers
<1>5. QED
  BY <1>2, <1>3, <1>4 DEF KarInv

-----------------------------------------------------------------------------
LEMMA KarStarts == ASSUME Kar!Init PROVE KarInv
<1>1. request \in [Kar!Handlers -> Handlings] /\ \A h \in Kar!Handlers : request[h] = Kar!Idle
  BY IdleFits DEF Kar!Init
<1>2. /\ row \in [Recordings -> Rows]
      /\ \A r \in Recordings : row[r].state = "none" /\ ~row[r].final
  BY DEF Kar!Init, Kar!Unborn, Rows, RowStates
<1>3. KarTypes /\ RowsFit
  BY <1>1, <1>2 DEF Kar!Init, KarTypes, RowsFit, Books
<1>4. RequestsFit
  <2>1. PlacesFit /\ SweepFits
    BY <1>1, IdleFits DEF PlacesFit, SweepFits
  <2>2. TicketsApart /\ ConfirmFits /\ ErasersFit
    BY <1>1 DEF TicketsApart, ConfirmFits, ErasersFit, Kar!Idle, Kar!Init
  <2>3. QED
    BY <2>1, <2>2 DEF RequestsFit
<1>5. ReadyIsStored
  BY <1>2 DEF ReadyIsStored
<1>6. Charged = {} /\ InFlight = {} /\ file \ Counting = {} /\ Counting = {}
  BY <1>2 DEF Charged, InFlight, Counting, Kar!Init
<1>7. Cardinality({}) = 0
  BY FS_EmptySet
<1>8. BooksExact
  <2>1. {r \in Charged : row[r].final} = {} /\ {r \in Charged : ~row[r].final} = {}
    BY <1>6
  <2>2. QED
    BY <1>6, <1>7, <2>1 DEF BooksExact, Kar!Init
<1>9. ShelfFits
  BY <1>6, <1>7 DEF ShelfFits, Kar!Init
<1>10. QED
  BY <1>3, <1>4, <1>5, <1>8, <1>9 DEF KarInv

LEMMA KarKeeps == ASSUME KarInv, [Kar!Next]_(Kar!karvars) PROVE KarInv'
<1>1. CASE UNCHANGED Kar!karvars
  <2>1. KarTypes' /\ BooksExact' /\ ShelfFits' /\ FilesStay
    BY <1>1, BooksRest, ShelfRests, FilesStill DEF KarInv, KarTypes, Kar!karvars, Kar!Handlers
  <2>2. QED
    BY <1>1, <2>1, RestKeeps DEF Kar!karvars
<1>2. ASSUME NEW h \in Kar!Handlers, Kar!Step(h) PROVE KarInv'
  BY <1>2, StageKeeps, DisownKeeps, SurveyKeeps, ThroughKeeps, SettleKeeps, FinishKeeps, RemoveKeeps,
     BusyKeeps, SweepKeeps, ClearKeeps, RestoreKeeps, ReserveKeeps, LookKeeps, StatKeeps,
     ConfirmKeeps, SendKeeps, TakeKeeps, WipeKeeps DEF Kar!Step
<1>3. ASSUME NEW r \in Recordings, Kar!Receives(r) PROVE KarInv'
  BY <1>3, PublishKeeps, RejectKeeps, CountKeeps, UndoKeeps DEF Kar!Receives
<1>4. ASSUME NEW op, Kar!Visit(op), op \in {"status", "list"} PROVE KarInv'
  BY <1>4, VisitKeeps
<1>5. QED
  BY <1>1, <1>2, <1>3, <1>4, UnansweredKeeps, EraseHalfKeeps, AskKeeps, SanctionKeeps, PutKeeps,
     CountFailsKeeps, ExpireKeeps, AgeKeeps, EraseLateKeeps, RefuseLateKeeps, CrashFollowerKeeps,
     CrashMasterKeeps DEF Kar!Next

\* The Follower's counters cover what it holds, whether counted already or still in flight.
LEMMA ShelfCovered == ASSUME KarInv PROVE ShelfCovers
<1>1. file \cup InFlight = (file \ Counting) \cup InFlight
  BY DEF InFlight, Counting
<1>2. Cardinality((file \ Counting) \cup InFlight)
        <= Cardinality(file \ Counting) + Cardinality(InFlight)
  <2>1. /\ IsFiniteSet(InFlight) /\ IsFiniteSet(file \ Counting)
        /\ Cardinality(InFlight) \in Nat /\ Cardinality(file \ Counting) \in Nat
    BY ShelfFinite DEF KarInv
  <2>2. /\ Cardinality((file \ Counting) \cup InFlight)
             = Cardinality(file \ Counting) + Cardinality(InFlight)
                 - Cardinality((file \ Counting) \cap InFlight)
        /\ Cardinality((file \ Counting) \cap InFlight) \in Nat
    BY <2>1, FS_Union, FS_Intersection, FS_CardinalityType
  <2>3. QED
    BY <2>1, <2>2
<1>3. Cardinality(file \cup InFlight) \in Nat
  <2>1. file \cup InFlight \in SUBSET Recordings
    BY DEF KarInv, KarTypes, InFlight
  <2>2. QED
    BY <2>1, KarConstants, FS_Subset, FS_CardinalityType
<1>4. shelf.used + shelf.reserved >= Cardinality(file \cup InFlight)
  <2>1. Cardinality(InFlight) \in Nat
    BY ShelfFinite DEF KarInv
  <2>2. Cardinality(file \cup InFlight) <= Cardinality(file \ Counting) + Cardinality(InFlight)
    BY <1>1, <1>2
  <2>3. QED
    BY <1>3, <2>1, <2>2, ShelfCounts
<1>5. QED
  BY <1>4 DEF ShelfCovers

\* However deletions, sweeps, uploads and confirmations overlap, fail and are repeated, and
\* however many recordings and requests there are: the Master's counters are exact and a deleted
\* account leaves no row, a ready recording has its file unless the sweep once gave it back or
\* the Follower took back a file it had just published, and the Follower never counts less than
\* it holds (karaoke_delete_integrity.py, karaoke_integrity.py, karaoke_storage.py).
THEOREM RecordingsSound == Kar!Spec => []KarSound
<1>1. KarInv => KarSound
  BY ShelfCovered DEF KarInv, KarSound
<1>2. QED
  BY KarStarts, KarKeeps, <1>1, PTL DEF Kar!Spec

-----------------------------------------------------------------------------
(* DirectoryRename: the inductive invariant says for every member that no     *)
(* rename has lost which names its directory and its rows bear while others   *)
(* are still being moved, that the Master waits for one Follower at a time,   *)
(* and that only members that went astray are asked by nobody.                *)

CONSTANTS MaxRenames, MaxFaults

Ren == INSTANCE DirectoryRename WITH Files <- DOMAIN Home

EntryStates == {"new", "reserved", "active", "pending_delete", "gone"}
NameOrNone == FolderNames \cup {"none"}
Asked == [to : FolderNames, from : FolderNames, member : Ren!Followers, awaited : BOOLEAN]

Courses ==
    [phase : {"idle", "check", "move", "undo"}, from : FolderNames \cup {""}, to : FolderNames \cup {""},
     owners : SUBSET Ren!Members, todo : SUBSET Ren!Members, moved : Seq(Ren!Members),
     waits : Ren!Followers \cup {"none"}]

RenTypes ==
    /\ entry \in [DOMAIN Home -> [state : EntryStates, name : NameOrNone]]
    /\ \A x \in DOMAIN Home : entry[x].state # "new" => entry[x].name \in FolderNames
    /\ native \in [DOMAIN Home -> NameOrNone] /\ disk \in [DOMAIN Home -> NameOrNone]
    /\ dirs \in [Ren!Members -> SUBSET FolderNames]
    /\ rename \in Courses
    /\ requests \in SUBSET Asked
    /\ serving \in [Ren!Followers -> Asked \cup {Ren!NoRequest}]
    /\ astray \in SUBSET Ren!Members

Elements(s) == {s[i] : i \in DOMAIN s}
Distinct(s) == \A i, j \in DOMAIN s : s[i] = s[j] => i = j
Moved == Elements(rename.moved)
Moving == rename.phase \in {"move", "undo"}

\* The members that were moved, and not moved back.
ProgressFits ==
    /\ ~Moving => rename.moved = <<>> /\ rename.waits = "none"
    /\ ~Idle => rename.from \in FolderNames /\ rename.to \in FolderNames /\ rename.from # rename.to
    /\ Distinct(rename.moved)
    /\ rename.phase = "check" => rename.todo = rename.owners
    /\ rename.phase = "move" => rename.owners = rename.todo \cup Moved /\ rename.todo \cap Moved = {}
    /\ rename.waits # "none" =>
         \/ rename.phase = "move" /\ rename.waits \in rename.todo
         \/ /\ rename.phase = "undo" /\ rename.moved # <<>>
            /\ rename.waits = rename.moved[Len(rename.moved)]

\* The Master awaits the answer of one Follower, to the request it has sent.
Awaiting(q) ==
    /\ Moving /\ rename.waits = q.member
    /\ q.from = IF rename.phase = "undo" THEN rename.to ELSE rename.from
    /\ q.to = IF rename.phase = "undo" THEN rename.from ELSE rename.to

Serves(m) == m \in Ren!Followers /\ serving[m] # Ren!NoRequest

AnswersFit ==
    /\ \A q, r \in requests : q.awaited /\ r.awaited => q = r
    /\ \A q \in requests : q.awaited => Awaiting(q) /\ ~(serving[q.member].awaited)
    /\ \A m \in Ren!Followers : Serves(m) => serving[m].member = m
    /\ \A m \in Ren!Followers : Serves(m) /\ serving[m].awaited => Awaiting(serving[m])
    /\ \A q \in requests : ~q.awaited => q.member \in astray
    /\ \A m \in Ren!Followers : Serves(m) /\ ~serving[m].awaited => m \in astray

\* What is moved is neither being uploaded nor being deleted, and nothing of another folder
\* lies under the new name.
NamesFree ==
    Moving => \A x \in DOMAIN Home :
        /\ entry[x].state \in {"reserved", "pending_delete"} =>
             entry[x].name \notin {rename.from, rename.to}
        /\ entry[x].state = "active" /\ Home[x] \notin astray => entry[x].name # rename.to

\* The directory of a member bears the new name, and so do its rows.
Turned(m) == IF Serves(m) THEN rename.phase = "move" ELSE m \in Moved
Listing(m) == m \in Moved

NameAt(x, turned) ==
    IF Moving /\ entry[x].name = rename.from /\ turned THEN rename.to ELSE entry[x].name

FileFits(x) ==
    /\ Stored(x) => /\ disk[x] = NameAt(x, Turned(Home[x]))
                    /\ Home[x] # Local => native[x] = NameAt(x, Listing(Home[x]))
    /\ entry[x].state \in {"new", "gone"} => disk[x] = "none" /\ native[x] = "none"
    /\ entry[x].state = "reserved" =>
         \/ disk[x] = "none" /\ native[x] = "none"
         \/ Home[x] # Local /\ disk[x] = entry[x].name /\ native[x] = entry[x].name

FilesFit == \A x \in DOMAIN Home : Home[x] \notin astray => FileFits(x)

\* A directory that was moved for a request that is still served can be moved back.
DirsFit ==
    \A m \in Ren!Followers : Serves(m) /\ serving[m].awaited =>
        serving[m].to \in dirs[m] /\ serving[m].from \notin dirs[m]

RenInv ==
    /\ RenTypes /\ ProgressFits /\ AnswersFit /\ NamesFree /\ FilesFit /\ DirsFit

-----------------------------------------------------------------------------
LEMMA ElementsAppend ==
  ASSUME NEW S, NEW s \in Seq(S), NEW m \in S, Distinct(s), m \notin Elements(s)
  PROVE  /\ Append(s, m) \in Seq(S) /\ Distinct(Append(s, m))
         /\ Elements(Append(s, m)) = Elements(s) \cup {m}
<1>1. /\ Append(s, m) \in Seq(S) /\ DOMAIN s = 1..Len(s) /\ Len(s) \in Nat
      /\ DOMAIN Append(s, m) = 1..(Len(s) + 1)
      /\ \A i \in 1..Len(s) : Append(s, m)[i] = s[i]
      /\ Append(s, m)[Len(s) + 1] = m
  OBVIOUS
<1>2. \A i \in 1..(Len(s) + 1) : i \in 1..Len(s) \/ i = Len(s) + 1
  BY <1>1
<1>3. Elements(Append(s, m)) = Elements(s) \cup {m}
  BY <1>1, <1>2 DEF Elements
<1>4. Distinct(Append(s, m))
  BY <1>1, <1>2 DEF Distinct, Elements
<1>5. QED
  BY <1>1, <1>3, <1>4

LEMMA ElementsFront ==
  ASSUME NEW S, NEW s \in Seq(S), Distinct(s), s # <<>>
  PROVE  /\ Ren!Front(s) \in Seq(S) /\ Distinct(Ren!Front(s))
         /\ Elements(Ren!Front(s)) = Elements(s) \ {s[Len(s)]}
         /\ s[Len(s)] \in Elements(s) /\ Ren!Last(s) = s[Len(s)]
<1> DEFINE n == Len(s)
           f == Ren!Front(s)
<1>1. DOMAIN s = 1..n /\ n \in Nat /\ n # 0 /\ f = SubSeq(s, 1, n - 1)
  BY DEF Ren!Front
<1>2. f \in Seq(S) /\ DOMAIN f = 1..(n - 1) /\ \A i \in 1..(n - 1) : f[i] = s[i]
  BY <1>1
<1>3. Ren!Last(s) = s[n]
  BY DEF Ren!Last
<1> HIDE DEF n, f
<1>4. n \in 1..n /\ \A i \in 1..n : i # n <=> i \in 1..(n - 1)
  BY <1>1
<1>5. \A i \in 1..(n - 1) : i \in 1..n /\ i # n
  BY <1>1
<1>6. Elements(f) = Elements(s) \ {s[n]}
  <2>1. ASSUME NEW i \in 1..(n - 1) PROVE f[i] \in Elements(s) /\ f[i] # s[n]
    BY <1>1, <1>2, <1>4, <1>5 DEF Elements, Distinct
  <2>2. ASSUME NEW i \in 1..n, s[i] # s[n] PROVE s[i] \in Elements(f)
    <3>1. i \in 1..(n - 1)
      BY <1>4, <2>2
    <3>2. QED
      BY <1>2, <3>1 DEF Elements
  <2>3. \A e : e \in Elements(f) => e \in Elements(s) /\ e # s[n]
    BY <1>2, <2>1 DEF Elements
  <2>4. \A e : e \in Elements(s) /\ e # s[n] => e \in Elements(f)
    BY <1>1, <2>2 DEF Elements
  <2>5. QED
    BY <2>3, <2>4
<1>7. Distinct(f)
  BY <1>1, <1>2, <1>4, <1>5 DEF Distinct
<1>8. s[n] \in Elements(s)
  BY <1>1, <1>4 DEF Elements
<1>9. QED
  BY <1>2, <1>3, <1>6, <1>7, <1>8 DEF n, f

LEMMA EmptyElements == Elements(<<>>) = {} /\ Distinct(<<>>)
BY DEF Elements, Distinct

LEMMA RenNone ==
  /\ "none" \notin Ren!Members /\ "none" \notin Ren!Followers /\ Local \notin Ren!Followers
  /\ Ren!Followers \subseteq Ren!Members /\ Local \in Ren!Members
  /\ \A x \in DOMAIN Home :
        Home[x] \in Ren!Members /\ (Home[x] # Local => Home[x] \in Ren!Followers)
  /\ Ren!NoRequest \notin Asked
  /\ Ren!NoRequest.awaited = FALSE
BY RenConstants DEF Ren!Members, Ren!Followers, Ren!Homes, Asked, Ren!NoRequest

\* The member that is moved, or moved back, next.
Due(m) ==
    /\ m \in Ren!Members /\ Moving
    /\ rename.phase = "move" => m \in rename.todo
    /\ rename.phase = "undo" =>
         rename.moved # <<>> /\ m = rename.moved[Len(rename.moved)]

LEMMA NextIsDue ==
  ASSUME RenInv, NEW m, Ren!IsNext(m)
  PROVE  Due(m) /\ rename.waits = "none"
<1>1. rename \in Courses
  BY DEF RenInv, RenTypes
<1>2. rename.moved \in Seq(Ren!Members) /\ Distinct(rename.moved) /\ rename.todo \subseteq Ren!Members
  BY <1>1 DEF Courses, RenInv, ProgressFits
<1>3. rename.moved # <<>> => Ren!Last(rename.moved) = rename.moved[Len(rename.moved)]
                             /\ rename.moved[Len(rename.moved)] \in Elements(rename.moved)
  BY <1>2, ElementsFront
<1>4. Elements(rename.moved) \subseteq Ren!Members
  BY <1>2 DEF Elements
<1>5. QED
  BY <1>2, <1>3, <1>4 DEF Ren!IsNext, Ren!Unasked, Due, Moving

LEMMA WaitsIsDue ==
  ASSUME RenInv, rename.waits # "none"
  PROVE  Due(rename.waits)
BY RenNone DEF RenInv, RenTypes, ProgressFits, Courses, Due, Moving, Idle

LEMMA DueIsMoved ==
  ASSUME RenInv, NEW m, Due(m)
  PROVE  m \in Moved <=> rename.phase = "undo"
<1>1. /\ rename \in Courses /\ ProgressFits /\ Moving /\ rename.moved \in Seq(Ren!Members)
      /\ Distinct(rename.moved)
  BY DEF RenInv, RenTypes, Courses, Due, ProgressFits
<1>2. rename.moved # <<>> => rename.moved[Len(rename.moved)] \in Moved
  BY <1>1, ElementsFront DEF Moved
<1>3. QED
  BY <1>1, <1>2 DEF Due, Moving, ProgressFits

LEMMA SucceedsTo ==
  ASSUME RenInv, NEW m, Due(m), Ren!Succeeded(m)
  PROVE  /\ rename' \in Courses /\ ProgressFits' /\ Moving'
         /\ rename'.phase = rename.phase /\ rename'.from = rename.from /\ rename'.to = rename.to
         /\ rename'.waits = "none"
         /\ Moved' = IF rename.phase = "undo" THEN Moved \ {m} ELSE Moved \cup {m}
         /\ m \in Moved <=> rename.phase = "undo"
<1>1. /\ rename \in Courses /\ ProgressFits /\ m \in Ren!Members
      /\ rename.phase \in {"move", "undo"} /\ rename.moved \in Seq(Ren!Members) /\ Distinct(rename.moved)
  BY DEF RenInv, RenTypes, Courses, Due, Moving, ProgressFits
<1>2. CASE rename.phase = "undo"
  <2>1. /\ rename' = [rename EXCEPT !.moved = Ren!Front(rename.moved), !.waits = "none"]
        /\ rename.moved # <<>> /\ m = rename.moved[Len(rename.moved)]
    BY <1>2 DEF Ren!Succeeded, Due
  <2>2. /\ Ren!Front(rename.moved) \in Seq(Ren!Members) /\ Distinct(Ren!Front(rename.moved))
        /\ Elements(Ren!Front(rename.moved)) = Elements(rename.moved) \ {m}
        /\ m \in Elements(rename.moved)
    BY <1>1, <2>1, ElementsFront
  <2>3. /\ rename' \in Courses /\ rename'.phase = "undo" /\ rename'.from = rename.from
        /\ rename'.to = rename.to /\ rename'.waits = "none"
        /\ rename'.moved = Ren!Front(rename.moved)
    BY <1>1, <1>2, <2>1, <2>2 DEF Courses
  <2>4. QED
    BY <1>1, <1>2, <2>2, <2>3 DEF ProgressFits, Moving, Moved, Idle
<1>3. CASE rename.phase = "move"
  <2>1. /\ rename' = [rename EXCEPT !.moved = Append(rename.moved, m), !.todo = rename.todo \ {m},
                                    !.waits = "none"]
        /\ m \in rename.todo
    BY <1>3 DEF Ren!Succeeded, Due
  <2>2. m \notin Elements(rename.moved)
    BY <1>1, <1>3, <2>1 DEF ProgressFits, Moved
  <2>3. /\ Append(rename.moved, m) \in Seq(Ren!Members) /\ Distinct(Append(rename.moved, m))
        /\ Elements(Append(rename.moved, m)) = Elements(rename.moved) \cup {m}
    BY <1>1, <2>2, ElementsAppend
  <2>4. /\ rename' \in Courses /\ rename'.phase = "move" /\ rename'.from = rename.from
        /\ rename'.to = rename.to /\ rename'.waits = "none" /\ rename'.owners = rename.owners
        /\ rename'.moved = Append(rename.moved, m) /\ rename'.todo = rename.todo \ {m}
    BY <1>1, <1>3, <2>1, <2>3 DEF Courses
  <2>5. QED
    BY <1>1, <1>3, <2>1, <2>2, <2>3, <2>4 DEF ProgressFits, Moving, Moved, Idle
<1>4. QED
  BY <1>1, <1>2, <1>3

LEMMA GivesUp ==
  ASSUME RenInv, NEW m, Due(m), Ren!GaveUp(m)
  PROVE  /\ rename' \in Courses /\ ProgressFits' /\ Moving'
         /\ rename'.phase = "undo" /\ rename'.from = rename.from /\ rename'.to = rename.to
         /\ rename'.waits = "none"
         /\ Moved' = Moved \ {m}
         /\ m \in Moved <=> rename.phase = "undo"
<1>1. /\ rename \in Courses /\ ProgressFits /\ m \in Ren!Members
      /\ rename.phase \in {"move", "undo"} /\ rename.moved \in Seq(Ren!Members) /\ Distinct(rename.moved)
  BY DEF RenInv, RenTypes, Courses, Due, Moving, ProgressFits
<1>2. CASE rename.phase = "undo"
  <2>1. /\ rename' = [rename EXCEPT !.moved = Ren!Front(rename.moved), !.waits = "none"]
        /\ rename.moved # <<>> /\ m = rename.moved[Len(rename.moved)]
    BY <1>2 DEF Ren!GaveUp, Due
  <2>2. /\ Ren!Front(rename.moved) \in Seq(Ren!Members) /\ Distinct(Ren!Front(rename.moved))
        /\ Elements(Ren!Front(rename.moved)) = Elements(rename.moved) \ {m}
        /\ m \in Elements(rename.moved)
    BY <1>1, <2>1, ElementsFront
  <2>3. /\ rename' \in Courses /\ rename'.phase = "undo" /\ rename'.from = rename.from
        /\ rename'.to = rename.to /\ rename'.waits = "none"
        /\ rename'.moved = Ren!Front(rename.moved)
    BY <1>1, <1>2, <2>1, <2>2 DEF Courses
  <2>4. QED
    BY <1>1, <1>2, <2>2, <2>3 DEF ProgressFits, Moving, Moved, Idle
<1>3. CASE rename.phase = "move"
  <2>1. rename' = [rename EXCEPT !.phase = "undo", !.waits = "none"] /\ m \notin Moved
    BY <1>1, <1>3 DEF Ren!GaveUp, Due, ProgressFits
  <2>2. /\ rename' \in Courses /\ rename'.phase = "undo" /\ rename'.from = rename.from
        /\ rename'.to = rename.to /\ rename'.waits = "none" /\ rename'.moved = rename.moved
    BY <1>1, <1>3, <2>1 DEF Courses
  <2>3. QED
    BY <1>1, <1>3, <2>1, <2>2 DEF ProgressFits, Moving, Moved, Idle
<1>4. QED
  BY <1>1, <1>2, <1>3

LEMMA FailsTo ==
  ASSUME NEW m, Ren!Failed(m)
  PROVE  /\ Ren!GaveUp(m)
         /\ astray' = IF rename.phase = "undo" THEN astray \cup {m} ELSE astray
BY DEF Ren!Failed, Ren!GaveUp

\* No answer is awaited, so nobody that is asked is one that the invariant speaks of.
LEMMA Unawaited ==
  ASSUME RenInv, rename.waits = "none" \/ ~Moving
  PROVE  /\ \A q \in requests : ~q.awaited
         /\ \A m \in Ren!Followers : ~serving[m].awaited
         /\ \A m \in Ren!Members \ astray : ~Serves(m)
<1>1. /\ requests \in SUBSET Asked /\ serving \in [Ren!Followers -> Asked \cup {Ren!NoRequest}]
  BY DEF RenInv, RenTypes
<1>2. \A q \in Asked : ~Awaiting(q)
  BY RenNone DEF Awaiting, Asked
<1>3. QED
  BY <1>1, <1>2, RenNone DEF RenInv, AnswersFit, Serves

\* One answer is awaited, of one member.
LEMMA AwaitedOnce ==
  ASSUME RenInv
  PROVE  /\ \A q \in requests : q.awaited => rename.waits = q.member
         /\ \A m \in Ren!Followers : serving[m].awaited => rename.waits = m /\ Serves(m)
         /\ \A m \in Ren!Members \ astray : Serves(m) => rename.waits = m
<1>1. /\ requests \in SUBSET Asked /\ serving \in [Ren!Followers -> Asked \cup {Ren!NoRequest}]
  BY DEF RenInv, RenTypes
<1>2. QED
  BY <1>1, RenNone DEF RenInv, AnswersFit, Awaiting, Serves

\* Nothing is stored, moved or listed anew, and members that are still known bear the names
\* they bore.
LEMMA FilesKept ==
  ASSUME RenInv, UNCHANGED <<entry, native, disk>>, astray \subseteq astray',
         \A x \in DOMAIN Home : Home[x] \notin astray' /\ Stored(x) =>
            /\ NameAt(x, Turned(Home[x]))' = NameAt(x, Turned(Home[x]))
            /\ NameAt(x, Listing(Home[x]))' = NameAt(x, Listing(Home[x]))
  PROVE  FilesFit'
BY DEF RenInv, FilesFit, FileFits, Stored

LEMMA AnswersRest == ASSUME RenInv, UNCHANGED <<rename, requests, serving, astray>> PROVE AnswersFit'
BY DEF RenInv, AnswersFit, Awaiting, Serves, Moving

LEMMA ProgressRests == ASSUME RenInv, UNCHANGED rename PROVE ProgressFits'
BY DEF RenInv, ProgressFits, Moving, Moved, Idle

\* With no answer awaited any more.
LEMMA AnswersEnd ==
  ASSUME RenTypes, AnswersFit, astray \subseteq astray',
         \A q \in requests' : ~q.awaited /\ (q \in requests \/ q.member \in astray')
            /\ (q \in requests => ~q.awaited \/ q.member \in astray'),
         \A m \in Ren!Followers : Serves(m)' => ~serving'[m].awaited /\ serving'[m].member = m
            /\ m \in astray'
  PROVE  AnswersFit'
BY DEF AnswersFit, Serves

LEMMA DirsEnd ==
  ASSUME \A m \in Ren!Followers : Serves(m)' => ~serving'[m].awaited
  PROVE  DirsFit'
BY DEF DirsFit

LEMMA NoCourse ==
  /\ Ren!NoRename \in Courses /\ Ren!NoRename.phase = "idle" /\ Ren!NoRename.moved = <<>>
  /\ Ren!NoRename.waits = "none"
<1>1. <<>> \in Seq(Ren!Members)
  OBVIOUS
<1>2. QED
  BY <1>1 DEF Ren!NoRename, Courses

-----------------------------------------------------------------------------
\* A step on one file, while requests and renames rest.
LEMMA OneFile ==
  ASSUME RenInv, NEW x \in DOMAIN Home, UNCHANGED <<rename, requests, serving, astray>>,
         entry' \in [DOMAIN Home -> [state : EntryStates, name : NameOrNone]],
         entry'[x].state # "new" => entry'[x].name \in FolderNames,
         native' \in [DOMAIN Home -> NameOrNone], disk' \in [DOMAIN Home -> NameOrNone],
         dirs' \in [Ren!Members -> SUBSET FolderNames],
         \A y \in DOMAIN Home \ {x} :
            entry'[y] = entry[y] /\ native'[y] = native[y] /\ disk'[y] = disk[y],
         Home[x] \notin astray => FileFits(x)',
         Moving =>
            /\ entry'[x].state \in {"reserved", "pending_delete"} =>
                 entry'[x].name \notin {rename.from, rename.to}
            /\ entry'[x].state = "active" /\ Home[x] \notin astray => entry'[x].name # rename.to,
         \A m \in Ren!Followers :
            /\ dirs[m] \subseteq dirs'[m]
            /\ Moving => \A n \in dirs'[m] \ dirs[m] : n \notin {rename.from, rename.to}
  PROVE  RenInv'
<1>1. RenTypes' /\ ProgressFits' /\ AnswersFit'
  BY ProgressRests, AnswersRest DEF RenInv, RenTypes
<1>2. NamesFree'
  BY DEF RenInv, NamesFree, Moving
<1>3. FilesFit'
  <2>1. ASSUME NEW y \in DOMAIN Home \ {x}, Home[y] \notin astray PROVE FileFits(y)'
    BY <2>1 DEF RenInv, FilesFit, FileFits, Stored, NameAt, Turned, Listing, Serves, Moved, Moving
  <2>2. QED
    BY <2>1 DEF FilesFit
<1>4. DirsFit'
  BY DEF RenInv, DirsFit, AnswersFit, Serves, Awaiting
<1>5. QED
  BY <1>1, <1>2, <1>3, <1>4 DEF RenInv

\* Where the name of a file stays out of the rename's way.
LEMMA NameStays ==
  ASSUME NEW x \in DOMAIN Home, NEW turned, Moving => entry[x].name # rename.from
  PROVE  NameAt(x, turned) = entry[x].name
BY DEF NameAt

LEMMA FileSteps ==
  ASSUME RenInv, NEW x \in DOMAIN Home,
         \/ \E n \in FolderNames : Ren!Reserve(x, n)
         \/ Ren!StorageUpload(x) \/ Ren!FinalizeUpload(x) \/ Ren!ReceiveMasterLocal(x)
         \/ Ren!CleanupUpload(x) \/ Ren!MarkPendingDelete(x) \/ Ren!RetryPendingMedia(x)
  PROVE  RenInv'
<1>1. /\ entry \in [DOMAIN Home -> [state : EntryStates, name : NameOrNone]]
      /\ native \in [DOMAIN Home -> NameOrNone] /\ disk \in [DOMAIN Home -> NameOrNone]
      /\ dirs \in [Ren!Members -> SUBSET FolderNames] /\ Home[x] \in Ren!Members
      /\ Ren!Followers \subseteq Ren!Members /\ "none" \notin FolderNames
      /\ entry[x].name \in NameOrNone
  BY RenNone, RenConstants DEF RenInv, RenTypes
<1>2. /\ Home[x] \notin astray => FileFits(x)
      /\ entry[x].state # "new" => entry[x].name \in FolderNames
      /\ Moving /\ entry[x].state \in {"reserved", "pending_delete"} =>
           entry[x].name \notin {rename.from, rename.to}
  BY DEF RenInv, RenTypes, FilesFit, NamesFree
<1>3. ASSUME NEW n \in FolderNames, Ren!Reserve(x, n) PROVE RenInv'
  <2>1. /\ entry' = [entry EXCEPT ![x] = [state |-> "reserved", name |-> n]] /\ ~Moving
        /\ entry[x].state = "new" /\ UNCHANGED <<native, disk, dirs>>
        /\ UNCHANGED <<rename, requests, serving, astray>>
    BY <1>3 DEF Ren!Reserve, Idle, Ren!Idle, Moving
  <2>2. /\ entry' \in [DOMAIN Home -> [state : EntryStates, name : NameOrNone]]
        /\ entry'[x].state = "reserved" /\ entry'[x].name = n
        /\ \A y \in DOMAIN Home \ {x} : entry'[y] = entry[y]
    BY <1>1, <2>1 DEF EntryStates, NameOrNone
  <2>3. Home[x] \notin astray => FileFits(x)'
    BY <1>2, <2>1, <2>2 DEF FileFits, Stored
  <2>4. QED
    BY <1>1, <2>1, <2>2, <2>3, OneFile
<1>4. CASE Ren!StorageUpload(x)
  <2>1. /\ disk' = [disk EXCEPT ![x] = entry[x].name] /\ native' = [native EXCEPT ![x] = entry[x].name]
        /\ dirs' = [dirs EXCEPT ![Home[x]] = dirs[Home[x]] \cup {entry[x].name}]
        /\ entry[x].state = "reserved" /\ Home[x] # Local /\ entry' = entry
        /\ UNCHANGED <<rename, requests, serving, astray>>
    BY <1>4 DEF Ren!StorageUpload, Ren!Lands
  <2>2. /\ native' \in [DOMAIN Home -> NameOrNone] /\ disk' \in [DOMAIN Home -> NameOrNone]
        /\ native'[x] = entry[x].name /\ disk'[x] = entry[x].name
        /\ \A y \in DOMAIN Home \ {x} : native'[y] = native[y] /\ disk'[y] = disk[y]
    BY <1>1, <2>1
  <2>3. entry[x].name \in FolderNames
    BY <1>2, <2>1
  <2>4. /\ dirs' \in [Ren!Members -> SUBSET FolderNames]
        /\ \A m \in Ren!Followers :
              dirs[m] \subseteq dirs'[m] /\ \A n \in dirs'[m] \ dirs[m] : n = entry[x].name
    BY <1>1, <2>1, <2>3
  <2>5. Home[x] \notin astray => FileFits(x)'
    BY <2>1, <2>2, <2>3 DEF FileFits, Stored
  <2>6. QED
    BY <1>1, <1>2, <2>1, <2>2, <2>4, <2>5, OneFile
<1>5. CASE Ren!FinalizeUpload(x)
  <2>1. /\ entry' = [entry EXCEPT ![x].state = "active"] /\ entry[x].state = "reserved"
        /\ native[x] # "none" /\ UNCHANGED <<native, disk, dirs>>
        /\ UNCHANGED <<rename, requests, serving, astray>>
    BY <1>5 DEF Ren!FinalizeUpload, Ren!Becomes
  <2>2. /\ entry' \in [DOMAIN Home -> [state : EntryStates, name : NameOrNone]]
        /\ entry'[x].state = "active" /\ entry'[x].name = entry[x].name
        /\ \A y \in DOMAIN Home \ {x} : entry'[y] = entry[y]
    BY <1>1, <2>1 DEF EntryStates
  <2>3. Home[x] \notin astray => FileFits(x)'
    BY <1>2, <2>1, <2>2 DEF FileFits, Stored, NameAt, Moving
  <2>4. QED
    BY <1>1, <1>2, <2>1, <2>2, <2>3, OneFile
<1>6. CASE Ren!ReceiveMasterLocal(x)
  <2>1. /\ disk' = [disk EXCEPT ![x] = entry[x].name] /\ native' = native /\ ~Moving
        /\ dirs' = [dirs EXCEPT ![Home[x]] = dirs[Home[x]] \cup {entry[x].name}]
        /\ entry[x].state = "reserved" /\ Home[x] = Local
        /\ entry' = [entry EXCEPT ![x].state = "active"]
        /\ UNCHANGED <<rename, requests, serving, astray>>
    BY <1>6 DEF Ren!ReceiveMasterLocal, Ren!Lands, Ren!Becomes, Ren!Idle, Moving
  <2>2. /\ disk' \in [DOMAIN Home -> NameOrNone] /\ disk'[x] = entry[x].name
        /\ entry' \in [DOMAIN Home -> [state : EntryStates, name : NameOrNone]]
        /\ entry'[x].state = "active" /\ entry'[x].name = entry[x].name
        /\ \A y \in DOMAIN Home \ {x} : disk'[y] = disk[y] /\ entry'[y] = entry[y]
    BY <1>1, <2>1 DEF EntryStates
  <2>3. entry[x].name \in FolderNames
    BY <1>2, <2>1
  <2>4. /\ dirs' \in [Ren!Members -> SUBSET FolderNames]
        /\ \A m \in Ren!Followers : dirs'[m] = dirs[m]
    BY <1>1, <2>1, <2>3, RenNone
  <2>5. Home[x] \notin astray => FileFits(x)'
    BY <2>1, <2>2, <2>3 DEF FileFits, Stored, NameAt, Moving
  <2>6. QED
    BY <1>1, <2>1, <2>2, <2>3, <2>4, <2>5, OneFile
<1>7. ASSUME entry[x].state \in {"reserved", "pending_delete"}, Ren!Becomes(x, "gone"),
             Ren!Reconciles(x), UNCHANGED <<dirs, rename, requests, serving, astray>>
      PROVE  RenInv'
  <2>1. /\ entry' \in [DOMAIN Home -> [state : EntryStates, name : NameOrNone]]
        /\ entry'[x].state = "gone" /\ entry'[x].name = entry[x].name /\ \A y \in DOMAIN Home \ {x} : entry'[y] = entry[y]
    BY <1>1, <1>7 DEF Ren!Becomes, EntryStates
  <2>2. /\ disk' \in [DOMAIN Home -> NameOrNone] /\ native' \in [DOMAIN Home -> NameOrNone]
        /\ disk'[x] = IF disk[x] = entry[x].name THEN "none" ELSE disk[x]
        /\ native'[x] = "none"
        /\ \A y \in DOMAIN Home \ {x} : disk'[y] = disk[y] /\ native'[y] = native[y]
    BY <1>1, <1>7 DEF Ren!Reconciles, NameOrNone
  <2>3. Home[x] \notin astray => FileFits(x)'
    BY <1>2, <1>7, <2>1, <2>2, NameStays DEF FileFits, Stored
  <2>4. QED
    BY <1>1, <1>2, <1>7, <2>1, <2>2, <2>3, OneFile
<1>8. CASE Ren!MarkPendingDelete(x)
  <2>1. /\ entry' = [entry EXCEPT ![x].state = "pending_delete"] /\ entry[x].state = "active"
        /\ UNCHANGED <<native, disk, dirs>> /\ ~Moving
        /\ UNCHANGED <<rename, requests, serving, astray>>
    BY <1>8 DEF Ren!MarkPendingDelete, Ren!Becomes, Ren!Idle, Moving
  <2>2. /\ entry' \in [DOMAIN Home -> [state : EntryStates, name : NameOrNone]]
        /\ entry'[x].state = "pending_delete" /\ entry'[x].name = entry[x].name
        /\ \A y \in DOMAIN Home \ {x} : entry'[y] = entry[y]
    BY <1>1, <2>1 DEF EntryStates
  <2>3. Home[x] \notin astray => FileFits(x)'
    BY <1>2, <2>1, <2>2 DEF FileFits, Stored, NameAt, Moving
  <2>4. QED
    BY <1>1, <1>2, <2>1, <2>2, <2>3, OneFile
<1>9. QED
  BY <1>3, <1>4, <1>5, <1>6, <1>7, <1>8 DEF Ren!CleanupUpload, Ren!RetryPendingMedia

-----------------------------------------------------------------------------
\* While nothing is moved, or nothing was, a file lies under the name it is listed under.
LEMMA AtItsName ==
  ASSUME NEW x \in DOMAIN Home
  PROVE  /\ ~Moving => \A turned : NameAt(x, turned) = entry[x].name
         /\ NameAt(x, FALSE) = entry[x].name
BY DEF NameAt

LEMMA ReadOwnersKeeps ==
  ASSUME RenInv, NEW from \in FolderNames, NEW to \in FolderNames, Ren!ReadOwners(from, to)
  PROVE  RenInv'
<1> DEFINE owners == Ren!Homes(Ren!Under("active", from))
           r == [Ren!NoRename EXCEPT !.phase = "check", !.from = from, !.to = to, !.owners = owners,
                                     !.todo = owners]
<1>1. /\ rename' = r /\ ~Moving /\ Idle /\ from # to
      /\ UNCHANGED <<entry, native, disk, dirs, requests, serving, astray>>
  BY DEF Ren!ReadOwners, Ren!Idle, Idle, Moving
<1>2. owners \in SUBSET Ren!Members
  BY RenNone DEF Ren!Homes, Ren!Under
<1> HIDE DEF owners
<1>3. /\ rename' \in Courses /\ rename'.phase = "check" /\ rename'.from = from /\ rename'.to = to
      /\ rename'.todo = rename'.owners /\ rename'.moved = <<>> /\ rename'.waits = "none"
  BY <1>1, <1>2, NoCourse DEF Courses
<1>4. ProgressFits' /\ ~Moving' /\ NamesFree'
  BY <1>1, <1>3, EmptyElements DEF ProgressFits, Moving, Moved, Idle, NamesFree
<1>5. RenTypes'
  BY <1>1, <1>3 DEF RenInv, RenTypes
<1>6. AnswersFit' /\ DirsFit'
  BY <1>1, Unawaited DEF RenInv, AnswersFit, DirsFit, Serves
<1>7. FilesFit'
  BY <1>1, <1>4, FilesKept, AtItsName DEF NameAt
<1>8. QED
  BY <1>4, <1>5, <1>6, <1>7 DEF RenInv

\* The rename is over; whoever it left behind is astray.
LEMMA AbandonKeeps ==
  ASSUME RenInv, Ren!Abandon, UNCHANGED <<native, disk, dirs>>,
         entry' \in [DOMAIN Home -> [state : EntryStates, name : NameOrNone]],
         \A x \in DOMAIN Home : entry'[x].state # "new" => entry'[x].name \in FolderNames,
         astray \subseteq astray', astray' \in SUBSET Ren!Members, requests' \in SUBSET Asked,
         serving' \in [Ren!Followers -> Asked \cup {Ren!NoRequest}],
         AnswersFit', DirsFit', FilesFit'
  PROVE  RenInv'
<1>1. rename' = Ren!NoRename
  BY DEF Ren!Abandon
<1>2. rename' \in Courses /\ rename'.phase = "idle" /\ rename'.moved = <<>> /\ rename'.waits = "none"
  BY <1>1, NoCourse
<1>3. ProgressFits' /\ NamesFree'
  BY <1>2, EmptyElements DEF ProgressFits, Moving, Moved, Idle, NamesFree
<1>4. RenTypes'
  BY <1>2 DEF RenInv, RenTypes
<1>5. QED
  BY <1>3, <1>4 DEF RenInv

\* Nobody waits, before and after.
LEMMA NobodyWaits ==
  ASSUME RenInv, rename.waits = "none" \/ ~Moving, UNCHANGED <<requests, serving>>,
         astray \subseteq astray'
  PROVE  AnswersFit' /\ DirsFit'
BY Unawaited DEF RenInv, AnswersFit, DirsFit, Serves

LEMMA AbandonedRests ==
  ASSUME Ren!Abandon
  PROVE  ~Moving'
BY DEF Ren!Abandon, Ren!NoRename, Moving

LEMMA PreflightKeeps == ASSUME RenInv, Ren!Preflight PROVE RenInv'
<1>1. /\ rename.phase = "check" /\ ~Moving /\ ~Idle
      /\ UNCHANGED <<entry, native, disk, dirs, requests, serving, astray>>
  BY DEF Ren!Preflight, Moving, Idle
<1>2. /\ rename \in Courses /\ rename.moved = <<>> /\ rename.waits = "none"
      /\ rename.from \in FolderNames /\ rename.to \in FolderNames /\ rename.from # rename.to
      /\ rename.todo = rename.owners
  BY <1>1 DEF RenInv, RenTypes, ProgressFits
<1>3. AnswersFit' /\ DirsFit'
  BY <1>1, NobodyWaits
<1>4. CASE Ren!Abandon
  <2>1. FilesFit'
    BY <1>1, <1>4, AbandonedRests, FilesKept DEF NameAt
  <2>2. QED
    BY <1>1, <1>3, <1>4, <2>1, AbandonKeeps DEF RenInv, RenTypes
<1>5. CASE Ren!Clear(rename.from, rename.to) /\ rename' = [rename EXCEPT !.phase = "move"]
  <2>1. /\ rename' \in Courses /\ rename'.phase = "move" /\ rename'.moved = <<>>
        /\ rename'.waits = "none" /\ rename'.from = rename.from /\ rename'.to = rename.to
        /\ rename'.todo = rename.todo /\ rename'.owners = rename.owners
    BY <1>2, <1>5 DEF Courses
  <2>2. ProgressFits' /\ Moved' = {}
    BY <1>2, <2>1, EmptyElements DEF ProgressFits, Moving, Moved, Idle
  <2>3. NamesFree'
    BY <1>1, <1>5, <2>1 DEF Ren!Clear, Ren!Under, NamesFree
  <2>4. RenTypes'
    BY <1>1, <2>1 DEF RenInv, RenTypes
  <2>5. ASSUME NEW m \in Ren!Members \ astray PROVE ~Turned(m)' /\ ~Listing(m)'
    BY <1>1, <2>2, Unawaited DEF Turned, Listing, Serves
  <2>6. FilesFit'
    BY <1>1, <2>5, FilesKept, RenNone DEF NameAt
  <2>7. QED
    BY <1>3, <2>2, <2>3, <2>4, <2>6 DEF RenInv
<1>6. QED
  BY <1>4, <1>5 DEF Ren!Preflight

-----------------------------------------------------------------------------
\* What a move does to one file, of a member whose directory bears the other name then.
LEMMA DiskTurns ==
  ASSUME RenInv, Moving, NEW x \in DOMAIN Home, Home[x] \notin astray, NEW turned \in BOOLEAN,
         Turned(Home[x]) = turned,
         disk'[x] = IF disk[x] = (IF turned THEN rename.to ELSE rename.from)
                    THEN (IF turned THEN rename.from ELSE rename.to) ELSE disk[x]
  PROVE  /\ Stored(x) => disk'[x] = NameAt(x, ~turned)
         /\ ~Stored(x) => disk'[x] = disk[x]
<1>1. /\ FileFits(x) /\ rename.from \in FolderNames /\ rename.to \in FolderNames /\ rename.from # rename.to
      /\ "none" \notin FolderNames /\ entry[x].state \in EntryStates
  BY RenConstants DEF RenInv, RenTypes, FilesFit, ProgressFits, Moving, Idle
<1>2. /\ Stored(x) => entry[x].name # rename.to
      /\ entry[x].state = "reserved" => entry[x].name \notin {rename.from, rename.to}
  BY DEF RenInv, NamesFree, Stored
<1>3. Stored(x) => disk'[x] = NameAt(x, ~turned)
  BY <1>1, <1>2 DEF FileFits, NameAt
<1>4. ~Stored(x) => disk'[x] = disk[x]
  BY <1>1, <1>2 DEF FileFits, Stored, EntryStates
<1>5. QED
  BY <1>3, <1>4

LEMMA NativeTurns ==
  ASSUME RenInv, Moving, NEW x \in DOMAIN Home, Home[x] \notin astray, NEW listing \in BOOLEAN,
         Listing(Home[x]) = listing, Home[x] # Local,
         native'[x] = IF native[x] = (IF listing THEN rename.to ELSE rename.from)
                      THEN (IF listing THEN rename.from ELSE rename.to) ELSE native[x]
  PROVE  /\ Stored(x) => native'[x] = NameAt(x, ~listing)
         /\ ~Stored(x) => native'[x] = native[x]
<1>1. /\ FileFits(x) /\ rename.from \in FolderNames /\ rename.to \in FolderNames /\ rename.from # rename.to
      /\ "none" \notin FolderNames /\ entry[x].state \in EntryStates
  BY RenConstants DEF RenInv, RenTypes, FilesFit, ProgressFits, Moving, Idle
<1>2. /\ Stored(x) => entry[x].name # rename.to
      /\ entry[x].state = "reserved" => entry[x].name \notin {rename.from, rename.to}
  BY DEF RenInv, NamesFree, Stored
<1>3. Stored(x) => native'[x] = NameAt(x, ~listing)
  BY <1>1, <1>2 DEF FileFits, NameAt
<1>4. ~Stored(x) => native'[x] = native[x]
  BY <1>1, <1>2 DEF FileFits, Stored, EntryStates
<1>5. QED
  BY <1>3, <1>4

\* The rename goes on, of the same files, from the same name to the same name.
LEMMA CourseGoesOn ==
  ASSUME RenInv, Moving, Moving', rename'.from = rename.from, rename'.to = rename.to,
         UNCHANGED entry, astray \subseteq astray'
  PROVE  /\ NamesFree'
         /\ \A x \in DOMAIN Home : \A turned \in BOOLEAN : NameAt(x, turned)' = NameAt(x, turned)
BY DEF RenInv, NamesFree, NameAt

\* A file that keeps where it lies, on a member that keeps its names.
LEMMA FileKept ==
  ASSUME RenInv, Moving, Moving', rename'.from = rename.from, rename'.to = rename.to,
         UNCHANGED entry, NEW x \in DOMAIN Home, Home[x] \notin astray,
         disk'[x] = disk[x], native'[x] = native[x],
         Turned(Home[x])' = Turned(Home[x]), Listing(Home[x])' = Listing(Home[x])
  PROVE  FileFits(x)'
BY DEF RenInv, FilesFit, FileFits, Stored, NameAt

LEMMA CommitFailsKeeps == ASSUME RenInv, Ren!CommitFails PROVE RenInv'
<1>1. /\ rename.phase = "move" /\ Moving /\ rename.waits = "none" /\ rename.todo = {}
      /\ rename' = [rename EXCEPT !.phase = "undo"] /\ rename \in Courses
      /\ UNCHANGED <<entry, native, disk, dirs, requests, serving, astray>>
  BY DEF Ren!CommitFails, Ren!AllMoved, Ren!Unasked, Moving, RenInv, RenTypes
<1>2. /\ rename' \in Courses /\ rename'.phase = "undo" /\ rename'.moved = rename.moved
      /\ rename'.waits = "none" /\ rename'.from = rename.from /\ rename'.to = rename.to
      /\ Moving'
  BY <1>1 DEF Courses, Moving
<1>3. ProgressFits' /\ Moved' = Moved
  BY <1>1, <1>2 DEF RenInv, ProgressFits, Moving, Moved, Idle
<1>4. AnswersFit' /\ DirsFit'
  BY <1>1, NobodyWaits
<1>5. NamesFree' /\ RenTypes'
  BY <1>1, <1>2, CourseGoesOn DEF RenInv, RenTypes
<1>6. ASSUME NEW x \in DOMAIN Home, Home[x] \notin astray PROVE FileFits(x)'
  <2>1. ~Serves(Home[x]) /\ ~Serves(Home[x])'
    BY <1>1, <1>6, Unawaited, RenNone DEF Serves
  <2>2. Turned(Home[x])' = Turned(Home[x]) /\ Listing(Home[x])' = Listing(Home[x])
    BY <1>3, <2>1 DEF Turned, Listing
  <2>3. QED
    BY <1>1, <1>2, <1>6, <2>2, FileKept
<1>7. QED
  BY <1>1, <1>2, <1>3, <1>4, <1>5, <1>6 DEF RenInv, FilesFit

LEMMA UndoEndsKeeps == ASSUME RenInv, Ren!UndoEnds PROVE RenInv'
<1>1. /\ rename.moved = <<>> /\ rename.waits = "none" /\ Ren!Abandon
      /\ UNCHANGED <<entry, native, disk, dirs, requests, serving, astray>>
  BY DEF Ren!UndoEnds, Ren!Unasked
<1>2. AnswersFit' /\ DirsFit'
  BY <1>1, NobodyWaits
<1>3. ASSUME NEW x \in DOMAIN Home, Home[x] \notin astray PROVE ~Turned(Home[x]) /\ ~Listing(Home[x])
  BY <1>1, <1>3, Unawaited, EmptyElements, RenNone DEF Turned, Listing, Moved
<1>4. FilesFit'
  BY <1>1, <1>3, AbandonedRests, FilesKept DEF NameAt
<1>5. QED
  BY <1>1, <1>2, <1>4, AbandonKeeps DEF RenInv, RenTypes

LEMMA RemoteRenameKeeps == ASSUME RenInv, NEW m \in Ren!Followers, Ren!RemoteRename(m) PROVE RenInv'
<1>1. /\ rename' = [rename EXCEPT !.waits = m]
      /\ requests' = requests \cup {[to |-> Ren!To, from |-> Ren!From, member |-> m, awaited |-> TRUE]}
      /\ Due(m) /\ rename.waits = "none" /\ rename \in Courses
      /\ UNCHANGED <<entry, native, disk, dirs, serving, astray>>
  BY NextIsDue DEF Ren!RemoteRename, RenInv, RenTypes
<1>2. /\ rename' \in Courses /\ rename'.phase = rename.phase /\ rename'.moved = rename.moved
      /\ rename'.waits = m /\ rename'.from = rename.from /\ rename'.to = rename.to
      /\ rename'.todo = rename.todo /\ rename'.owners = rename.owners
      /\ Moving /\ Moving' /\ m # "none"
  BY <1>1, RenNone DEF Courses, Moving, Due
<1>3. PICK q \in Asked :
        /\ q.member = m /\ q.awaited /\ requests' = requests \cup {q}
        /\ q.from = IF rename.phase = "undo" THEN rename.to ELSE rename.from
        /\ q.to = IF rename.phase = "undo" THEN rename.from ELSE rename.to
  <2>1. Ren!To \in FolderNames /\ Ren!From \in FolderNames
    BY <1>1, <1>2 DEF Ren!To, Ren!From, RenInv, ProgressFits, Moving, Idle
  <2>2. [to |-> Ren!To, from |-> Ren!From, member |-> m, awaited |-> TRUE] \in Asked
    BY <2>1 DEF Asked
  <2>3. QED
    BY <1>1, <2>2 DEF Ren!To, Ren!From
<1>4. Awaiting(q)'
  BY <1>2, <1>3 DEF Awaiting, Moving
<1>5. ProgressFits' /\ Moved' = Moved
  BY <1>1, <1>2 DEF RenInv, ProgressFits, Moving, Moved, Idle, Due
<1>6. RenTypes' /\ NamesFree'
  BY <1>1, <1>2, <1>3, CourseGoesOn DEF RenInv, RenTypes
<1>7. /\ \A r \in requests : ~r.awaited
      /\ \A n \in Ren!Followers : ~serving[n].awaited
  BY <1>1, Unawaited
<1>8. AnswersFit' /\ DirsFit'
  BY <1>1, <1>3, <1>4, <1>7 DEF RenInv, AnswersFit, DirsFit, Serves
<1>9. FilesFit'
  BY <1>1, <1>2, <1>5, FileKept DEF FilesFit, Turned, Listing, Serves
<1>10. QED
  BY <1>5, <1>6, <1>8, <1>9 DEF RenInv

\* A member's move failed before anything was moved.
LEMMA FailureRests ==
  ASSUME RenInv, NEW m, Due(m), Ren!Failed(m), \A n \in Ren!Followers : ~serving[n].awaited,
         UNCHANGED <<entry, native, disk, dirs, serving>>, requests' \subseteq requests,
         \A q \in requests' : ~q.awaited
  PROVE  RenInv'
<1>1. /\ rename' \in Courses /\ ProgressFits' /\ Moving'
      /\ rename'.phase = "undo" /\ rename'.from = rename.from /\ rename'.to = rename.to
      /\ Moved' = Moved \ {m} /\ (m \in Moved <=> rename.phase = "undo")
      /\ astray' = IF rename.phase = "undo" THEN astray \cup {m} ELSE astray
      /\ m \in Ren!Members /\ Moving
  BY FailsTo, GivesUp DEF Due
<1>2. RenTypes' /\ NamesFree'
  BY <1>1, CourseGoesOn DEF RenInv, RenTypes
<1>3. \A n \in Ren!Followers : Serves(n) => n \in astray /\ serving[n].member = n
  BY DEF RenInv, AnswersFit
<1>4. /\ \A q \in requests : ~q.awaited => q.member \in astray
      /\ astray \subseteq astray'
  BY <1>1 DEF RenInv, AnswersFit
<1>5. AnswersFit'
  BY <1>3, <1>4, AnswersEnd DEF RenInv, Serves
<1>6. DirsFit'
  BY DirsEnd
<1>7. ASSUME NEW x \in DOMAIN Home, Home[x] \notin astray' PROVE FileFits(x)'
  <2>1. Home[x] \notin astray /\ ~Serves(Home[x]) /\ ~Serves(Home[x])'
    BY <1>3, <1>4, <1>7 DEF Serves
  <2>2. Home[x] \in Moved' <=> Home[x] \in Moved
    BY <1>1, <1>7
  <2>3. Turned(Home[x])' = Turned(Home[x]) /\ Listing(Home[x])' = Listing(Home[x])
    BY <2>1, <2>2 DEF Turned, Listing
  <2>4. QED
    BY <1>1, <2>1, <2>3, FileKept
<1>8. QED
  BY <1>1, <1>2, <1>5, <1>6, <1>7 DEF RenInv, FilesFit

LEMMA RemoteUnavailableKeeps ==
  ASSUME RenInv, NEW m \in Ren!Followers, Ren!RemoteUnavailable(m)
  PROVE  RenInv'
<1>1. Ren!Failed(m) /\ UNCHANGED <<entry, native, disk, dirs, requests, serving>>
  BY DEF Ren!RemoteUnavailable
<1>2. Due(m) /\ rename.waits = "none"
  BY NextIsDue DEF Ren!RemoteUnavailable
<1>3. QED
  BY <1>1, <1>2, Unawaited, FailureRests

LEMMA FollowerRefusesKeeps ==
  ASSUME RenInv, NEW q \in requests, Ren!FollowerRefuses(q)
  PROVE  RenInv'
<1>1. /\ requests' = requests \ {q} /\ Ren!Answers(q, "refused") /\ serving[q.member] = Ren!NoRequest
      /\ UNCHANGED <<entry, native, disk, dirs, serving>> /\ q \in Asked
  BY DEF Ren!FollowerRefuses, RenInv, RenTypes
<1>2. CASE ~q.awaited
  <2>1. UNCHANGED <<rename, astray>>
    BY <1>1, <1>2 DEF Ren!Answers
  <2>2. RenTypes' /\ ProgressFits'
    BY <1>1, <2>1, ProgressRests DEF RenInv, RenTypes
  <2>3. AnswersFit' /\ DirsFit'
    BY <1>1, <2>1 DEF RenInv, AnswersFit, DirsFit, Awaiting, Serves, Moving
  <2>4. NamesFree'
    BY <1>1, <2>1 DEF RenInv, NamesFree, Moving
  <2>5. FilesFit'
    BY <1>1, <2>1, FilesKept DEF NameAt, Turned, Listing, Serves, Moved, Moving
  <2>6. QED
    BY <2>2, <2>3, <2>4, <2>5 DEF RenInv
<1>3. CASE q.awaited
  <2>1. rename.waits = q.member /\ rename.waits # "none" /\ Ren!Failed(q.member)
    BY <1>1, <1>3, AwaitedOnce, RenNone DEF Ren!Answers, Asked
  <2>2. Due(q.member)
    BY <2>1, WaitsIsDue
  <2>3. \A n \in Ren!Followers : ~serving[n].awaited
    BY <1>1, <2>1, AwaitedOnce, RenNone
  <2>4. \A r \in requests' : ~r.awaited
    BY <1>1, <1>3 DEF RenInv, AnswersFit
  <2>5. QED
    BY <1>1, <2>1, <2>2, <2>3, <2>4, FailureRests
<1>4. QED
  BY <1>2, <1>3

\* A move of a directory on one member.
LEMMA MovesOne ==
  ASSUME RenTypes, NEW m \in Ren!Members, NEW a \in FolderNames, NEW b \in FolderNames, Ren!Moves(m, a, b)
  PROVE  /\ disk' \in [DOMAIN Home -> NameOrNone] /\ dirs' \in [Ren!Members -> SUBSET FolderNames]
         /\ \A x \in DOMAIN Home :
               /\ Home[x] # m => disk'[x] = disk[x]
               /\ Home[x] = m => disk'[x] = IF disk[x] = a THEN b ELSE disk[x]
         /\ \A n \in Ren!Members \ {m} : dirs'[n] = dirs[n]
         /\ dirs'[m] = (dirs[m] \ {a}) \cup {b}
BY DEF Ren!Moves, RenTypes, NameOrNone

LEMMA FollowerMovesKeeps ==
  ASSUME RenInv, NEW q \in requests, Ren!FollowerMoves(q)
  PROVE  RenInv'
<1> DEFINE m == q.member
<1>1. /\ requests' = requests \ {q} /\ serving' = [serving EXCEPT ![m] = q]
      /\ serving[m] = Ren!NoRequest /\ Ren!Moves(m, q.from, q.to)
      /\ UNCHANGED <<entry, native, rename, astray>>
      /\ q \in Asked /\ m \in Ren!Followers /\ m \in Ren!Members /\ q.from \in FolderNames /\ q.to \in FolderNames
  BY RenNone DEF Ren!FollowerMoves, RenInv, RenTypes, Asked
<1>2. /\ disk' \in [DOMAIN Home -> NameOrNone] /\ dirs' \in [Ren!Members -> SUBSET FolderNames]
      /\ \A x \in DOMAIN Home :
               /\ Home[x] # m => disk'[x] = disk[x]
               /\ Home[x] = m => disk'[x] = IF disk[x] = q.from THEN q.to ELSE disk[x]
      /\ \A n \in Ren!Followers \ {m} : dirs'[n] = dirs[n]
      /\ dirs'[m] = (dirs[m] \ {q.from}) \cup {q.to}
  BY <1>1, MovesOne, RenNone DEF RenInv
<1>3. /\ serving' \in [Ren!Followers -> Asked \cup {Ren!NoRequest}] /\ serving'[m] = q
      /\ \A n \in Ren!Followers \ {m} : serving'[n] = serving[n]
      /\ q # Ren!NoRequest
  BY <1>1, RenNone DEF RenInv, RenTypes
<1>4. RenTypes' /\ ProgressFits' /\ NamesFree'
  BY <1>1, <1>2, <1>3, ProgressRests DEF RenInv, RenTypes, NamesFree, Moving
<1>5. q.awaited => Awaiting(q) /\ q.from # q.to
  BY DEF RenInv, AnswersFit, Awaiting, ProgressFits, Moving, Idle
<1>6. AnswersFit'
  <2>1. \A r \in requests' : r.awaited => ~q.awaited
    BY <1>1 DEF RenInv, AnswersFit
  <2>2. QED
    BY <1>1, <1>3, <1>5, <2>1 DEF RenInv, AnswersFit, Awaiting, Serves, Moving
<1>7. DirsFit'
  BY <1>1, <1>2, <1>3, <1>5 DEF RenInv, DirsFit, Serves
<1>8. ASSUME NEW x \in DOMAIN Home, Home[x] \notin astray PROVE FileFits(x)'
  <2>1. CASE Home[x] # m
    <3>1. Turned(Home[x])' = Turned(Home[x]) /\ Listing(Home[x])' = Listing(Home[x])
      BY <1>1, <1>3, <2>1 DEF Turned, Listing, Serves, Moved
    <3>2. FileFits(x)
      BY <1>8 DEF RenInv, FilesFit
    <3>3. QED
      BY <1>1, <1>2, <2>1, <3>1, <3>2 DEF FileFits, Stored, NameAt, Moving
  <2>2. CASE Home[x] = m
    <3>1. q.awaited /\ Awaiting(q)
      BY <1>5, <1>8, <2>2 DEF RenInv, AnswersFit
    <3>2. rename.waits = m /\ Moving /\ Moving' /\ m # "none"
      BY <1>1, <3>1, RenNone DEF Awaiting, Moving
    <3>3. Due(m)
      BY <3>2, WaitsIsDue
    <3>4. m \in Moved <=> rename.phase = "undo"
      BY <3>3, DueIsMoved
    <3>5. ~Serves(m) /\ Serves(m)'
      BY <1>1, <1>3 DEF Serves
    <3>6. /\ Turned(m) = (rename.phase = "undo") /\ Turned(m)' = (rename.phase = "move")
          /\ Listing(m)' = Listing(m)
      BY <1>1, <3>4, <3>5 DEF Turned, Listing, Moved
    <3>7. Turned(m)' = ~Turned(m) /\ Turned(m) \in BOOLEAN
      BY <3>2, <3>6 DEF Moving
    <3>8. disk'[x] = IF disk[x] = (IF Turned(m) THEN rename.to ELSE rename.from)
                     THEN (IF Turned(m) THEN rename.from ELSE rename.to) ELSE disk[x]
      BY <1>2, <2>2, <3>1, <3>6 DEF Awaiting
    <3>9. /\ Stored(x) => disk'[x] = NameAt(x, ~Turned(m))
          /\ ~Stored(x) => disk'[x] = disk[x]
      BY <1>8, <2>2, <3>2, <3>7, <3>8, DiskTurns
    <3>10. FileFits(x)
      BY <1>8 DEF RenInv, FilesFit
    <3>11. QED
      BY <1>1, <2>2, <3>6, <3>7, <3>9, <3>10 DEF FileFits, Stored, NameAt, Moving
  <2>3. QED
    BY <2>1, <2>2
<1>9. QED
  BY <1>1, <1>4, <1>6, <1>7, <1>8 DEF RenInv, FilesFit

\* The Follower that answers is the one that is awaited; then nobody is.
LEMMA AnswerIsDue ==
  ASSUME RenInv, NEW m \in Ren!Followers, Serves(m), serving[m].awaited,
         serving' = [serving EXCEPT ![m] = Ren!NoRequest]
  PROVE  /\ rename.waits = m /\ Due(m) /\ Moving /\ Awaiting(serving[m])
         /\ \A q \in requests : ~q.awaited
         /\ \A n \in Ren!Followers : ~serving'[n].awaited
         /\ serving' \in [Ren!Followers -> Asked \cup {Ren!NoRequest}]
         /\ \A n \in Ren!Members : Serves(n)' <=> n # m /\ Serves(n)
         /\ \A n \in Ren!Members \ astray : ~Serves(n)'
         /\ \A n \in Ren!Followers \ {m} : serving'[n] = serving[n]
<1>1. /\ rename.waits = m /\ m # "none" /\ Awaiting(serving[m]) /\ serving[m].member = m
      /\ serving \in [Ren!Followers -> Asked \cup {Ren!NoRequest}]
  BY AwaitedOnce, RenNone DEF RenInv, RenTypes, AnswersFit
<1>2. Due(m) /\ Moving
  BY <1>1, WaitsIsDue DEF Awaiting
<1>3. \A q \in requests : ~q.awaited
  BY <1>1 DEF RenInv, AnswersFit, Awaiting
<1>4. \A n \in Ren!Followers : serving'[n] = IF n = m THEN Ren!NoRequest ELSE serving[n]
  BY <1>1
<1>5. \A n \in Ren!Followers : ~serving'[n].awaited
  BY <1>1, <1>4, AwaitedOnce, RenNone
<1>6. \A n \in Ren!Members : Serves(n)' <=> n # m /\ Serves(n)
  BY <1>4 DEF Serves
<1>7. \A n \in Ren!Members \ astray : ~Serves(n)'
  BY <1>1, <1>6, AwaitedOnce
<1>8. serving' \in [Ren!Followers -> Asked \cup {Ren!NoRequest}]
  BY <1>1
<1>9. QED
  BY <1>1, <1>2, <1>3, <1>4, <1>5, <1>6, <1>7, <1>8

LEMMA AnswerEnds ==
  ASSUME RenInv, NEW m \in Ren!Followers, Serves(m), serving[m].awaited,
         serving' = [serving EXCEPT ![m] = Ren!NoRequest], UNCHANGED requests,
         astray \subseteq astray'
  PROVE  AnswersFit' /\ DirsFit'
<1>1. /\ \A n \in Ren!Followers : ~serving'[n].awaited
      /\ \A q \in requests : ~q.awaited
      /\ \A n \in Ren!Members : Serves(n)' <=> n # m /\ Serves(n)
      /\ \A n \in Ren!Followers \ {m} : serving'[n] = serving[n]
  BY AnswerIsDue
<1>2. \A n \in Ren!Followers : Serves(n)' => serving'[n].member = n /\ n \in astray'
  <2>1. SUFFICES ASSUME NEW n \in Ren!Followers, Serves(n)'
                 PROVE  serving'[n].member = n /\ n \in astray'
    OBVIOUS
  <2>2. n # m /\ Serves(n) /\ serving'[n] = serving[n] /\ ~serving[n].awaited
    BY <1>1, <2>1, RenNone
  <2>3. QED
    BY <2>2 DEF RenInv, AnswersFit
<1>3. AnswersFit'
  BY <1>1, <1>2, AnswersEnd DEF RenInv
<1>4. QED
  BY <1>1, <1>3, DirsEnd

\* A Follower whose answer nobody awaits ends what it serves; the rename does not notice.
LEMMA StrayEnds ==
  ASSUME RenInv, NEW m \in Ren!Followers, Serves(m), ~serving[m].awaited,
         serving' = [serving EXCEPT ![m] = Ren!NoRequest],
         UNCHANGED <<entry, rename, requests>>, astray \subseteq astray',
         astray' \in SUBSET Ren!Members,
         native' \in [DOMAIN Home -> NameOrNone], disk' \in [DOMAIN Home -> NameOrNone],
         dirs' \in [Ren!Members -> SUBSET FolderNames],
         \A n \in Ren!Members \ {m} : dirs'[n] = dirs[n],
         \A x \in DOMAIN Home : Home[x] # m => native'[x] = native[x] /\ disk'[x] = disk[x]
  PROVE  RenInv'
<1>1. /\ m \in astray /\ m \in Ren!Members
      /\ serving \in [Ren!Followers -> Asked \cup {Ren!NoRequest}]
  BY RenNone DEF RenInv, RenTypes, AnswersFit
<1>2. /\ \A n \in Ren!Followers : serving'[n] = IF n = m THEN Ren!NoRequest ELSE serving[n]
      /\ serving' \in [Ren!Followers -> Asked \cup {Ren!NoRequest}]
  BY <1>1
<1>3. RenTypes' /\ ProgressFits'
  BY <1>2, ProgressRests DEF RenInv, RenTypes
<1>4. NamesFree'
  BY DEF RenInv, NamesFree, Moving
<1>5. AnswersFit'
  BY <1>1, <1>2, RenNone DEF RenInv, AnswersFit, Awaiting, Serves, Moving
<1>6. DirsFit'
  BY <1>1, <1>2, RenNone DEF RenInv, DirsFit, Serves
<1>7. ASSUME NEW x \in DOMAIN Home, Home[x] \notin astray' PROVE FileFits(x)'
  <2>1. Home[x] # m /\ Home[x] \notin astray /\ FileFits(x)
    BY <1>1, <1>7 DEF RenInv, FilesFit
  <2>2. Turned(Home[x])' = Turned(Home[x]) /\ Listing(Home[x])' = Listing(Home[x])
    BY <1>2, <2>1 DEF Turned, Listing, Serves, Moved
  <2>3. QED
    BY <2>1, <2>2 DEF FileFits, Stored, NameAt, Moving
<1>8. QED
  BY <1>3, <1>4, <1>5, <1>6, <1>7 DEF RenInv, FilesFit

LEMMA FollowerCommitsKeeps ==
  ASSUME RenInv, NEW m \in Ren!Followers, Ren!FollowerCommits(m)
  PROVE  RenInv'
<1> DEFINE q == serving[m]
<1>1. /\ Serves(m) /\ serving' = [serving EXCEPT ![m] = Ren!NoRequest]
      /\ native' = [x \in DOMAIN Home |-> IF Home[x] = m /\ native[x] = q.from THEN q.to ELSE native[x]]
      /\ Ren!Answers(q, "renamed") /\ UNCHANGED <<entry, disk, dirs, requests>>
      /\ q \in Asked /\ q.member = m /\ m \in Ren!Members
  BY RenNone DEF Ren!FollowerCommits, Ren!Ends, RenInv, RenTypes, Serves, AnswersFit
<1>2. /\ native' \in [DOMAIN Home -> NameOrNone]
      /\ \A x \in DOMAIN Home : /\ Home[x] # m => native'[x] = native[x]
                                /\ Home[x] = m => native'[x] = IF native[x] = q.from THEN q.to ELSE native[x]
  <2>1. native \in [DOMAIN Home -> NameOrNone] /\ q.to \in NameOrNone
    BY <1>1 DEF RenInv, RenTypes, Asked, NameOrNone
  <2>2. QED
    BY <1>1, <2>1
<1>3. CASE ~q.awaited
  <2>1. UNCHANGED <<rename, astray>>
    BY <1>1, <1>3 DEF Ren!Answers
  <2>2. QED
    BY <1>1, <1>2, <1>3, <2>1, StrayEnds DEF RenInv, RenTypes
<1>4. CASE q.awaited
  <2>1. Ren!Succeeded(m) /\ UNCHANGED astray
    BY <1>1, <1>4 DEF Ren!Answers
  <2>2. /\ Due(m) /\ Moving /\ Awaiting(q)
        /\ serving' \in [Ren!Followers -> Asked \cup {Ren!NoRequest}]
        /\ \A n \in Ren!Members : Serves(n)' <=> n # m /\ Serves(n)
    BY <1>1, <1>4, AnswerIsDue
  <2>3. /\ rename' \in Courses /\ ProgressFits' /\ Moving'
        /\ rename'.phase = rename.phase /\ rename'.from = rename.from /\ rename'.to = rename.to
        /\ Moved' = IF rename.phase = "undo" THEN Moved \ {m} ELSE Moved \cup {m}
        /\ m \in Moved <=> rename.phase = "undo"
    BY <2>1, <2>2, SucceedsTo
  <2>4. AnswersFit' /\ DirsFit'
    BY <1>1, <1>4, <2>1, AnswerEnds
  <2>5. NamesFree' /\ RenTypes'
    BY <1>1, <1>2, <2>1, <2>2, <2>3, CourseGoesOn DEF RenInv, RenTypes
  <2>6. ASSUME NEW x \in DOMAIN Home, Home[x] \notin astray PROVE FileFits(x)'
    <3>1. CASE Home[x] # m
      <4>1. Turned(Home[x])' = Turned(Home[x]) /\ Listing(Home[x])' = Listing(Home[x])
        BY <2>2, <2>3, <3>1, RenNone DEF Turned, Listing
      <4>2. QED
        BY <1>1, <1>2, <2>2, <2>3, <2>6, <3>1, <4>1, FileKept
    <3>2. CASE Home[x] = m
      <4>1. /\ Turned(m) = (rename.phase = "move") /\ Turned(m)' = (rename.phase # "undo")
            /\ Listing(m) = (rename.phase = "undo") /\ Listing(m)' = (rename.phase # "undo")
        BY <1>1, <2>2, <2>3 DEF Turned, Listing
      <4>2. /\ Turned(m)' = Turned(m) /\ Listing(m)' = ~Listing(m) /\ Listing(m) \in BOOLEAN
            /\ Turned(m) \in BOOLEAN
        BY <2>2, <4>1 DEF Moving
      <4>3. native'[x] = IF native[x] = (IF Listing(m) THEN rename.to ELSE rename.from)
                         THEN (IF Listing(m) THEN rename.from ELSE rename.to) ELSE native[x]
        BY <1>2, <2>2, <3>2, <4>1 DEF Awaiting
      <4>4. /\ Stored(x) => native'[x] = NameAt(x, ~Listing(m))
            /\ ~Stored(x) => native'[x] = native[x]
        BY <2>2, <2>6, <3>2, <4>2, <4>3, NativeTurns, RenNone
      <4>5. /\ FileFits(x) /\ NameAt(x, Turned(m))' = NameAt(x, Turned(m))
            /\ NameAt(x, Listing(m))' = NameAt(x, ~Listing(m))
        BY <1>1, <2>2, <2>3, <2>6, <4>2 DEF RenInv, FilesFit, NameAt
      <4>6. QED
        BY <1>1, <3>2, <4>4, <4>5 DEF FileFits, Stored
    <3>3. QED
      BY <3>1, <3>2
  <2>7. QED
    BY <2>1, <2>3, <2>4, <2>5, <2>6 DEF RenInv, FilesFit
<1>5. QED
  BY <1>3, <1>4

LEMMA FollowerFailsKeeps ==
  ASSUME RenInv, NEW m \in Ren!Followers, Ren!FollowerFails(m)
  PROVE  RenInv'
<1> DEFINE q == serving[m]
<1>1. /\ Serves(m) /\ serving' = [serving EXCEPT ![m] = Ren!NoRequest]
      /\ IF Ren!Movable(m, q.to, q.from) THEN Ren!Moves(m, q.to, q.from) ELSE UNCHANGED <<disk, dirs>>
      /\ Ren!Answers(q, "failed") /\ UNCHANGED <<entry, native, requests>>
      /\ q \in Asked /\ q.member = m /\ m \in Ren!Members /\ q.to \in FolderNames /\ q.from \in FolderNames
  BY RenNone DEF Ren!FollowerFails, Ren!Ends, RenInv, RenTypes, Serves, AnswersFit, Asked
<1>2. /\ disk' \in [DOMAIN Home -> NameOrNone] /\ dirs' \in [Ren!Members -> SUBSET FolderNames]
      /\ \A x \in DOMAIN Home : Home[x] # m => disk'[x] = disk[x]
      /\ \A n \in Ren!Members \ {m} : dirs'[n] = dirs[n]
  BY <1>1, MovesOne DEF RenInv, RenTypes
<1>3. CASE ~q.awaited
  <2>1. UNCHANGED <<rename, astray>>
    BY <1>1, <1>3 DEF Ren!Answers
  <2>2. QED
    BY <1>1, <1>2, <1>3, <2>1, StrayEnds DEF RenInv, RenTypes
<1>4. CASE q.awaited
  <2>1. Ren!Failed(m)
    BY <1>1, <1>4 DEF Ren!Answers
  <2>2. /\ Due(m) /\ Moving /\ Awaiting(q)
        /\ serving' \in [Ren!Followers -> Asked \cup {Ren!NoRequest}]
        /\ \A n \in Ren!Members : Serves(n)' <=> n # m /\ Serves(n)
    BY <1>1, <1>4, AnswerIsDue
  <2>3. /\ rename' \in Courses /\ ProgressFits' /\ Moving'
        /\ rename'.phase = "undo" /\ rename'.from = rename.from /\ rename'.to = rename.to
        /\ Moved' = Moved \ {m}
        /\ m \in Moved <=> rename.phase = "undo"
        /\ astray' = IF rename.phase = "undo" THEN astray \cup {m} ELSE astray
    BY <2>1, <2>2, FailsTo, GivesUp
  <2>4. /\ astray \subseteq astray' /\ astray' \in SUBSET Ren!Members
    BY <1>1, <2>3 DEF RenInv, RenTypes
  <2>5. AnswersFit' /\ DirsFit'
    BY <1>1, <1>4, <2>4, AnswerEnds
  <2>6. NamesFree' /\ RenTypes'
    BY <1>1, <1>2, <2>2, <2>3, <2>4, CourseGoesOn DEF RenInv, RenTypes
  <2>7. ASSUME NEW x \in DOMAIN Home, Home[x] \notin astray' PROVE FileFits(x)'
    <3>1. Home[x] \notin astray /\ Home[x] \in Ren!Members
      BY <2>4, <2>7, RenNone
    <3>2. CASE Home[x] # m
      <4>1. ~Serves(Home[x]) /\ ~Serves(Home[x])'
        BY <1>1, <1>4, <2>2, <3>1, <3>2, AnswerIsDue
      <4>2. Turned(Home[x])' = Turned(Home[x]) /\ Listing(Home[x])' = Listing(Home[x])
        BY <2>3, <3>2, <4>1 DEF Turned, Listing
      <4>3. QED
        BY <1>1, <1>2, <2>2, <2>3, <3>1, <3>2, <4>2, FileKept
    <3>3. CASE Home[x] = m
      <4>1. rename.phase = "move"
        BY <2>2, <2>3, <2>7, <3>3 DEF Moving
      <4>2. /\ Turned(m) = TRUE /\ Turned(m)' = FALSE /\ Listing(m) = FALSE /\ Listing(m)' = FALSE
        BY <1>1, <2>2, <2>3, <4>1 DEF Turned, Listing
      <4>3. Ren!Moves(m, q.to, q.from)
        BY <1>1, <1>4 DEF RenInv, DirsFit, Ren!Movable
      <4>4. disk'[x] = IF disk[x] = q.to THEN q.from ELSE disk[x]
        BY <1>1, <3>3, <4>3, MovesOne DEF RenInv
      <4>5. disk'[x] = IF disk[x] = (IF TRUE THEN rename.to ELSE rename.from)
                       THEN (IF TRUE THEN rename.from ELSE rename.to) ELSE disk[x]
        BY <2>2, <4>1, <4>4 DEF Awaiting
      <4>6. /\ Stored(x) => disk'[x] = NameAt(x, ~TRUE)
            /\ ~Stored(x) => disk'[x] = disk[x]
        BY <2>2, <3>1, <3>3, <4>2, <4>5, DiskTurns
      <4>7. /\ FileFits(x) /\ NameAt(x, Turned(m))' = NameAt(x, ~TRUE)
            /\ NameAt(x, Listing(m))' = NameAt(x, Listing(m))
        BY <1>1, <2>2, <2>3, <3>1, <4>2 DEF RenInv, FilesFit, NameAt
      <4>8. QED
        BY <1>1, <3>3, <4>6, <4>7 DEF FileFits, Stored
    <3>4. QED
      BY <3>2, <3>3
  <2>8. QED
    BY <2>3, <2>5, <2>6, <2>7 DEF RenInv, FilesFit
<1>5. QED
  BY <1>3, <1>4

LEMMA MoveLocalKeeps == ASSUME RenInv, Ren!MoveLocal PROVE RenInv'
<1>1. /\ Due(Local) /\ rename.waits = "none" /\ Moving /\ Local \in Ren!Members
      /\ UNCHANGED <<entry, native, requests, serving>>
      /\ Ren!From \in FolderNames /\ Ren!To \in FolderNames
      /\ \A q \in requests : ~q.awaited
      /\ \A n \in Ren!Followers : ~serving[n].awaited
  BY NextIsDue, Unawaited, RenNone
     DEF Ren!MoveLocal, Due, Ren!From, Ren!To, RenInv, ProgressFits, Moving, Idle
<1>2. CASE ~Ren!Movable(Local, Ren!From, Ren!To)
  <2>1. Ren!Failed(Local) /\ UNCHANGED <<dirs, disk>>
    BY <1>2 DEF Ren!MoveLocal
  <2>2. QED
    BY <1>1, <2>1, FailureRests
<1>3. CASE Ren!Movable(Local, Ren!From, Ren!To)
  <2>1. Ren!Moves(Local, Ren!From, Ren!To) /\ Ren!Succeeded(Local) /\ UNCHANGED astray
    BY <1>3 DEF Ren!MoveLocal
  <2>2. /\ disk' \in [DOMAIN Home -> NameOrNone] /\ dirs' \in [Ren!Members -> SUBSET FolderNames]
        /\ \A x \in DOMAIN Home :
               /\ Home[x] # Local => disk'[x] = disk[x]
               /\ Home[x] = Local => disk'[x] = IF disk[x] = Ren!From THEN Ren!To ELSE disk[x]
    BY <1>1, <2>1, MovesOne DEF RenInv
  <2>3. /\ rename' \in Courses /\ ProgressFits' /\ Moving'
        /\ rename'.phase = rename.phase /\ rename'.from = rename.from /\ rename'.to = rename.to
        /\ Moved' = IF rename.phase = "undo" THEN Moved \ {Local} ELSE Moved \cup {Local}
        /\ Local \in Moved <=> rename.phase = "undo"
    BY <1>1, <2>1, SucceedsTo
  <2>4. AnswersFit' /\ DirsFit'
    BY <1>1, <2>1, NobodyWaits
  <2>5. NamesFree' /\ RenTypes'
    BY <1>1, <2>1, <2>2, <2>3, CourseGoesOn DEF RenInv, RenTypes
  <2>6. ASSUME NEW x \in DOMAIN Home, Home[x] \notin astray PROVE FileFits(x)'
    <3>1. ~Serves(Home[x]) /\ ~Serves(Home[x])'
      BY <1>1, <2>6, Unawaited, RenNone DEF Serves
    <3>2. CASE Home[x] # Local
      <4>1. Turned(Home[x])' = Turned(Home[x]) /\ Listing(Home[x])' = Listing(Home[x])
        BY <2>3, <3>1, <3>2 DEF Turned, Listing
      <4>2. QED
        BY <1>1, <2>2, <2>3, <2>6, <3>2, <4>1, FileKept
    <3>3. CASE Home[x] = Local
      <4>1. Turned(Local) = (rename.phase = "undo") /\ Turned(Local)' = (rename.phase # "undo")
        BY <2>3, <3>1, <3>3 DEF Turned
      <4>2. Turned(Local)' = ~Turned(Local) /\ Turned(Local) \in BOOLEAN
        BY <4>1
      <4>3. disk'[x] = IF disk[x] = (IF Turned(Local) THEN rename.to ELSE rename.from)
                       THEN (IF Turned(Local) THEN rename.from ELSE rename.to) ELSE disk[x]
        BY <2>2, <3>3, <4>1 DEF Ren!From, Ren!To
      <4>4. /\ Stored(x) => disk'[x] = NameAt(x, ~Turned(Local))
            /\ ~Stored(x) => disk'[x] = disk[x]
        BY <1>1, <2>6, <3>3, <4>2, <4>3, DiskTurns
      <4>5. FileFits(x) /\ NameAt(x, Turned(Local))' = NameAt(x, ~Turned(Local))
        BY <1>1, <2>3, <2>6, <4>2 DEF RenInv, FilesFit, NameAt
      <4>6. QED
        BY <1>1, <3>3, <4>4, <4>5 DEF FileFits, Stored
    <3>4. QED
      BY <3>2, <3>3
  <2>7. QED
    BY <2>1, <2>3, <2>4, <2>5, <2>6 DEF RenInv, FilesFit
<1>4. QED
  BY <1>2, <1>3

-----------------------------------------------------------------------------
\* Requests and services are records that their fields tell apart.
LEMMA SameRequest ==
  ASSUME NEW q \in Asked \cup {Ren!NoRequest}
  PROVE  /\ [q EXCEPT !.awaited = FALSE] \in Asked \cup {Ren!NoRequest}
         /\ [q EXCEPT !.awaited = FALSE].awaited = FALSE
         /\ [q EXCEPT !.awaited = FALSE].member = q.member
         /\ q = Ren!NoRequest => [q EXCEPT !.awaited = FALSE] = Ren!NoRequest
<1>1. CASE q \in Asked
  BY <1>1, RenNone DEF Asked
<1>2. CASE q = Ren!NoRequest
  <2>1. /\ [q EXCEPT !.awaited = FALSE] \in [to : {""}, from : {""}, member : {"none"}, awaited : {FALSE}]
    BY <1>2 DEF Ren!NoRequest
  <2>2. ASSUME NEW r \in [to : {""}, from : {""}, member : {"none"}, awaited : {FALSE}]
        PROVE  r = Ren!NoRequest
    BY ZenonT(60) DEF Ren!NoRequest
  <2>3. [q EXCEPT !.awaited = FALSE] = Ren!NoRequest
    BY <2>1, <2>2
  <2>4. Ren!NoRequest.awaited = FALSE /\ Ren!NoRequest.member = "none"
    BY DEF Ren!NoRequest
  <2>5. QED
    BY <1>2, <2>3, <2>4
<1>3. QED
  BY <1>1, <1>2

\* The Master gives up on the answer it awaits.
LEMMA ForgetsAll ==
  ASSUME RenInv, Ren!Forget(rename.waits), astray \subseteq astray',
         rename.waits # "none" => rename.waits \in astray'
  PROVE  /\ requests' \in SUBSET Asked /\ serving' \in [Ren!Followers -> Asked \cup {Ren!NoRequest}]
         /\ AnswersFit' /\ DirsFit'
         /\ \A n \in Ren!Members \ astray' : ~Serves(n) /\ ~Serves(n)'
<1>1. /\ requests \in SUBSET Asked /\ serving \in [Ren!Followers -> Asked \cup {Ren!NoRequest}]
      /\ requests' = {[q EXCEPT !.awaited = q.awaited /\ q.member # rename.waits] : q \in requests}
      /\ serving' = [f \in Ren!Followers |-> IF f = rename.waits THEN [serving[f] EXCEPT !.awaited = FALSE]
                                             ELSE serving[f]]
  BY DEF RenInv, RenTypes, Ren!Forget
<1>2. \A q \in requests : (q.awaited /\ q.member # rename.waits) = FALSE
  BY AwaitedOnce
<1>3. requests' = {[q EXCEPT !.awaited = FALSE] : q \in requests}
  BY <1>1, <1>2
<1>4. \A q \in requests :
        /\ [q EXCEPT !.awaited = FALSE] \in Asked /\ ~[q EXCEPT !.awaited = FALSE].awaited
        /\ [q EXCEPT !.awaited = FALSE].member = q.member /\ q.member \in astray'
  <2>1. SUFFICES ASSUME NEW q \in requests
                 PROVE  /\ [q EXCEPT !.awaited = FALSE] \in Asked /\ ~[q EXCEPT !.awaited = FALSE].awaited
                        /\ [q EXCEPT !.awaited = FALSE].member = q.member /\ q.member \in astray'
    OBVIOUS
  <2>2. q \in Asked /\ q.member # "none" /\ q.awaited \in BOOLEAN
    BY <1>1, RenNone DEF Asked
  <2>3. q.member \in astray'
    BY <2>2, AwaitedOnce DEF RenInv, AnswersFit
  <2>4. QED
    BY <2>2, <2>3 DEF Asked
<1>5. requests' \in SUBSET Asked /\ \A q \in requests' : ~q.awaited /\ q.member \in astray'
  BY <1>3, <1>4
<1>6. serving' \in [Ren!Followers -> Asked \cup {Ren!NoRequest}]
  BY <1>1, SameRequest
<1>7. \A n \in Ren!Followers :
        /\ ~serving'[n].awaited
        /\ serving[n] = Ren!NoRequest => serving'[n] = Ren!NoRequest
        /\ serving'[n].member = serving[n].member
  <2>1. ASSUME NEW n \in Ren!Followers, n # rename.waits
        PROVE  ~serving[n].awaited /\ serving'[n] = serving[n]
    BY <1>1, <2>1, AwaitedOnce
  <2>2. QED
    BY <1>1, <2>1, SameRequest
<1>8. \A n \in Ren!Followers : Serves(n)' => Serves(n)
  BY <1>7 DEF Serves
<1>9. \A n \in Ren!Followers : Serves(n) => serving[n].member = n /\ n \in astray'
  BY AwaitedOnce, RenNone DEF RenInv, AnswersFit
<1>10. AnswersFit'
  BY <1>5, <1>7, <1>8, <1>9, AnswersEnd DEF RenInv
<1>11. DirsFit'
  BY <1>7, DirsEnd
<1>12. \A n \in Ren!Members \ astray' : ~Serves(n) /\ ~Serves(n)'
  BY <1>8, <1>9 DEF Serves
<1>13. QED
  BY <1>5, <1>6, <1>10, <1>11, <1>12

\* A rename goes on without a member that it was to move, or to move back.
LEMMA GivingUpRests ==
  ASSUME RenInv, NEW m, Due(m), Ren!GaveUp(m), astray' = astray \cup {m},
         UNCHANGED <<entry, native, disk, dirs>>,
         requests' \in SUBSET Asked, serving' \in [Ren!Followers -> Asked \cup {Ren!NoRequest}],
         AnswersFit', DirsFit', \A n \in Ren!Members \ astray' : ~Serves(n) /\ ~Serves(n)'
  PROVE  RenInv'
<1>1. /\ rename' \in Courses /\ ProgressFits' /\ Moving'
      /\ rename'.from = rename.from /\ rename'.to = rename.to
      /\ Moved' = Moved \ {m} /\ m \in Ren!Members /\ Moving
  BY GivesUp DEF Due
<1>2. RenTypes' /\ NamesFree'
  BY <1>1, CourseGoesOn DEF RenInv, RenTypes
<1>3. ASSUME NEW x \in DOMAIN Home, Home[x] \notin astray' PROVE FileFits(x)'
  <2>1. Home[x] \notin astray /\ Home[x] # m /\ ~Serves(Home[x]) /\ ~Serves(Home[x])'
    BY <1>3, RenNone
  <2>2. Turned(Home[x])' = Turned(Home[x]) /\ Listing(Home[x])' = Listing(Home[x])
    BY <1>1, <2>1 DEF Turned, Listing
  <2>3. QED
    BY <1>1, <2>1, <2>2, FileKept
<1>4. QED
  BY <1>1, <1>2, <1>3 DEF RenInv, FilesFit

LEMMA TimesOutKeeps == ASSUME RenInv, Ren!TimesOut PROVE RenInv'
<1>1. /\ rename.waits # "none" /\ Ren!Forget(rename.waits) /\ Ren!GaveUp(rename.waits)
      /\ astray' = astray \cup {rename.waits} /\ UNCHANGED <<entry, native, disk, dirs>>
  BY DEF Ren!TimesOut, Ren!Unasked
<1>2. Due(rename.waits)
  BY <1>1, WaitsIsDue
<1>3. QED
  BY <1>1, <1>2, ForgetsAll, GivingUpRests

LEMMA FollowerCrashKeeps ==
  ASSUME RenInv, NEW m \in Ren!Followers, Ren!FollowerCrash(m)
  PROVE  RenInv'
<1>1. /\ Serves(m) /\ serving' = [serving EXCEPT ![m] = Ren!NoRequest]
      /\ IF serving[m].awaited THEN Ren!GaveUp(m) ELSE UNCHANGED rename
      /\ astray' = astray \cup {m} /\ UNCHANGED <<entry, native, disk, dirs, requests>>
      /\ m \in Ren!Members
  BY RenNone DEF Ren!FollowerCrash, Serves
<1>2. CASE ~serving[m].awaited
  BY <1>1, <1>2, StrayEnds DEF RenInv, RenTypes
<1>3. CASE serving[m].awaited
  <2>1. /\ Due(m) /\ serving' \in [Ren!Followers -> Asked \cup {Ren!NoRequest}]
        /\ \A n \in Ren!Members : Serves(n)' <=> n # m /\ Serves(n)
        /\ \A n \in Ren!Members \ astray : ~Serves(n)'
    BY <1>1, <1>3, AnswerIsDue
  <2>2. AnswersFit' /\ DirsFit'
    BY <1>1, <1>3, AnswerEnds
  <2>3. \A n \in Ren!Members \ astray' : ~Serves(n) /\ ~Serves(n)'
    BY <1>1, <2>1
  <2>4. QED
    BY <1>1, <1>3, <2>1, <2>2, <2>3, GivingUpRests DEF RenInv, RenTypes
<1>4. QED
  BY <1>2, <1>3

LEMMA MasterCrashKeeps == ASSUME RenInv, Ren!MasterCrash PROVE RenInv'
<1>1. /\ Ren!Forget(rename.waits) /\ Ren!Abandon /\ UNCHANGED <<entry, native, disk, dirs>>
      /\ astray' = astray \cup Ren!ToSet(rename.moved) \cup ({rename.waits} \cap Ren!Members)
  BY DEF Ren!MasterCrash
<1>2. /\ rename \in Courses /\ rename.moved \in Seq(Ren!Members)
      /\ rename.waits \in Ren!Followers \cup {"none"} /\ astray \subseteq Ren!Members
  BY DEF RenInv, RenTypes, Courses
<1>3. Ren!ToSet(rename.moved) = Moved /\ Moved \subseteq Ren!Members
  BY <1>2 DEF Ren!ToSet, Moved, Elements
<1>4. /\ astray \subseteq astray' /\ astray' \in SUBSET Ren!Members /\ Moved \subseteq astray'
      /\ rename.waits # "none" => rename.waits \in astray'
  BY <1>1, <1>2, <1>3, RenNone
<1>5. /\ requests' \in SUBSET Asked /\ serving' \in [Ren!Followers -> Asked \cup {Ren!NoRequest}]
      /\ AnswersFit' /\ DirsFit'
      /\ \A n \in Ren!Members \ astray' : ~Serves(n) /\ ~Serves(n)'
  BY <1>1, <1>4, ForgetsAll
<1>6. \A n \in Ren!Members \ astray' : ~Turned(n) /\ ~Listing(n)
  BY <1>4, <1>5 DEF Turned, Listing
<1>7. FilesFit'
  BY <1>1, <1>4, <1>6, RenNone, AbandonedRests, FilesKept DEF NameAt
<1>8. QED
  BY <1>1, <1>4, <1>5, <1>7, AbandonKeeps DEF RenInv, RenTypes

-----------------------------------------------------------------------------
\* The catalog is rewritten: what is listed under the old name is listed under the new one.
LEMMA Rewritten ==
  ASSUME RenInv, Ren!AllMoved, Ren!RewriteMasterCatalog
  PROVE  /\ entry' \in [DOMAIN Home -> [state : EntryStates, name : NameOrNone]]
         /\ \A x \in DOMAIN Home :
              /\ entry'[x].state = entry[x].state
              /\ Stored(x) /\ entry[x].name = rename.from => entry'[x].name = rename.to
              /\ ~(Stored(x) /\ entry[x].name = rename.from) => entry'[x].name = entry[x].name
              /\ entry'[x].state # "new" => entry'[x].name \in FolderNames
         /\ rename.owners = Moved /\ Moving /\ rename.phase = "move" /\ rename.waits = "none"
         /\ rename.from \in FolderNames /\ rename.to \in FolderNames /\ rename.from # rename.to
         /\ \A x \in DOMAIN Home : Stored(x) /\ entry[x].name = rename.from =>
              Home[x] \in Moved \cup Ren!Unmoved
         /\ Ren!Unmoved \subseteq Ren!Members
<1>1. /\ rename.phase = "move" /\ rename.todo = {} /\ rename.waits = "none" /\ Moving /\ ~Idle
      /\ entry' = [x \in DOMAIN Home |-> IF x \in Ren!Listed(rename.from)
                            THEN [entry[x] EXCEPT !.name = rename.to] ELSE entry[x]]
      /\ entry \in [DOMAIN Home -> [state : EntryStates, name : NameOrNone]]
      /\ \A x \in DOMAIN Home : entry[x].state # "new" => entry[x].name \in FolderNames
  BY DEF Ren!AllMoved, Ren!Unasked, Ren!RewriteMasterCatalog, Moving, Idle, RenInv, RenTypes
<1>2. /\ rename.owners = Moved /\ rename.from \in FolderNames /\ rename.to \in FolderNames
      /\ rename.from # rename.to
  BY <1>1 DEF RenInv, ProgressFits
<1>3. \A x \in DOMAIN Home : x \in Ren!Listed(rename.from) <=> Stored(x) /\ entry[x].name = rename.from
  BY DEF Ren!Listed, Ren!Under, Stored
<1>4. \A x \in DOMAIN Home :
        entry'[x] = IF Stored(x) /\ entry[x].name = rename.from
                    THEN [entry[x] EXCEPT !.name = rename.to] ELSE entry[x]
  BY <1>1, <1>3
<1>5. \A x \in DOMAIN Home :
              /\ entry'[x].state = entry[x].state
              /\ Stored(x) /\ entry[x].name = rename.from => entry'[x].name = rename.to
              /\ ~(Stored(x) /\ entry[x].name = rename.from) => entry'[x].name = entry[x].name
  BY <1>1, <1>4
<1>6. entry' \in [DOMAIN Home -> [state : EntryStates, name : NameOrNone]]
  BY <1>1, <1>2 DEF NameOrNone
<1>7. \A x \in DOMAIN Home : entry'[x].state # "new" => entry'[x].name \in FolderNames
  BY <1>1, <1>2, <1>5 DEF Stored
<1>8. \A x \in DOMAIN Home : Stored(x) /\ entry[x].name = rename.from =>
              Home[x] \in Moved \cup Ren!Unmoved
  BY <1>2, <1>3 DEF Ren!Unmoved, Ren!Homes
<1>9. Ren!Unmoved \subseteq Ren!Members
  BY RenNone DEF Ren!Unmoved, Ren!Homes, Ren!Listed, Ren!Under
<1>10. QED
  BY <1>1, <1>2, <1>5, <1>6, <1>7, <1>8, <1>9

LEMMA CommitKeeps == ASSUME RenInv, Ren!Commit PROVE RenInv'
<1>1. /\ Ren!AllMoved /\ Ren!RewriteMasterCatalog /\ Ren!Abandon
      /\ astray' = astray \cup Ren!Unmoved
      /\ UNCHANGED <<native, disk, dirs, requests, serving>>
  BY DEF Ren!Commit
<1>2. /\ rename.owners = Moved /\ Moving /\ rename.waits = "none" /\ ~Moving'
      /\ astray \subseteq astray' /\ astray' \in SUBSET Ren!Members
  BY <1>1, Rewritten, AbandonedRests DEF RenInv, RenTypes
<1>3. AnswersFit' /\ DirsFit'
  BY <1>1, <1>2, NobodyWaits
<1>4. ASSUME NEW x \in DOMAIN Home, Home[x] \notin astray' PROVE FileFits(x)'
  <2>1. Home[x] \notin astray /\ FileFits(x) /\ ~Serves(Home[x])
    BY <1>2, <1>4, Unawaited, RenNone DEF RenInv, FilesFit
  <2>2. Turned(Home[x]) = (Home[x] \in Moved) /\ Listing(Home[x]) = (Home[x] \in Moved)
    BY <2>1 DEF Turned, Listing
  <2>3. \A turned : NameAt(x, turned)' = entry'[x].name
    BY <1>2 DEF NameAt
  <2>4. /\ entry'[x].state = entry[x].state
        /\ Stored(x) /\ entry[x].name = rename.from => Home[x] \in Moved /\ entry'[x].name = rename.to
        /\ ~(Stored(x) /\ entry[x].name = rename.from) => entry'[x].name = entry[x].name
    BY <1>1, <1>4, Rewritten
  <2>5. Stored(x) => /\ NameAt(x, Turned(Home[x])) = entry'[x].name
                     /\ NameAt(x, Listing(Home[x])) = entry'[x].name
    BY <1>2, <2>2, <2>4 DEF NameAt
  <2>6. QED
    BY <1>1, <2>1, <2>3, <2>4, <2>5 DEF FileFits, Stored
<1>5. FilesFit'
  BY <1>4 DEF FilesFit
<1>6. QED
  BY <1>1, <1>2, <1>3, <1>5, Rewritten, AbandonKeeps DEF RenInv, RenTypes

LEMMA CommitUnknownKeeps == ASSUME RenInv, Ren!CommitUnknown PROVE RenInv'
<1>1. /\ Ren!AllMoved /\ Ren!RewriteMasterCatalog
      /\ rename' = [rename EXCEPT !.phase = "undo"]
      /\ astray' = astray \cup rename.owners \cup Ren!Unmoved
      /\ UNCHANGED <<native, disk, dirs, requests, serving>> /\ rename \in Courses
      /\ rename.moved \in Seq(Ren!Members) /\ rename.owners \subseteq Ren!Members
  BY DEF Ren!CommitUnknown, RenInv, RenTypes, Courses
<1>2. /\ rename.owners = Moved /\ Moving /\ rename.waits = "none" /\ rename.phase = "move"
      /\ astray \subseteq astray' /\ astray' \in SUBSET Ren!Members
  BY <1>1, Rewritten DEF RenInv, RenTypes
<1>3. /\ rename' \in Courses /\ rename'.phase = "undo" /\ rename'.moved = rename.moved
      /\ rename'.waits = "none" /\ rename'.from = rename.from /\ rename'.to = rename.to
      /\ Moving'
  BY <1>1, <1>2 DEF Courses, Moving
<1>4. ProgressFits' /\ Moved' = Moved
  BY <1>2, <1>3 DEF RenInv, ProgressFits, Moving, Moved, Idle
<1>5. AnswersFit' /\ DirsFit'
  BY <1>1, <1>2, NobodyWaits
<1>6. RenTypes'
  BY <1>1, <1>2, <1>3, Rewritten DEF RenInv, RenTypes
<1>7. \A x \in DOMAIN Home : Home[x] \notin astray' =>
        /\ entry'[x].state = entry[x].state /\ entry'[x].name = entry[x].name
        /\ Home[x] \notin astray /\ Home[x] \notin Moved
        /\ Stored(x) => entry[x].name # rename.from
  BY <1>1, <1>2, Rewritten
<1>8. NamesFree'
  <2>1. \A x \in DOMAIN Home :
          /\ entry'[x].state = entry[x].state
          /\ entry[x].state \in {"reserved", "pending_delete"} =>
               entry'[x].name = entry[x].name /\ entry[x].name \notin {rename.from, rename.to}
    BY <1>1, <1>2, Rewritten DEF RenInv, NamesFree, Stored
  <2>2. QED
    BY <1>2, <1>3, <1>7, <2>1 DEF RenInv, NamesFree
<1>9. ASSUME NEW x \in DOMAIN Home, Home[x] \notin astray' PROVE FileFits(x)'
  <2>1. FileFits(x) /\ ~Serves(Home[x]) /\ ~Serves(Home[x])'
    BY <1>1, <1>2, <1>7, <1>9, Unawaited, RenNone DEF RenInv, FilesFit, Serves
  <2>2. /\ Turned(Home[x]) = FALSE /\ Turned(Home[x])' = FALSE
        /\ Listing(Home[x]) = FALSE /\ Listing(Home[x])' = FALSE
    BY <1>4, <1>7, <1>9, <2>1 DEF Turned, Listing
  <2>3. NameAt(x, FALSE) = entry[x].name /\ NameAt(x, FALSE)' = entry[x].name
    BY <1>7, <1>9 DEF NameAt
  <2>4. QED
    BY <1>1, <1>7, <1>9, <2>1, <2>2, <2>3 DEF FileFits, Stored
<1>10. QED
  BY <1>3, <1>4, <1>5, <1>6, <1>8, <1>9 DEF RenInv, FilesFit

-----------------------------------------------------------------------------
LEMMA RenInvHolds == Ren!Init => RenInv
<1>1. SUFFICES ASSUME Ren!Init PROVE RenInv
  OBVIOUS
<1>2. PICK stored \in SUBSET (DOMAIN Home), n \in FolderNames :
         /\ entry = [x \in DOMAIN Home |-> [state |-> IF x \in stored THEN "active" ELSE "new",
                                      name |-> IF x \in stored THEN n ELSE "none"]]
         /\ disk = [x \in DOMAIN Home |-> entry[x].name]
         /\ native = [x \in DOMAIN Home |-> IF Home[x] = Local THEN "none" ELSE entry[x].name]
         /\ dirs = [m \in Ren!Members |-> {entry[x].name : x \in {y \in stored : Home[y] = m}}]
  BY <1>1 DEF Ren!Init
<1>3. /\ rename = Ren!NoRename /\ requests = {} /\ astray = {}
      /\ serving = [m \in Ren!Followers |-> Ren!NoRequest]
  BY <1>1 DEF Ren!Init
<1>4. /\ \A x \in DOMAIN Home : /\ entry[x].state = IF x \in stored THEN "active" ELSE "new"
                                /\ entry[x].name = IF x \in stored THEN n ELSE "none"
                                /\ disk[x] = entry[x].name
                                /\ native[x] = IF Home[x] = Local THEN "none" ELSE entry[x].name
      /\ entry \in [DOMAIN Home -> [state : EntryStates, name : NameOrNone]]
  BY <1>2 DEF EntryStates, NameOrNone
<1>5. /\ native \in [DOMAIN Home -> NameOrNone] /\ disk \in [DOMAIN Home -> NameOrNone]
  BY <1>2, <1>4 DEF NameOrNone
<1>6. dirs \in [Ren!Members -> SUBSET FolderNames]
  BY <1>2, <1>4
<1>7. /\ rename \in Courses /\ ~Moving /\ Idle /\ rename.moved = <<>> /\ rename.waits = "none"
      /\ rename.phase = "idle"
  BY <1>3, NoCourse DEF Moving, Idle
<1>8. RenTypes
  BY <1>3, <1>4, <1>5, <1>6, <1>7 DEF RenTypes
<1>9. ProgressFits /\ NamesFree /\ AnswersFit /\ DirsFit
  BY <1>3, <1>7, EmptyElements DEF ProgressFits, NamesFree, AnswersFit, DirsFit, Serves, Moving, Idle
<1>10. FilesFit
  BY <1>4, <1>7 DEF FilesFit, FileFits, Stored, NameAt
<1>11. QED
  BY <1>8, <1>9, <1>10 DEF RenInv

LEMMA RenInvKept == RenInv /\ [Ren!Next]_(Ren!renvars) => RenInv'
<1>1. SUFFICES ASSUME RenInv, [Ren!Next]_(Ren!renvars) PROVE RenInv'
  OBVIOUS
<1>2. CASE UNCHANGED Ren!renvars
  <2>1. UNCHANGED <<entry, native, disk, dirs, rename, requests, serving, astray>>
    BY <1>2 DEF Ren!renvars
  <2>2. RenTypes' /\ ProgressFits' /\ AnswersFit'
    BY <1>1, <2>1, ProgressRests, AnswersRest DEF RenInv, RenTypes
  <2>3. NamesFree'
    BY <1>1, <2>1 DEF RenInv, NamesFree, Moving
  <2>4. FilesFit'
    BY <1>1, <2>1, FilesKept DEF NameAt, Turned, Listing, Serves, Moved, Moving
  <2>5. DirsFit'
    BY <1>1, <2>1 DEF RenInv, DirsFit, Serves
  <2>6. QED
    BY <2>2, <2>3, <2>4, <2>5 DEF RenInv
<1>3. ASSUME NEW x \in DOMAIN Home,
             \/ \E n \in FolderNames : Ren!Reserve(x, n)
             \/ Ren!StorageUpload(x) \/ Ren!FinalizeUpload(x) \/ Ren!ReceiveMasterLocal(x)
             \/ Ren!CleanupUpload(x) \/ Ren!MarkPendingDelete(x) \/ Ren!RetryPendingMedia(x)
      PROVE RenInv'
  BY <1>1, <1>3, FileSteps
<1>4. ASSUME NEW from \in FolderNames, NEW to \in FolderNames, Ren!ReadOwners(from, to) PROVE RenInv'
  BY <1>1, <1>4, ReadOwnersKeeps
<1>5. CASE Ren!Preflight
  BY <1>1, <1>5, PreflightKeeps
<1>6. CASE Ren!MoveLocal
  BY <1>1, <1>6, MoveLocalKeeps
<1>7. CASE Ren!Commit
  BY <1>1, <1>7, CommitKeeps
<1>8. CASE Ren!CommitFails
  BY <1>1, <1>8, CommitFailsKeeps
<1>9. CASE Ren!CommitUnknown
  BY <1>1, <1>9, CommitUnknownKeeps
<1>10. CASE Ren!UndoEnds
  BY <1>1, <1>10, UndoEndsKeeps
<1>11. ASSUME NEW m \in Ren!Followers,
              \/ Ren!RemoteRename(m) \/ Ren!RemoteUnavailable(m) \/ Ren!FollowerCommits(m)
              \/ Ren!FollowerFails(m) \/ Ren!FollowerCrash(m)
       PROVE  RenInv'
  BY <1>1, <1>11, RemoteRenameKeeps, RemoteUnavailableKeeps, FollowerCommitsKeeps,
     FollowerFailsKeeps, FollowerCrashKeeps
<1>12. ASSUME NEW q \in requests, Ren!FollowerMoves(q) \/ Ren!FollowerRefuses(q) PROVE RenInv'
  BY <1>1, <1>12, FollowerMovesKeeps, FollowerRefusesKeeps
<1>13. CASE Ren!TimesOut
  BY <1>1, <1>13, TimesOutKeeps
<1>14. CASE Ren!MasterCrash
  BY <1>1, <1>14, MasterCrashKeeps
<1>15. QED
  BY <1>1, <1>2, <1>3, <1>4, <1>5, <1>6, <1>7, <1>8, <1>9, <1>10, <1>11, <1>12, <1>13, <1>14
     DEF Ren!Next

LEMMA RenInvSound == RenInv => RenameSound
<1>1. SUFFICES ASSUME RenInv PROVE RenameSound
  OBVIOUS
<1>2. NoUploadBehind
  BY <1>1 DEF NoUploadBehind, RenInv, RenTypes, NamesFree, Moving
<1>3. Idle => \A x \in DOMAIN Home : \A turned : NameAt(x, turned) = entry[x].name
  BY DEF NameAt, Idle, Moving
<1>4. DOMAIN entry = DOMAIN Home /\ FilesFit
  BY <1>1 DEF RenInv, RenTypes
<1>5. Whole
  BY <1>3, <1>4 DEF Whole, FilesFit, FileFits, InPlace, Stored
<1>6. QED
  BY <1>2, <1>5 DEF RenameSound

\* Whichever step of a rename is refused, fails, times out or dies, a rename that has ended is
\* whole on every member it has not lost: the directory, the Follower's row and the Master's
\* row of each stored file bear one name, and no upload is open under a name that is moved.
THEOREM RenamesSound == Ren!Spec => []RenameSound
<1>1. Ren!Init => RenInv
  BY RenInvHolds
<1>2. RenInv /\ [Ren!Next]_(Ren!renvars) => RenInv'
  BY RenInvKept
<1>3. RenInv => RenameSound
  BY RenInvSound
<1>4. QED
  BY <1>1, <1>2, <1>3, PTL DEF Ren!Spec
=============================================================================
