----------------------------- MODULE MediaFence -----------------------------
(* LoopLocalAsyncRWLock (app/core/async_lock.py): the process-local media      *)
(* fence.  Rename, publication and migration enter it exclusively, uploads,    *)
(* deletes and reconciliation enter it shared.                                 *)
(*                                                                             *)
(* No task suspends while it owns the asyncio.Condition's own lock, except     *)
(* inside wait(), so each stretch between two awaits is one step here.  A task *)
(* in "wantRead" or "wantWrite" sleeps in wait_for(); notify_all() puts every  *)
(* sleeper in `woken`, from which each re-evaluates its predicate in a step of *)
(* its own, in any order.                                                      *)
EXTENDS Naturals, FiniteSets

CONSTANT Tasks
ASSUME TasksFinite == IsFiniteSet(Tasks)

VARIABLES
  readers,           \* _ReadWriteState.readers
  writer,            \* _ReadWriteState.writer
  waiting_writers,   \* _ReadWriteState.waiting_writers
  pc,                \* where each task is in __aenter__, shared() or _finish_release
  woken,             \* sleepers that notify_all() made runnable
  cancellation       \* tasks whose release absorbed a CancelledError

vars == <<readers, writer, waiting_writers, pc, woken, cancellation>>

Phases == {"idle", "wantRead", "wantWrite", "reading", "writing",
           "leaveRead", "leaveWrite"}

At(phases) == {t \in Tasks : pc[t] \in phases}

(* The tasks counted by the lock: a task that started leaving still holds it   *)
(* until the shielded release task has run.                                    *)
Readers  == At({"reading", "leaveRead"})
Writers  == At({"writing", "leaveWrite"})
Queued   == At({"wantWrite"})
Sleepers == At({"wantRead", "wantWrite"})
Leaving  == At({"leaveRead", "leaveWrite"})

(* Mutant: a writer does not wait for the readers.                             *)
CanWriteOverReaders == ~writer

CanWrite == ~writer /\ readers = 0

(* Mutant: a reader does not look at the writer that is inside.                *)
CanReadUnderWriter == waiting_writers = 0

(* Mutant: a reader does not look at the writers that wait.                    *)
CanReadPastQueue == ~writer

CanRead  == ~writer /\ waiting_writers = 0

Init ==
  /\ readers = 0 /\ writer = FALSE /\ waiting_writers = 0
  /\ pc = [t \in Tasks |-> "idle"]
  /\ woken = {} /\ cancellation = {}

Goto(t, phase) == pc' = [pc EXCEPT ![t] = phase]

(* condition.notify_all(), called by task t.                                   *)
NotifyAll(t) == woken' = Sleepers \ {t}

-----------------------------------------------------------------------------
(* __aenter__: the counter is raised before the first evaluation and lowered   *)
(* by the finally block, so a writer that never sleeps leaves it unchanged.    *)
EnterWrite(t) ==
  /\ pc[t] = "idle" /\ CanWrite
  /\ writer' = TRUE
  /\ Goto(t, "writing") /\ NotifyAll(t)
  /\ UNCHANGED <<readers, waiting_writers, cancellation>>

QueueWrite(t) ==
  /\ pc[t] = "idle" /\ ~CanWrite
  /\ waiting_writers' = waiting_writers + 1
  /\ Goto(t, "wantWrite")
  /\ UNCHANGED <<readers, writer, woken, cancellation>>

WakeWrite(t) ==
  /\ pc[t] = "wantWrite" /\ t \in woken /\ CanWrite
  /\ writer' = TRUE
  /\ waiting_writers' = waiting_writers - 1
  /\ Goto(t, "writing") /\ NotifyAll(t)
  /\ UNCHANGED <<readers, cancellation>>

(* Mutant: the decrement is not in a finally block.                            *)
CancelWriteLeaks(t) ==
  /\ pc[t] = "wantWrite"
  /\ Goto(t, "idle") /\ NotifyAll(t)
  /\ UNCHANGED <<readers, writer, waiting_writers, cancellation>>

(* Mutant: a cancelled writer leaves the queue without notify_all.             *)
CancelWriteSilent(t) ==
  /\ pc[t] = "wantWrite"
  /\ waiting_writers' = waiting_writers - 1
  /\ Goto(t, "idle") /\ woken' = woken \ {t}
  /\ UNCHANGED <<readers, writer, cancellation>>

(* A CancelledError inside wait_for() still runs the finally block.            *)
CancelWrite(t) ==
  /\ pc[t] = "wantWrite"
  /\ waiting_writers' = waiting_writers - 1
  /\ Goto(t, "idle") /\ NotifyAll(t)
  /\ UNCHANGED <<readers, writer, cancellation>>

(* shared().                                                                   *)
EnterRead(t) ==
  /\ pc[t] = "idle" /\ CanRead
  /\ readers' = readers + 1
  /\ Goto(t, "reading")
  /\ UNCHANGED <<writer, waiting_writers, woken, cancellation>>

SleepRead(t) ==
  /\ pc[t] = "idle" /\ ~CanRead
  /\ Goto(t, "wantRead")
  /\ UNCHANGED <<readers, writer, waiting_writers, woken, cancellation>>

WakeRead(t) ==
  /\ pc[t] = "wantRead" /\ t \in woken /\ CanRead
  /\ readers' = readers + 1
  /\ Goto(t, "reading")
  /\ woken' = woken \ {t}
  /\ UNCHANGED <<writer, waiting_writers, cancellation>>

(* Mutant: shared() waits inside the try whose finally block releases.         *)
CancelReadReleases(t) ==
  /\ pc[t] = "wantRead"
  /\ readers' = readers - 1
  /\ Goto(t, "idle") /\ NotifyAll(t)
  /\ UNCHANGED <<writer, waiting_writers, cancellation>>

CancelRead(t) ==
  /\ pc[t] = "wantRead"
  /\ Goto(t, "idle")
  /\ woken' = woken \ {t}
  /\ UNCHANGED <<readers, writer, waiting_writers, cancellation>>

(* A woken task whose predicate is false goes back to sleep.                   *)
SleepAgain(t) ==
  /\ t \in woken
  /\ \/ pc[t] = "wantWrite" /\ ~CanWrite
     \/ pc[t] = "wantRead" /\ ~CanRead
  /\ woken' = woken \ {t}
  /\ UNCHANGED <<readers, writer, waiting_writers, pc, cancellation>>

(* The body ends, by return, error or cancellation: _finish_release creates    *)
(* the release task and waits for it behind a shield.                          *)
Leave(t) ==
  /\ \/ pc[t] = "reading" /\ Goto(t, "leaveRead")
     \/ pc[t] = "writing" /\ Goto(t, "leaveWrite")
  /\ UNCHANGED <<readers, writer, waiting_writers, woken, cancellation>>

(* Cancelling the waiter is remembered and raised only after the release.      *)
CancelLeave(t) ==
  /\ t \in Leaving
  /\ cancellation' = cancellation \cup {t}
  /\ UNCHANGED <<readers, writer, waiting_writers, pc, woken>>

Release(t) ==
  /\ \/ pc[t] = "leaveWrite" /\ writer' = FALSE /\ UNCHANGED readers
     \/ pc[t] = "leaveRead" /\ readers' = readers - 1 /\ UNCHANGED writer
  /\ Goto(t, "idle") /\ NotifyAll(t)
  /\ cancellation' = cancellation \ {t}
  /\ UNCHANGED waiting_writers

Step(t) ==
  \/ EnterWrite(t) \/ QueueWrite(t) \/ WakeWrite(t) \/ CancelWrite(t)
  \/ EnterRead(t) \/ SleepRead(t) \/ WakeRead(t) \/ CancelRead(t)
  \/ SleepAgain(t) \/ Leave(t) \/ CancelLeave(t) \/ Release(t)

Next == \E t \in Tasks : Step(t)

Spec == Init /\ [][Next]_vars

(* The event loop runs every runnable task, a release task included, and every *)
(* body ends: the callers bound their transfers and remote calls by timeouts.  *)
Fairness ==
  \A t \in Tasks : /\ WF_vars(WakeWrite(t) \/ WakeRead(t) \/ SleepAgain(t))
                   /\ WF_vars(Leave(t))
                   /\ WF_vars(Release(t))

FairSpec == Spec /\ Fairness

-----------------------------------------------------------------------------
TypeOK ==
  /\ readers \in Nat /\ writer \in BOOLEAN /\ waiting_writers \in Nat
  /\ pc \in [Tasks -> Phases]
  /\ woken \subseteq Sleepers
  /\ cancellation \subseteq Leaving

(* Exclusion as the callers see it: a rename or a publication that is inside   *)
(* the fence, or still leaving it, is alone there.                             *)
Exclusive ==
  \A t \in Writers : Readers = {} /\ Writers = {t}

(* The three counters are exactly the tasks they stand for in every            *)
(* interleaving of admissions, cancellations and shielded releases; a leaked   *)
(* count would close the fence for the life of the process.                    *)
CountsExact ==
  /\ readers = Cardinality(Readers)
  /\ writer <=> Writers # {}
  /\ waiting_writers = Cardinality(Queued)

(* No wakeup is lost: a sleeper whose predicate has become true is runnable,   *)
(* whichever of release, admission or cancellation made it true.               *)
NoLostWakeup ==
  \A t \in Sleepers :
    (IF pc[t] = "wantWrite" THEN CanWrite ELSE CanRead) => t \in woken

(* Writers have precedence: no task is admitted shared while a writer waits.   *)
WriterPrecedence ==
  [][\A t \in Tasks : t \in Readers' \ Readers => Queued = {}]_vars

(* A queued writer is eventually inside unless the queue empties: a stream of  *)
(* shared entries cannot starve renames and publications.  A sleeping reader   *)
(* is admitted or cancelled unless writers keep coming.                        *)
WaitersServed ==
  /\ (waiting_writers > 0) ~> (writer \/ waiting_writers = 0)
  /\ \A t \in Tasks : []<>(pc[t] # "wantRead") \/ []<>(Queued \cup Writers # {})

(* The lock implements the promise of SharedExclusive.                         *)
Promise == INSTANCE SharedExclusive WITH shared <- Readers, exclusive <- Writers
ImplementsPromise == Promise!Spec
=============================================================================
