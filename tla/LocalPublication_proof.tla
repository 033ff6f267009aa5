----------------------- MODULE LocalPublication_proof ------------------------
(* Proofs about LocalPublication for every set of uploads and deleters, every  *)
(* size of the files and every number of faults, when deletions are carried    *)
(* out by requests, which take the fence, or by one background loop alone: with *)
(* both at once PublishedStored does not hold (LocalPublication_unfenced).     *)
EXTENDS LocalPublication, TLAPS

CrewsApart ==
  \A c \in Crews : c.loop = {} \/ (c.request = {} /\ \E d \in Deleters : c.loop = {d})

-----------------------------------------------------------------------------
(* The inductive invariant.                                                    *)

Phases ==
  {"idle", "receive", "fenced", "writing", "journaled", "linked", "committed", "unstaged",
   "undo", "abort", "clean", "cancel", "sweep", "release"}

InFence ==
  {"fenced", "writing", "journaled", "linked", "committed", "unstaged", "undo", "abort"}

LocalTypes ==
  /\ session \in [Uploads -> {"new", "reserved", "complete", "gone"}]
  /\ catalog \in [Uploads -> {"none", "active", "pending_delete", "deleted"}]
  /\ target \in Uploads \cup {NoUpload} /\ fence \in Uploads \cup {NoUpload}
  /\ part \subseteq Uploads /\ journal \subseteq Uploads /\ torn \subseteq Uploads
  /\ op \in [Uploads -> Phases]
  /\ deleting \in [Deleters -> [upload : Uploads \cup {NoUpload},
                                step : {"idle", "read", "unlinked"}]]
  /\ required \in BOOLEAN /\ up \in BOOLEAN /\ crew \in Crews

\* The path has one live upload at a time, and only its bytes.
Live(u) == session[u] = "reserved" \/ catalog[u] \in {"active", "pending_delete"}

RowsFit ==
  \A u \in Uploads :
    /\ session[u] = "complete" <=> catalog[u] # "none"
    /\ \A v \in Uploads : Live(u) /\ Live(v) => u = v
    /\ target = u => Live(u)
    /\ catalog[u] = "active" => target = u
    /\ catalog[u] = "pending_delete" => Pending = {} /\ fence = NoUpload

\* What the operation under way on an upload has reached.
PhaseFits(u) ==
  /\ fence = u <=> op[u] \in InFence
  /\ session[u] = "new" => op[u] = "idle"
  /\ op[u] \in {"receive", "fenced", "writing", "journaled", "linked", "undo", "abort", "release"}
       => session[u] = "reserved"
  /\ op[u] \in {"committed", "unstaged"} => Committed(u)
  /\ op[u] \in {"linked", "undo"} => target = u
  /\ op[u] \in {"fenced", "writing", "journaled", "abort", "release"} => target = NoUpload
  /\ op[u] \in {"fenced", "release"} => Pending = {}
  /\ op[u] = "writing" => u \in torn
  /\ op[u] \in {"journaled", "linked", "undo", "committed", "unstaged"} => u \in journal
  /\ ~up => op[u] = "idle"

OpsFit == \A u \in Uploads : PhaseFits(u)

\* One journal at a time, and it is the live upload's, or of a reservation
\* that recovery has just released.
JournalsFit ==
  /\ \A u, v \in Pending : u = v
  /\ \A u \in Pending : Live(u) \/ (~up /\ session[u] = "gone")
  /\ \A u \in torn : u \notin journal /\ session[u] = "reserved" /\ target = NoUpload
  /\ LocalSound

\* A deletion works on a row that is still to be removed, or that another
\* request has removed: then nothing is at the path, and no publication can
\* put anything there before this deletion is over.
DeletionFits(d) ==
  deleting[d] # NoDelete =>
    /\ up /\ Pending = {} /\ fence = NoUpload
    /\ d \in crew.request \cup crew.loop
    /\ deleting[d].upload \in Uploads
    /\ \/ catalog[deleting[d].upload] = "pending_delete"
       \/ catalog[deleting[d].upload] = "deleted" /\ crew.loop = {} /\ target = NoUpload
    /\ deleting[d].step = "unlinked" => target = NoUpload

DeletionsFit == \A d \in Deleters : DeletionFits(d)

LocalInv == LocalTypes /\ RowsFit /\ OpsFit /\ JournalsFit /\ DeletionsFit

-----------------------------------------------------------------------------
(* Every action keeps it.                                                      *)

LEMMA Steps ==
  ASSUME LocalTypes, NEW u \in Uploads, NEW s \in Phases, Step(u, s)
  PROVE  op' \in [Uploads -> Phases] /\ op'[u] = s /\ \A v \in Uploads \ {u} : op'[v] = op[v]
BY DEF LocalTypes, Step

LEMMA ReservePreserves ==
  ASSUME LocalInv, CrewsApart, NEW u \in Uploads, Reserve(u)
  PROVE  LocalInv'
<1> USE NoUploadIsNone DEF Reserve, NoFault, memory, files, SharedOpen, Ready
<1>1. op' \in [Uploads -> Phases] /\ \A v \in Uploads \ {u} : op'[v] = op[v]
  BY DEF LocalInv, LocalTypes
<1>2. LocalTypes'
  BY <1>1 DEF LocalInv, LocalTypes
<1>3. RowsFit'
  BY DEF LocalInv, RowsFit, Live, Pending, Owned
<1>4. OpsFit'
  BY DEF LocalInv, OpsFit, PhaseFits, Pending
<1>5. JournalsFit'
  BY DEF LocalInv, Pending, JournalsFit, LocalSound, UncommittedJournaled, RecoveryDecides
<1>6. DeletionsFit'
  BY DEF LocalInv, Pending, DeletionsFit, DeletionFits
<1> QED  BY <1>2, <1>3, <1>4, <1>5, <1>6 DEF LocalInv

LEMMA ReceivePreserves ==
  ASSUME LocalInv, CrewsApart, NEW u \in Uploads, Receive(u)
  PROVE  LocalInv'
<1> USE NoUploadIsNone DEF Receive, NoFault, database
<1>1. op' \in [Uploads -> Phases] /\ \A v \in Uploads \ {u} : op'[v] = op[v]
  BY Steps DEF LocalInv, LocalTypes, Phases
<1>2. LocalTypes'
  BY <1>1 DEF LocalInv, LocalTypes
<1>3. RowsFit'
  BY DEF LocalInv, RowsFit, Live, Pending
<1>4. OpsFit'
  BY <1>1 DEF LocalInv, OpsFit, PhaseFits, InFence, Pending, Committed, Step
<1>5. JournalsFit'
  BY DEF LocalInv, Live, Pending, Committed, Uncommitted, JournalsFit, LocalSound,
     UncommittedJournaled, RecoveryDecides
<1>6. DeletionsFit'
  BY DEF LocalInv, Pending, DeletionsFit, DeletionFits
<1> QED  BY <1>2, <1>3, <1>4, <1>5, <1>6 DEF LocalInv

LEMMA ReceiveFailsPreserves ==
  ASSUME LocalInv, CrewsApart, NEW u \in Uploads, ReceiveFails(u)
  PROVE  LocalInv'
<1> USE NoUploadIsNone DEF ReceiveFails, NoFault, Fault, database, SharedOpen, Ready,
        ExclusiveOpen
<1>1. op' \in [Uploads -> Phases] /\ \A v \in Uploads \ {u} : op'[v] = op[v]
  BY Steps DEF LocalInv, LocalTypes, Phases
<1>2. LocalTypes'
  BY <1>1 DEF LocalInv, LocalTypes
<1>3. RowsFit'
  BY DEF LocalInv, RowsFit, Live, Pending
<1>4. OpsFit'
  BY DEF LocalInv, OpsFit, PhaseFits, InFence, Pending, Committed, Step
<1>5. JournalsFit'
  BY DEF LocalInv, Live, Pending, Committed, Uncommitted, JournalsFit, LocalSound,
     UncommittedJournaled, RecoveryDecides
<1>6. DeletionsFit'
  BY DEF LocalInv, Pending, DeletionsFit, DeletionFits
<1> QED  BY <1>2, <1>3, <1>4, <1>5, <1>6 DEF LocalInv

LEMMA EnterFencePreserves ==
  ASSUME LocalInv, CrewsApart, NEW u \in Uploads, EnterFence(u)
  PROVE  LocalInv'
<1> USE NoUploadIsNone DEF EnterFence, NoFault, files, database, SharedOpen, Ready,
        ExclusiveOpen
<1>1. op' \in [Uploads -> Phases] /\ \A v \in Uploads \ {u} : op'[v] = op[v]
  BY Steps DEF LocalInv, LocalTypes, Phases
<1>2. LocalTypes'
  BY <1>1 DEF LocalInv, LocalTypes
<1>3. RowsFit'
  BY DEF LocalInv, RowsFit, OpsFit, PhaseFits, Live, Pending
<1>4. OpsFit'
  BY <1>1 DEF LocalInv, OpsFit, PhaseFits, InFence, Pending, Step
<1>5. JournalsFit'
  BY DEF LocalInv, Pending, JournalsFit, LocalSound, UncommittedJournaled, RecoveryDecides
<1>6. DeletionsFit'
  BY DEF LocalInv, RowsFit, OpsFit, PhaseFits, Live, Pending, DeletionsFit, DeletionFits
<1> QED  BY <1>2, <1>3, <1>4, <1>5, <1>6 DEF LocalInv

LEMMA CreateJournalPreserves ==
  ASSUME LocalInv, CrewsApart, NEW u \in Uploads, CreateJournal(u)
  PROVE  LocalInv'
<1> USE NoUploadIsNone DEF CreateJournal, NoFault, database
<1>1. op' \in [Uploads -> Phases] /\ \A v \in Uploads \ {u} : op'[v] = op[v]
  BY Steps DEF LocalInv, LocalTypes, Phases
<1>2. LocalTypes'
  BY <1>1 DEF LocalInv, LocalTypes
<1>3. RowsFit'
  BY DEF LocalInv, RowsFit, OpsFit, PhaseFits, Live, Pending
<1>4. OpsFit'
  BY <1>1 DEF LocalInv, RowsFit, OpsFit, PhaseFits, InFence, Live, Pending, Step
<1>5. JournalsFit'
  BY DEF LocalInv, OpsFit, PhaseFits, Live, Pending, JournalsFit, LocalSound,
     UncommittedJournaled, RecoveryDecides
<1>6. DeletionsFit'
  BY DEF LocalInv, OpsFit, PhaseFits, InFence, Pending, DeletionsFit, DeletionFits
<1> QED  BY <1>2, <1>3, <1>4, <1>5, <1>6 DEF LocalInv

LEMMA WriteJournalPreserves ==
  ASSUME LocalInv, CrewsApart, NEW u \in Uploads, WriteJournal(u)
  PROVE  LocalInv'
<1> USE NoUploadIsNone DEF WriteJournal, NoFault, database
<1>1. op' \in [Uploads -> Phases] /\ \A v \in Uploads \ {u} : op'[v] = op[v]
  BY Steps DEF LocalInv, LocalTypes, Phases
<1>2. LocalTypes'
  BY <1>1 DEF LocalInv, LocalTypes
<1>3. RowsFit'
  BY DEF LocalInv, RowsFit, OpsFit, PhaseFits, Live, Pending
<1>4. OpsFit'
  BY <1>1 DEF LocalInv, OpsFit, PhaseFits, InFence, Pending, Step
<1>5. JournalsFit'
  BY DEF LocalInv, RowsFit, OpsFit, PhaseFits, Live, Pending, Uncommitted, JournalsFit,
     LocalSound, UncommittedJournaled, RecoveryDecides
<1>6. DeletionsFit'
  BY DEF LocalInv, OpsFit, PhaseFits, Pending, DeletionsFit, DeletionFits
<1> QED  BY <1>2, <1>3, <1>4, <1>5, <1>6 DEF LocalInv

LEMMA LinkPreserves ==
  ASSUME LocalInv, CrewsApart, NEW u \in Uploads, Link(u)
  PROVE  LocalInv'
<1> USE NoUploadIsNone DEF Link, NoFault, database
<1>1. op' \in [Uploads -> Phases] /\ \A v \in Uploads \ {u} : op'[v] = op[v]
  BY Steps DEF LocalInv, LocalTypes, Phases
<1>2. LocalTypes'
  BY <1>1 DEF LocalInv, LocalTypes
<1>3. RowsFit'
  BY DEF LocalInv, RowsFit, OpsFit, PhaseFits, Live, Pending
<1>4. OpsFit'
  BY <1>1 DEF LocalInv, OpsFit, PhaseFits, InFence, Pending, Step
<1>5. JournalsFit'
  BY DEF LocalInv, OpsFit, PhaseFits, Live, Pending, Committed, Uncommitted, JournalsFit,
     LocalSound, UncommittedJournaled, RecoveryDecides
<1>6. DeletionsFit'
  BY DEF LocalInv, OpsFit, PhaseFits, Pending, DeletionsFit, DeletionFits
<1> QED  BY <1>2, <1>3, <1>4, <1>5, <1>6 DEF LocalInv

LEMMA FinalizeUploadPreserves ==
  ASSUME LocalInv, CrewsApart, NEW u \in Uploads, FinalizeUpload(u)
  PROVE  LocalInv'
<1> USE NoUploadIsNone DEF FinalizeUpload, NoFault, files, Registered
<1>1. op' \in [Uploads -> Phases] /\ \A v \in Uploads \ {u} : op'[v] = op[v]
  BY Steps DEF LocalInv, LocalTypes, Phases
<1>2. LocalTypes'
  BY <1>1 DEF LocalInv, LocalTypes
<1>3. RowsFit'
  BY DEF LocalInv, LocalTypes, RowsFit, OpsFit, PhaseFits, Live, Pending
<1>4. OpsFit'
  BY DEF LocalInv, LocalTypes, OpsFit, PhaseFits, InFence, Pending, Committed, Step
<1>5. JournalsFit'
  BY DEF LocalInv, LocalTypes, OpsFit, PhaseFits, Live, Pending, Committed, JournalsFit,
     LocalSound, UncommittedJournaled, RecoveryDecides
<1>6. DeletionsFit'
  BY DEF LocalInv, OpsFit, PhaseFits, Pending, DeletionsFit, DeletionFits
<1> QED  BY <1>2, <1>3, <1>4, <1>5, <1>6 DEF LocalInv

LEMMA PublishFailsPreserves ==
  ASSUME LocalInv, CrewsApart, NEW u \in Uploads, PublishFails(u)
  PROVE  LocalInv'
<1> USE NoUploadIsNone DEF PublishFails, Fault, files, database
<1>1. op' \in [Uploads -> Phases] /\ \A v \in Uploads \ {u} : op'[v] = op[v]
  BY Steps DEF LocalInv, LocalTypes, Phases
<1>2. LocalTypes'
  BY <1>1 DEF LocalInv, LocalTypes
<1>3. RowsFit'
  BY DEF LocalInv, RowsFit, Live, Pending
<1>4. OpsFit'
  BY DEF LocalInv, OpsFit, PhaseFits, InFence, Pending, Step
<1>5. JournalsFit'
  BY DEF LocalInv, Live, Pending, Committed, Uncommitted, JournalsFit, LocalSound,
     UncommittedJournaled, RecoveryDecides
<1>6. DeletionsFit'
  BY DEF LocalInv, Pending, DeletionsFit, DeletionFits
<1> QED  BY <1>2, <1>3, <1>4, <1>5, <1>6 DEF LocalInv

LEMMA CommitUnknownPreserves ==
  ASSUME LocalInv, CrewsApart, NEW u \in Uploads, CommitUnknown(u)
  PROVE  LocalInv'
<1> USE NoUploadIsNone DEF CommitUnknown, Fault, database, LeaveFence, Registered
<1>1. op' \in [Uploads -> Phases] /\ \A v \in Uploads \ {u} : op'[v] = op[v]
  BY Steps DEF LocalInv, LocalTypes, Phases
<1>2. LocalTypes'
  BY <1>1 DEF LocalInv, LocalTypes
<1>3. RowsFit'
  BY DEF LocalInv, LocalTypes, RowsFit, OpsFit, PhaseFits, Live, Pending
<1>4. OpsFit'
  BY DEF LocalInv, LocalTypes, OpsFit, PhaseFits, InFence, Pending, Step
<1>5. JournalsFit'
  BY DEF LocalInv, LocalTypes, OpsFit, PhaseFits, Live, Pending, Committed, Uncommitted,
     JournalsFit, LocalSound, UncommittedJournaled, RecoveryDecides
<1>6. DeletionsFit'
  BY DEF LocalInv, OpsFit, PhaseFits, Pending, DeletionsFit, DeletionFits
<1> QED  BY <1>2, <1>3, <1>4, <1>5, <1>6 DEF LocalInv

LEMMA UnstagePreserves ==
  ASSUME LocalInv, CrewsApart, NEW u \in Uploads, Unstage(u)
  PROVE  LocalInv'
<1> USE NoUploadIsNone DEF Unstage, NoFault, database
<1>1. op' \in [Uploads -> Phases] /\ \A v \in Uploads \ {u} : op'[v] = op[v]
  BY Steps DEF LocalInv, LocalTypes, Phases
<1>2. LocalTypes'
  BY <1>1 DEF LocalInv, LocalTypes
<1>3. RowsFit'
  BY DEF LocalInv, RowsFit, Live, Pending
<1>4. OpsFit'
  BY DEF LocalInv, OpsFit, PhaseFits, InFence, Pending, Committed, Step
<1>5. JournalsFit'
  BY DEF LocalInv, Live, Pending, Committed, Uncommitted, JournalsFit, LocalSound,
     UncommittedJournaled, RecoveryDecides
<1>6. DeletionsFit'
  BY DEF LocalInv, Pending, DeletionsFit, DeletionFits
<1> QED  BY <1>2, <1>3, <1>4, <1>5, <1>6 DEF LocalInv

LEMMA FinishJournalPreserves ==
  ASSUME LocalInv, CrewsApart, NEW u \in Uploads, FinishJournal(u)
  PROVE  LocalInv'
<1> USE NoUploadIsNone DEF FinishJournal, NoFault, database, LeaveFence
<1>1. op' \in [Uploads -> Phases] /\ \A v \in Uploads \ {u} : op'[v] = op[v]
  BY Steps DEF LocalInv, LocalTypes, Phases
<1>2. LocalTypes'
  BY <1>1 DEF LocalInv, LocalTypes
<1>3. RowsFit'
  BY DEF LocalInv, RowsFit, Live, Pending
<1>4. OpsFit'
  BY <1>1 DEF LocalInv, OpsFit, PhaseFits, InFence, Pending, Step
<1>5. JournalsFit'
  BY DEF LocalInv, OpsFit, PhaseFits, Pending, Committed, JournalsFit, LocalSound,
     UncommittedJournaled, RecoveryDecides
<1>6. DeletionsFit'
  BY DEF LocalInv, Pending, DeletionsFit, DeletionFits
<1> QED  BY <1>2, <1>3, <1>4, <1>5, <1>6 DEF LocalInv

LEMMA UndoPreserves ==
  ASSUME LocalInv, CrewsApart, NEW u \in Uploads, Undo(u)
  PROVE  LocalInv'
<1> USE NoUploadIsNone DEF Undo, NoFault, database
<1>1. op' \in [Uploads -> Phases] /\ \A v \in Uploads \ {u} : op'[v] = op[v]
  BY Steps DEF LocalInv, LocalTypes, Phases
<1>2. LocalTypes'
  BY <1>1 DEF LocalInv, LocalTypes
<1>3. RowsFit'
  BY DEF LocalInv, RowsFit, OpsFit, PhaseFits, Live, Pending
<1>4. OpsFit'
  BY <1>1 DEF LocalInv, OpsFit, PhaseFits, InFence, Pending, Step
<1>5. JournalsFit'
  BY DEF LocalInv, OpsFit, PhaseFits, Live, Pending, Committed, Uncommitted, JournalsFit,
     LocalSound, UncommittedJournaled, RecoveryDecides
<1>6. DeletionsFit'
  BY DEF LocalInv, Pending, DeletionsFit, DeletionFits
<1> QED  BY <1>2, <1>3, <1>4, <1>5, <1>6 DEF LocalInv

LEMMA AbortPreserves ==
  ASSUME LocalInv, CrewsApart, NEW u \in Uploads, Abort(u)
  PROVE  LocalInv'
<1> USE NoUploadIsNone DEF Abort, NoFault, database, LeaveFence
<1>1. op' \in [Uploads -> Phases] /\ \A v \in Uploads \ {u} : op'[v] = op[v]
  BY Steps DEF LocalInv, LocalTypes, Phases
<1>2. LocalTypes'
  BY <1>1 DEF LocalInv, LocalTypes
<1>3. RowsFit'
  BY DEF LocalInv, RowsFit, Live, Pending
<1>4. OpsFit'
  BY <1>1 DEF LocalInv, OpsFit, PhaseFits, InFence, Pending, Step
<1>5. JournalsFit'
  BY DEF LocalInv, OpsFit, PhaseFits, Live, Pending, Committed, Uncommitted, JournalsFit,
     LocalSound, UncommittedJournaled, RecoveryDecides
<1>6. DeletionsFit'
  BY DEF LocalInv, Pending, DeletionsFit, DeletionFits
<1> QED  BY <1>2, <1>3, <1>4, <1>5, <1>6 DEF LocalInv

LEMMA FinishFailsPreserves ==
  ASSUME LocalInv, CrewsApart, NEW u \in Uploads, FinishFails(u)
  PROVE  LocalInv'
<1> USE NoUploadIsNone DEF FinishFails, NoFault, Fault, database, LeaveFence
<1>1. op' \in [Uploads -> Phases] /\ \A v \in Uploads \ {u} : op'[v] = op[v]
  BY Steps DEF LocalInv, LocalTypes, Phases
<1>2. LocalTypes'
  BY <1>1 DEF LocalInv, LocalTypes
<1>3. RowsFit'
  BY DEF LocalInv, RowsFit, Live, Pending
<1>4. OpsFit'
  BY <1>1 DEF LocalInv, OpsFit, PhaseFits, InFence, Pending, Step
<1>5. JournalsFit'
  BY DEF LocalInv, Live, Pending, Committed, Uncommitted, JournalsFit, LocalSound,
     UncommittedJournaled, RecoveryDecides
<1>6. DeletionsFit'
  BY DEF LocalInv, Pending, DeletionsFit, DeletionFits
<1> QED  BY <1>2, <1>3, <1>4, <1>5, <1>6 DEF LocalInv

LEMMA StartCleanupPreserves ==
  ASSUME LocalInv, CrewsApart, NEW u \in Uploads, StartCleanup(u)
  PROVE  LocalInv'
<1> USE NoUploadIsNone DEF StartCleanup, NoFault, files, database
<1>1. op' \in [Uploads -> Phases] /\ \A v \in Uploads \ {u} : op'[v] = op[v]
  BY Steps DEF LocalInv, LocalTypes, Phases
<1>2. LocalTypes'
  BY <1>1 DEF LocalInv, LocalTypes
<1>3. RowsFit'
  BY DEF LocalInv, RowsFit, Live, Pending
<1>4. OpsFit'
  BY <1>1 DEF LocalInv, OpsFit, PhaseFits, InFence, Pending, Committed, Step
<1>5. JournalsFit'
  BY DEF LocalInv, Live, Pending, Committed, Uncommitted, JournalsFit, LocalSound,
     UncommittedJournaled, RecoveryDecides
<1>6. DeletionsFit'
  BY DEF LocalInv, Pending, DeletionsFit, DeletionFits
<1> QED  BY <1>2, <1>3, <1>4, <1>5, <1>6 DEF LocalInv

LEMMA CleanupDeferredPreserves ==
  ASSUME LocalInv, CrewsApart, NEW u \in Uploads, CleanupDeferred(u)
  PROVE  LocalInv'
<1> USE NoUploadIsNone DEF CleanupDeferred, NoFault, files, database, Deferred
<1>1. op' \in [Uploads -> Phases] /\ \A v \in Uploads \ {u} : op'[v] = op[v]
  BY Steps DEF LocalInv, LocalTypes, Phases
<1>2. LocalTypes'
  BY <1>1 DEF LocalInv, LocalTypes
<1>3. RowsFit'
  BY DEF LocalInv, RowsFit, Live, Pending
<1>4. OpsFit'
  BY DEF LocalInv, OpsFit, PhaseFits, InFence, Pending, Committed, Step
<1>5. JournalsFit'
  BY DEF LocalInv, Live, Pending, Committed, Uncommitted, JournalsFit, LocalSound,
     UncommittedJournaled, RecoveryDecides
<1>6. DeletionsFit'
  BY DEF LocalInv, Pending, DeletionsFit, DeletionFits
<1> QED  BY <1>2, <1>3, <1>4, <1>5, <1>6 DEF LocalInv

LEMMA CleanupPreserves ==
  ASSUME LocalInv, CrewsApart, NEW u \in Uploads, Cleanup(u)
  PROVE  LocalInv'
<1> USE NoUploadIsNone DEF Cleanup, NoFault, database, Registered, Deferred
<1>1. op' \in [Uploads -> Phases] /\ \A v \in Uploads \ {u} : op'[v] = op[v]
  BY Steps DEF LocalInv, LocalTypes, Phases
<1>2. LocalTypes'
  BY <1>1 DEF LocalInv, LocalTypes
<1>3. RowsFit'
  BY DEF LocalInv, LocalTypes, RowsFit, Live, Pending
<1>4. OpsFit'
  BY DEF LocalInv, LocalTypes, OpsFit, PhaseFits, InFence, Pending, Step
<1>5. JournalsFit'
  BY DEF LocalInv, LocalTypes, Pending, JournalsFit, LocalSound, UncommittedJournaled,
     RecoveryDecides
<1>6. DeletionsFit'
  BY DEF LocalInv, LocalTypes, RowsFit, Pending, DeletionsFit, DeletionFits
<1> QED  BY <1>2, <1>3, <1>4, <1>5, <1>6 DEF LocalInv

LEMMA FailUploadPreserves ==
  ASSUME LocalInv, CrewsApart, NEW u \in Uploads, FailUpload(u)
  PROVE  LocalInv'
<1> USE NoUploadIsNone DEF FailUpload, NoFault, files
<1>1. op' \in [Uploads -> Phases] /\ \A v \in Uploads \ {u} : op'[v] = op[v]
  BY Steps DEF LocalInv, LocalTypes, Phases
<1>2. LocalTypes'
  BY <1>1 DEF LocalInv, LocalTypes
<1>3. RowsFit'
  BY DEF LocalInv, RowsFit, OpsFit, PhaseFits, Live, Pending
<1>4. OpsFit'
  BY <1>1 DEF LocalInv, OpsFit, PhaseFits, InFence, Pending, Step
<1>5. JournalsFit'
  BY DEF LocalInv, OpsFit, PhaseFits, Pending, JournalsFit, LocalSound, UncommittedJournaled,
     RecoveryDecides
<1>6. DeletionsFit'
  BY DEF LocalInv, Pending, DeletionsFit, DeletionFits
<1> QED  BY <1>2, <1>3, <1>4, <1>5, <1>6 DEF LocalInv

LEMMA CleanupFailsPreserves ==
  ASSUME LocalInv, CrewsApart, NEW u \in Uploads, CleanupFails(u)
  PROVE  LocalInv'
<1> USE NoUploadIsNone DEF CleanupFails, Fault, files, database
<1>1. op' \in [Uploads -> Phases] /\ \A v \in Uploads \ {u} : op'[v] = op[v]
  BY Steps DEF LocalInv, LocalTypes, Phases
<1>2. LocalTypes'
  BY <1>1 DEF LocalInv, LocalTypes
<1>3. RowsFit'
  BY DEF LocalInv, RowsFit, Live, Pending
<1>4. OpsFit'
  BY DEF LocalInv, OpsFit, PhaseFits, InFence, Pending, Committed, Step
<1>5. JournalsFit'
  BY DEF LocalInv, Live, Pending, Committed, Uncommitted, JournalsFit, LocalSound,
     UncommittedJournaled, RecoveryDecides
<1>6. DeletionsFit'
  BY DEF LocalInv, Pending, DeletionsFit, DeletionFits
<1> QED  BY <1>2, <1>3, <1>4, <1>5, <1>6 DEF LocalInv

LEMMA MarkPendingDeletePreserves ==
  ASSUME LocalInv, CrewsApart, NEW u \in Uploads, MarkPendingDelete(u)
  PROVE  LocalInv'
<1> USE NoUploadIsNone DEF MarkPendingDelete, NoFault, memory, files, SharedOpen, Ready
<1>1. op' \in [Uploads -> Phases] /\ \A v \in Uploads \ {u} : op'[v] = op[v]
  BY DEF LocalInv, LocalTypes
<1>2. LocalTypes'
  BY <1>1 DEF LocalInv, LocalTypes
<1>3. RowsFit'
  BY DEF LocalInv, RowsFit, Live, Pending
<1>4. OpsFit'
  BY DEF LocalInv, OpsFit, PhaseFits, Pending
<1>5. JournalsFit'
  BY DEF LocalInv, Pending, JournalsFit, LocalSound, UncommittedJournaled, RecoveryDecides
<1>6. DeletionsFit'
  BY DEF LocalInv, Pending, DeletionsFit, DeletionFits
<1> QED  BY <1>2, <1>3, <1>4, <1>5, <1>6 DEF LocalInv

LEMMA DiscardStagedPreserves ==
  ASSUME LocalInv, CrewsApart, NEW u \in Uploads, DiscardStaged(u)
  PROVE  LocalInv'
<1> USE NoUploadIsNone DEF DiscardStaged, NoFault, memory, database, Recovering
<1>1. op' \in [Uploads -> Phases] /\ \A v \in Uploads \ {u} : op'[v] = op[v]
  BY DEF LocalInv, LocalTypes
<1>2. LocalTypes'
  BY <1>1 DEF LocalInv, LocalTypes
<1>3. RowsFit'
  BY DEF LocalInv, RowsFit, Live, Pending
<1>4. OpsFit'
  BY DEF LocalInv, OpsFit, PhaseFits, Pending
<1>5. JournalsFit'
  BY DEF LocalInv, Live, Pending, Committed, Uncommitted, JournalsFit, LocalSound,
     UncommittedJournaled, RecoveryDecides
<1>6. DeletionsFit'
  BY DEF LocalInv, Pending, DeletionsFit, DeletionFits
<1> QED  BY <1>2, <1>3, <1>4, <1>5, <1>6 DEF LocalInv

LEMMA RollBackPreserves ==
  ASSUME LocalInv, CrewsApart, NEW u \in Uploads, RollBack(u)
  PROVE  LocalInv'
<1> USE NoUploadIsNone DEF RollBack, NoFault, memory, Recovering
<1>1. op' \in [Uploads -> Phases] /\ \A v \in Uploads \ {u} : op'[v] = op[v]
  BY DEF LocalInv, LocalTypes
<1>2. LocalTypes'
  BY <1>1 DEF LocalInv, LocalTypes
<1>3. RowsFit'
  BY DEF LocalInv, LocalTypes, RowsFit, Live, Pending
<1>4. OpsFit'
  BY DEF LocalInv, OpsFit, PhaseFits, Pending
<1>5. JournalsFit'
  BY DEF LocalInv, LocalTypes, Live, Pending, Uncommitted, JournalsFit, LocalSound,
     UncommittedJournaled, RecoveryDecides
<1>6. DeletionsFit'
  BY DEF LocalInv, Pending, DeletionsFit, DeletionFits
<1> QED  BY <1>2, <1>3, <1>4, <1>5, <1>6 DEF LocalInv

LEMMA RecoveryDonePreserves ==
  ASSUME LocalInv, CrewsApart, NEW u \in Uploads, RecoveryDone(u)
  PROVE  LocalInv'
<1> USE NoUploadIsNone DEF RecoveryDone, NoFault, memory, database, Recovering
<1>1. op' \in [Uploads -> Phases] /\ \A v \in Uploads \ {u} : op'[v] = op[v]
  BY DEF LocalInv, LocalTypes
<1>2. LocalTypes'
  BY <1>1 DEF LocalInv, LocalTypes
<1>3. RowsFit'
  BY DEF LocalInv, RowsFit, Live, Pending
<1>4. OpsFit'
  BY DEF LocalInv, OpsFit, PhaseFits, Pending
<1>5. JournalsFit'
  BY DEF LocalInv, Pending, Committed, JournalsFit, LocalSound, UncommittedJournaled,
     RecoveryDecides
<1>6. DeletionsFit'
  BY DEF LocalInv, Pending, DeletionsFit, DeletionFits
<1> QED  BY <1>2, <1>3, <1>4, <1>5, <1>6 DEF LocalInv

LEMMA ReadPendingPreserves ==
  ASSUME LocalInv, CrewsApart, NEW d \in Deleters, NEW u \in Uploads, ReadPending(d, u)
  PROVE  LocalInv'
<1> USE NoUploadIsNone DEF ReadPending, NoFault, memory, files, database, SharedOpen, Ready
<1>1. deleting'[d] = [upload |-> u, step |-> "read"]
        /\ \A e \in Deleters \ {d} : deleting'[e] = deleting[e]
  BY DEF LocalInv, LocalTypes
<1>2. LocalTypes'
  BY DEF LocalInv, LocalTypes
<1>3. RowsFit'
  BY DEF LocalInv, RowsFit, Live, Pending
<1>4. OpsFit'
  BY DEF LocalInv, OpsFit, PhaseFits, Pending, Committed
<1>5. JournalsFit'
  BY DEF LocalInv, JournalsFit, LocalSound, UncommittedJournaled, RecoveryDecides, Live, Pending, Committed, Uncommitted
<1>6. DeletionsFit'
  BY <1>1 DEF LocalInv, LocalTypes, RowsFit, DeletionsFit, DeletionFits, Pending
<1> QED  BY <1>2, <1>3, <1>4, <1>5, <1>6 DEF LocalInv

LEMMA UnlinkPathPreserves ==
  ASSUME LocalInv, CrewsApart, NEW d \in Deleters, UnlinkPath(d)
  PROVE  LocalInv'
<1> USE NoUploadIsNone DEF UnlinkPath, NoFault, memory, files, database
<1>1. deleting'[d].step = "unlinked" /\ deleting'[d].upload = deleting[d].upload
        /\ \A e \in Deleters \ {d} : deleting'[e] = deleting[e]
  BY DEF LocalInv, LocalTypes
<1>d. deleting[d] # NoDelete  BY DEF NoDelete
<1>t. deleting' \in [Deleters -> [upload : Uploads \cup {NoUpload},
                                step : {"idle", "read", "unlinked"}]]
  BY DEF LocalInv, LocalTypes
<1>2. LocalTypes'
  BY <1>t DEF LocalInv, LocalTypes
<1>3. RowsFit'
  BY <1>d DEF LocalInv, LocalTypes, RowsFit, Live, Pending, DeletionsFit, DeletionFits
<1>4. OpsFit'
  BY <1>d DEF LocalInv, LocalTypes, OpsFit, PhaseFits, InFence, Pending, Committed, DeletionsFit, DeletionFits
<1>5. JournalsFit'
  BY <1>d DEF LocalInv, LocalTypes, JournalsFit, LocalSound, UncommittedJournaled, RecoveryDecides, Live, Pending, Committed, Uncommitted, DeletionsFit, DeletionFits
<1>6. DeletionsFit'
  BY <1>1, <1>d DEF LocalInv, LocalTypes, DeletionsFit, DeletionFits, Pending
<1> QED  BY <1>2, <1>3, <1>4, <1>5, <1>6 DEF LocalInv

LEMMA SettleDeletePreserves ==
  ASSUME LocalInv, CrewsApart, NEW d \in Deleters, SettleDelete(d)
  PROVE  LocalInv'
<1> USE NoUploadIsNone DEF SettleDelete, NoFault, memory, files, database
<1>1. deleting'[d] = NoDelete /\ \A e \in Deleters \ {d} : deleting'[e] = deleting[e]
  BY DEF LocalInv, LocalTypes
<1>d. deleting[d] # NoDelete  BY DEF NoDelete
<1>2. LocalTypes'
  BY DEF LocalInv, LocalTypes, NoDelete
<1>3. RowsFit'
  BY <1>d DEF LocalInv, LocalTypes, RowsFit, Live, Pending, DeletionsFit, DeletionFits
<1>4. OpsFit'
  BY <1>d DEF LocalInv, LocalTypes, OpsFit, PhaseFits, InFence, Pending, Committed, DeletionsFit, DeletionFits
<1>5. JournalsFit'
  BY <1>d DEF LocalInv, LocalTypes, JournalsFit, LocalSound, UncommittedJournaled, RecoveryDecides, Live, Pending, Committed, Uncommitted, DeletionsFit, DeletionFits
<1>6. DeletionsFit'
  BY <1>1, <1>d DEF LocalInv, LocalTypes, DeletionsFit, DeletionFits, Pending, CrewsApart
<1> QED  BY <1>2, <1>3, <1>4, <1>5, <1>6 DEF LocalInv

LEMMA DeleteFailsPreserves ==
  ASSUME LocalInv, CrewsApart, NEW d \in Deleters, DeleteFails(d)
  PROVE  LocalInv'
<1> USE NoUploadIsNone DEF DeleteFails, Fault, memory, files, database
<1>1. deleting'[d] = NoDelete /\ \A e \in Deleters \ {d} : deleting'[e] = deleting[e]
  BY DEF LocalInv, LocalTypes
<1>2. LocalTypes'
  BY DEF LocalInv, LocalTypes, NoDelete
<1>3. RowsFit'
  BY DEF LocalInv, RowsFit, Live, Pending
<1>4. OpsFit'
  BY DEF LocalInv, OpsFit, PhaseFits, Pending, Committed
<1>5. JournalsFit'
  BY DEF LocalInv, JournalsFit, LocalSound, UncommittedJournaled, RecoveryDecides, Live, Pending, Committed, Uncommitted
<1>6. DeletionsFit'
  BY <1>1 DEF LocalInv, DeletionsFit, DeletionFits, Pending
<1> QED  BY <1>2, <1>3, <1>4, <1>5, <1>6 DEF LocalInv

LEMMA StopPreserves ==
  ASSUME LocalInv, Stop
  PROVE  LocalInv'
<1> USE NoUploadIsNone DEF Stop, memory, files, database
<1>2. LocalTypes'
  BY DEF LocalInv, LocalTypes, Phases, NoDelete
<1>3. RowsFit'
  BY DEF LocalInv, RowsFit, Live, Pending
<1>4. OpsFit'
  BY DEF LocalInv, LocalTypes, OpsFit, PhaseFits, InFence
<1>5. JournalsFit'
  BY DEF LocalInv, JournalsFit, LocalSound, UncommittedJournaled, RecoveryDecides, Live, Pending, Committed, Uncommitted
<1>6. DeletionsFit'
  BY DEF DeletionsFit, DeletionFits
<1> QED  BY <1>2, <1>3, <1>4, <1>5, <1>6 DEF LocalInv

LEMMA BootPreserves ==
  ASSUME LocalInv, Boot
  PROVE  LocalInv'
<1> USE DEF Boot, NoFault, memory, files, database
<1>2. LocalTypes'
  BY DEF LocalInv, LocalTypes
<1>3. RowsFit'
  BY DEF LocalInv, RowsFit, Live, Pending
<1>4. OpsFit'
  BY DEF LocalInv, OpsFit, PhaseFits, Pending, Committed
<1>5. JournalsFit'
  BY DEF LocalInv, JournalsFit, LocalSound, UncommittedJournaled, RecoveryDecides, Live, Pending, Committed, Uncommitted
<1>6. DeletionsFit'
  BY DEF LocalInv, DeletionsFit, DeletionFits, Pending
<1> QED  BY <1>2, <1>3, <1>4, <1>5, <1>6 DEF LocalInv

-----------------------------------------------------------------------------
LEMMA LocalInit == Init => LocalInv
<1> SUFFICES ASSUME Init PROVE LocalInv  OBVIOUS
<1> USE NoUploadIsNone DEF Init
<1>1. LocalTypes  BY DEF LocalTypes, Phases, NoDelete
<1>2. RowsFit  BY DEF RowsFit, Live
<1>3. OpsFit  BY DEF OpsFit, PhaseFits, InFence
<1>4. JournalsFit
  BY DEF JournalsFit, LocalSound, UncommittedJournaled, RecoveryDecides, Pending
<1>5. DeletionsFit  BY DEF DeletionsFit, DeletionFits
<1> QED  BY <1>1, <1>2, <1>3, <1>4, <1>5 DEF LocalInv

LEMMA PublicationPreserves ==
  ASSUME LocalInv, CrewsApart, NEW u \in Uploads,
         Reserve(u) \/ Receive(u) \/ Publication(u) \/ Failure(u)
  PROVE  LocalInv'
BY ReservePreserves, ReceivePreserves, ReceiveFailsPreserves, EnterFencePreserves,
   CreateJournalPreserves, WriteJournalPreserves, LinkPreserves, FinalizeUploadPreserves,
   PublishFailsPreserves, CommitUnknownPreserves, UnstagePreserves, FinishJournalPreserves,
   UndoPreserves, AbortPreserves, FinishFailsPreserves, CleanupFailsPreserves
   DEF Publication, Failure

LEMMA SettlingPreserves ==
  ASSUME LocalInv, CrewsApart, NEW u \in Uploads,
         \/ StartCleanup(u) \/ CleanupDeferred(u) \/ Cleanup(u) \/ FailUpload(u)
         \/ MarkPendingDelete(u) \/ Recovery(u)
  PROVE  LocalInv'
BY StartCleanupPreserves, CleanupDeferredPreserves, CleanupPreserves, FailUploadPreserves,
   MarkPendingDeletePreserves, DiscardStagedPreserves, RollBackPreserves, RecoveryDonePreserves
   DEF Recovery

LEMMA LocalStep ==
  ASSUME LocalInv, CrewsApart, [Next]_localvars
  PROVE  LocalInv'
<1>1. CASE UNCHANGED localvars
  BY <1>1 DEF localvars, memory, files, database, LocalInv, LocalTypes, RowsFit, OpsFit, PhaseFits,
     JournalsFit, LocalSound, UncommittedJournaled, RecoveryDecides, DeletionsFit, DeletionFits,
     Live, Pending, Committed, Uncommitted
<1>2. CASE Next
  BY <1>2, PublicationPreserves, SettlingPreserves, ReadPendingPreserves, UnlinkPathPreserves,
     SettleDeletePreserves, DeleteFailsPreserves, StopPreserves, BootPreserves
     DEF Next, Crash, OperatorRestart
<1> QED  BY <1>1, <1>2

\* The inductive invariant holds in every reachable state.
THEOREM LocalInvariant ==
  ASSUME CrewsApart
  PROVE  Spec => []LocalInv
<1>1. Init => LocalInv  BY LocalInit
<1>2. LocalInv /\ [Next]_localvars => LocalInv'  BY LocalStep
<1> QED  BY <1>1, <1>2, PTL DEF Spec

\* Whatever interrupts a publication on the Master's own disk, a journal covers
\* the bytes that no committed row owns, and recovery can decide every journal.
THEOREM RecoverySound ==
  ASSUME CrewsApart
  PROVE  Spec => []LocalSound
<1>1. LocalInv => LocalSound  BY DEF LocalInv, JournalsFit
<1> QED  BY <1>1, LocalInvariant, PTL

\* What the catalog serves from the Master's own disk is there, as long as no
\* deletion by the background loop overlaps one by a request.
THEOREM PublishedIsThere ==
  ASSUME CrewsApart
  PROVE  Spec => []PublishedStored
<1>1. LocalInv => PublishedStored  BY DEF LocalInv, RowsFit, PublishedStored
<1> QED  BY <1>1, LocalInvariant, PTL

-----------------------------------------------------------------------------
(* The storage contract.                                                       *)

StagesFit ==
  \A u \in Uploads :
    /\ Stage(u) = "new" <=> session[u] = "new"
    /\ Stage(u) = "reserved" <=> session[u] = "reserved"
    /\ Stage(u) = "released" <=> session[u] = "gone"
    /\ Stage(u) = "published" <=> catalog[u] = "active"
    /\ Stage(u) = "deleting" <=> catalog[u] = "pending_delete"
    /\ Stage(u) = "gone" <=> catalog[u] = "deleted"

LEMMA StageIs ==
  ASSUME LocalTypes, RowsFit
  PROVE  StagesFit
BY DEF LocalTypes, RowsFit, StagesFit, Stage

\* The steps the contract speaks of: one upload's rows move, or its bytes.
RowsMove(u) ==
  /\ UNCHANGED target
  /\ \A v \in Uploads \ {u} : session'[v] = session[v] /\ catalog'[v] = catalog[v]
  /\ \/ session[u] = "new" /\ session'[u] = "reserved"
     \/ session[u] = "reserved" /\ target = u /\ catalog'[u] = "active"
     \/ session[u] = "reserved" /\ target # u /\ session'[u] = "gone"
     \/ catalog[u] = "active" /\ catalog'[u] = "pending_delete"
     \/ catalog[u] = "pending_delete" /\ target # u /\ catalog'[u] = "deleted"

BytesMove(u) ==
  /\ UNCHANGED <<session, catalog>>
  /\ \/ target = NoUpload /\ target' = u /\ session[u] = "reserved"
     \/ /\ target = u /\ target' = NoUpload
        /\ session[u] = "reserved" \/ catalog[u] = "pending_delete"

Quiet == UNCHANGED <<session, catalog, target>>

LEMMA PublicationMoves ==
  ASSUME LocalInv, NEW u \in Uploads,
         Reserve(u) \/ Receive(u) \/ Publication(u) \/ Failure(u)
  PROVE  Quiet \/ RowsMove(u) \/ BytesMove(u)
<1> USE NoUploadIsNone DEF LocalInv, LocalTypes, OpsFit, PhaseFits, NoFault, Fault, memory, files, database, Quiet
<1>1. CASE Reserve(u)  BY <1>1 DEF Reserve, RowsMove
<1>2. CASE Link(u)  BY <1>2 DEF Link, BytesMove
<1>3. CASE FinalizeUpload(u) \/ CommitUnknown(u)
  BY <1>3 DEF FinalizeUpload, CommitUnknown, Registered, RowsMove
<1>4. CASE Undo(u)  BY <1>4 DEF Undo, BytesMove
<1>5. CASE Receive(u) \/ ReceiveFails(u) \/ EnterFence(u) \/ CreateJournal(u) \/ WriteJournal(u)
           \/ PublishFails(u) \/ Unstage(u) \/ FinishJournal(u) \/ Abort(u) \/ FinishFails(u)
           \/ CleanupFails(u)
  BY <1>5 DEF Receive, ReceiveFails, EnterFence, CreateJournal, WriteJournal, PublishFails,
     Unstage, FinishJournal, Abort, FinishFails, CleanupFails
<1> QED  BY <1>1, <1>2, <1>3, <1>4, <1>5 DEF Publication, Failure

LEMMA SettlingMoves ==
  ASSUME LocalInv, NEW u \in Uploads,
         \/ StartCleanup(u) \/ CleanupDeferred(u) \/ Cleanup(u) \/ FailUpload(u)
         \/ MarkPendingDelete(u) \/ Recovery(u)
  PROVE  Quiet \/ RowsMove(u) \/ BytesMove(u)
<1> USE NoUploadIsNone DEF LocalInv, LocalTypes, OpsFit, PhaseFits, NoFault, Fault, memory, files, database, Quiet
<1>1. CASE Cleanup(u)
  <2>1. target = NoUpload
    BY <1>1 DEF Cleanup, Deferred, RowsFit, JournalsFit, LocalSound, UncommittedJournaled, Pending, Live
  <2> QED  BY <1>1, <2>1 DEF Cleanup
<1>2. CASE FailUpload(u)  BY <1>2 DEF FailUpload, RowsMove
<1>3. CASE MarkPendingDelete(u)  BY <1>3 DEF MarkPendingDelete, RowsMove
<1>4. CASE RollBack(u)  BY <1>4 DEF RollBack, RowsMove, BytesMove
<1>5. CASE StartCleanup(u) \/ CleanupDeferred(u) \/ DiscardStaged(u) \/ RecoveryDone(u)
  BY <1>5 DEF StartCleanup, CleanupDeferred, DiscardStaged, RecoveryDone
<1> QED  BY <1>1, <1>2, <1>3, <1>4, <1>5 DEF Recovery

LEMMA DeletionMoves ==
  ASSUME LocalInv, NEW d \in Deleters, UnlinkPath(d) \/ SettleDelete(d)
  PROVE  Quiet \/ \E u \in Uploads : RowsMove(u) \/ BytesMove(u)
<1> USE NoUploadIsNone DEF LocalInv, LocalTypes, NoFault, memory, files, database, Quiet
<1>d. deleting[d] # NoDelete  BY DEF UnlinkPath, SettleDelete, NoDelete
<1>1. DeletionFits(d)  BY DEF DeletionsFit
<1>2. CASE UnlinkPath(d)
  BY <1>d, <1>1, <1>2 DEF UnlinkPath, DeletionFits, BytesMove, RowsFit, Live
<1>3. CASE SettleDelete(d)
  BY <1>d, <1>1, <1>3 DEF SettleDelete, DeletionFits, RowsMove
<1> QED  BY <1>2, <1>3

LEMMA StepMoves ==
  ASSUME LocalInv, [Next]_localvars
  PROVE  Quiet \/ \E u \in Uploads : RowsMove(u) \/ BytesMove(u)
<1>1. CASE UNCHANGED localvars  BY <1>1 DEF localvars, files, database, Quiet
<1>2. CASE \E d \in Deleters : (\E u \in Uploads : ReadPending(d, u)) \/ DeleteFails(d)
  BY <1>2 DEF ReadPending, DeleteFails, files, database, Quiet
<1>3. CASE Crash \/ OperatorRestart \/ Boot
  BY <1>3 DEF Crash, OperatorRestart, Stop, Boot, files, database, Quiet
<1> QED  BY <1>1, <1>2, <1>3, PublicationMoves, SettlingMoves, DeletionMoves DEF Next

LEMMA MovesMeetContract ==
  ASSUME LocalInv, LocalInv', NEW u \in Uploads, RowsMove(u) \/ BytesMove(u)
  PROVE  [Contract!Next]_(Contract!vars)
<1>s. StagesFit  BY StageIs DEF LocalInv
<1>t. StagesFit'  BY DEF LocalInv, LocalTypes, RowsFit, StagesFit, Stage
<1>r. RowsFit /\ RowsFit' /\ LocalTypes /\ LocalTypes'  BY DEF LocalInv
<1> DEFINE stages == [v \in Uploads |-> Stage(v)]
           held == {v \in Uploads : target = v}
<1>1. CASE RowsMove(u)
  <2>1. \A v \in Uploads \ {u} : Stage(v)' = Stage(v)  BY <1>1 DEF RowsMove, Stage
  <2>2. held' = held  BY <1>1 DEF RowsMove
  <2>3. stages' = [stages EXCEPT ![u] = Stage(u)']  BY <2>1
  <2>4. \/ Stage(u) = "new" /\ Stage(u)' = "reserved"
        \/ Stage(u) = "reserved" /\ target = u /\ Stage(u)' = "published"
        \/ Stage(u) = "reserved" /\ target # u /\ Stage(u)' = "released"
        \/ Stage(u) = "published" /\ Stage(u)' = "deleting"
        \/ Stage(u) = "deleting" /\ target # u /\ Stage(u)' = "gone"
    BY <1>1, <1>s, <1>t DEF StagesFit, RowsMove
  <2>5. \/ Contract!Reserve(u) \/ Contract!Publish(u) \/ Contract!Release(u)
        \/ Contract!Delete(u) \/ Contract!Forget(u)
    BY <2>2, <2>3, <2>4 DEF Contract!Reserve, Contract!Publish, Contract!Release,
       Contract!Delete, Contract!Forget, Contract!Moves
  <2> QED  BY <2>5 DEF Contract!Next
<1>2. CASE BytesMove(u)
  <2>1. stages' = stages  BY <1>2 DEF BytesMove, Stage
  <2>2. CASE target' = u
    <3>1. held' = held \cup {u}  BY <1>2, <2>2, NoUploadIsNone DEF BytesMove
    <3>2. Stage(u) = "reserved"  BY <1>2, <1>s, <2>2, NoUploadIsNone DEF BytesMove, StagesFit
    <3>3. Contract!Arrive(u)  BY <2>1, <3>1, <3>2 DEF Contract!Arrive
    <3> QED  BY <3>3 DEF Contract!Next
  <2>3. CASE target' # u
    <3>1. held = {u} /\ held' = {}  BY <1>2, <2>3, NoUploadIsNone DEF BytesMove
    <3>2. Stage(u) \in {"reserved", "deleting"}  BY <1>2, <1>s, <2>3 DEF BytesMove, StagesFit
    <3>3. Contract!Vanish({u})  BY <2>1, <3>1, <3>2 DEF Contract!Vanish
    <3> QED  BY <3>3 DEF Contract!Next
  <2> QED  BY <2>2, <2>3
<1> QED  BY <1>1, <1>2

\* The Master's own disk keeps StorageContract: every step reserves, publishes,
\* releases or deletes one object as the contract says, or changes nothing it
\* speaks of, interrupted publications and their recovery included.
THEOREM LocalContractKept ==
  ASSUME CrewsApart
  PROVE  Spec => LocalImplementsContract
<1>1. Init => Contract!Init
  <2> SUFFICES ASSUME Init PROVE Contract!Init  OBVIOUS
  <2> QED  BY NoUploadIsNone DEF Init, Contract!Init, Stage
<1>2. ASSUME LocalInv, LocalInv', [Next]_localvars PROVE [Contract!Next]_(Contract!vars)
  <2>1. CASE Quiet  BY <2>1 DEF Quiet, Stage, Contract!vars
  <2> QED  BY <1>2, <2>1, StepMoves, MovesMeetContract
<1> QED  BY <1>1, <1>2, LocalInvariant, PTL DEF Spec, LocalImplementsContract, Contract!Spec

=============================================================================
