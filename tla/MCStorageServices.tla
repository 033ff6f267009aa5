-------------------------- MODULE MCStorageServices --------------------------
(* The storage services that do not share state with one another, each on a     *)
(* small instance of its own: a behaviour picks one of them and runs its        *)
(* specification, while the variables of the others rest.                       *)
(*                                                                              *)
(*   fence        four tasks: two that hold the fence shared, a queued writer,  *)
(*                and a fourth that arrives while the others are being woken    *)
(*   quota        three uploads of two sizes over allocations that hold two of  *)
(*                them, so that a wrong counter admits one that does not fit    *)
(*   uploads      one upload with liveness (MCMemberStorage: two, without)      *)
(*   publication  two uploads of one size that want the same path, so that a    *)
(*                file of the one could pass for a file of the other            *)
(*   s3           one upload session of an S3 member                            *)
(*   karaoke      one recording, one request at a time and a visitor, with a    *)
(*                ban and a failure                                             *)
(*   duet         one recording, a request that stores it, one that removes it  *)
(*                and a visitor at once                                         *)
(*   rename       one rename of a folder on the Master and on two Followers, so *)
(*                that one member's trouble can reach another                   *)
(*   renames      two renames, one after the other, on the Master and a         *)
(*                Follower, so that a second one meets what the first one left   *)
EXTENDS MediaFence, QuotaState, S3State, LocalState, KarState, RenState, TLC

VARIABLES
  service,      \* the service of this behaviour
  transport, usession, ucatalog, path, mop, reply, udeleting, urow, indexed, utarget, upart,
  durable, fUsed, fReserved, fop, net, ufaults

QuotaSize == "a" :> 1 @@ "b" :> 1 @@ "c" :> 2
RenHome == "a" :> "master" @@ "b" :> "f1" @@ "c" :> "f2"

MQ == INSTANCE MemberQuota WITH Deleters <- {"d1", "d2"}, Databases <- {"MySQL", "SQLite"}

SU == INSTANCE StorageUpload WITH
  Uploads <- {"a"}, Paths <- {"p"}, Size <- "a" :> 1, Allocated <- 2, Deleters <- {"d1", "d2"},
  Transports <- {"Direct", "Relay"}, LateRequests <- FALSE, MaxFaults <- 2,
  NoUpload <- "none", NoPath <- "none",
  session <- usession, catalog <- ucatalog, deleting <- udeleting, row <- urow,
  target <- utarget, part <- upart, faults <- ufaults

LP == INSTANCE LocalPublication WITH
  Size <- "a" :> 1 @@ "b" :> 1, Deleters <- {"d1", "d2"},
  Crews <- {[request |-> {"d1", "d2"}, loop |-> {}], [request |-> {}, loop |-> {"d1"}]},
  MaxFaults <- 3

S3 == INSTANCE S3Storage WITH Quota <- 1, MaxFaults <- 2

Stores == {"ticket", "relay", "finalize"}
Removes == {"cancel", "delete", "close"}

Kar == INSTANCE Karaoke WITH
  Requests <- {"q1"}, Asks <- "q1" :> {"ticket", "finalize", "close"},
  Quota <- 1, Allocated <- 1, MaxSanctions <- 1, MaxFailures <- 1

Duet == INSTANCE Karaoke WITH
  Requests <- {"q1", "q2"}, Asks <- "q1" :> Stores @@ "q2" :> Removes,
  Quota <- 1, Allocated <- 1, MaxSanctions <- 0, MaxFailures <- 0

Rename == INSTANCE DirectoryRename WITH Files <- DOMAIN Home, MaxRenames <- 1, MaxFaults <- 1

Renames == INSTANCE DirectoryRename WITH Files <- {"a", "b"}, MaxRenames <- 2, MaxFaults <- 2

fvars == vars
uvars == <<transport, usession, ucatalog, path, mop, reply, udeleting, urow, indexed, utarget,
           upart, durable, fUsed, fReserved, fop, net, ufaults>>

Services ==
  {"fence", "quota", "uploads", "publication", "s3", "karaoke", "duet", "rename", "renames"}

(* A service that rests stays in one of its initial states, always the same, and *)
(* the folder's first name is "old": a rename treats its names alike.            *)
SuiteInit ==
  /\ service \in Services
  /\ Init /\ MQ!Init /\ SU!Init /\ LP!Init /\ S3!Init
  /\ IF service = "duet" THEN Duet!Init ELSE Kar!Init
  /\ IF service = "rename" THEN Rename!Init ELSE Renames!Init
  /\ service # "quota" => engine = "SQLite" /\ allocated = 2
  /\ service # "uploads" => transport = "Direct"
  /\ service # "publication" => crew.loop = {}
  /\ \A x \in DOMAIN entry : entry[x].name # "new"
  /\ service \notin {"rename", "renames"} => \A x \in DOMAIN entry : Stored(x)

SuiteNext ==
  \/ /\ service = "fence" /\ Next
     /\ UNCHANGED <<service, quotavars, uvars, localvars, s3vars, karvars, renvars>>
  \/ /\ service = "quota" /\ MQ!Next
     /\ UNCHANGED <<service, fvars, uvars, localvars, s3vars, karvars, renvars>>
  \/ /\ service = "uploads" /\ SU!Next
     /\ UNCHANGED <<service, fvars, quotavars, localvars, s3vars, karvars, renvars>>
  \/ /\ service = "publication" /\ LP!Next
     /\ UNCHANGED <<service, fvars, quotavars, uvars, s3vars, karvars, renvars>>
  \/ /\ service = "s3" /\ S3!Next
     /\ UNCHANGED <<service, fvars, quotavars, uvars, localvars, karvars, renvars>>
  \/ /\ service = "karaoke" /\ Kar!Next
     /\ UNCHANGED <<service, fvars, quotavars, uvars, localvars, s3vars, renvars>>
  \/ /\ service = "duet" /\ Duet!Next
     /\ UNCHANGED <<service, fvars, quotavars, uvars, localvars, s3vars, renvars>>
  \/ /\ service = "rename" /\ Rename!Next
     /\ UNCHANGED <<service, fvars, quotavars, uvars, localvars, s3vars, karvars>>
  \/ /\ service = "renames" /\ Renames!Next
     /\ UNCHANGED <<service, fvars, quotavars, uvars, localvars, s3vars, karvars>>

suitevars == <<service, fvars, quotavars, uvars, localvars, s3vars, karvars, renvars>>

SuiteSpec == SuiteInit /\ [][SuiteNext]_suitevars

-----------------------------------------------------------------------------
(* Each service's fairness as its own module states it, asked of the behaviours *)
(* that run it.                                                                 *)
FenceGoesOn ==
  \A t \in Tasks :
    /\ WF_fvars(service = "fence" /\ (WakeWrite(t) \/ WakeRead(t) \/ SleepAgain(t)))
    /\ WF_fvars(service = "fence" /\ Leave(t)) /\ WF_fvars(service = "fence" /\ Release(t))

SUGoesOn ==
  /\ WF_uvars(service = "uploads" /\ SU!MasterGoesOn("a"))
  /\ WF_uvars(service = "uploads" /\ SU!HandlerStep("a"))
  /\ WF_uvars(service = "uploads" /\ SU!SweepExpired("a"))
  /\ \A d \in {"d1", "d2"} : /\ WF_uvars(service = "uploads" /\ SU!RetryPendingMedia(d, "a"))
                            /\ WF_uvars(service = "uploads" /\ SU!SettleDelete(d))
  /\ \A r \in SU!Requests : WF_uvars(service = "uploads" /\ SU!Receive(r))
  /\ <>[][~(service = "uploads" /\ (SU!StartRelay("a") \/ SU!StartFinalize("a")
                                 \/ SU!CancelUpload("a")))]_uvars

LPGoesOn ==
  /\ \A u \in {"a", "b"} :
       /\ WF_localvars(service = "publication" /\ LP!Publication(u))
       /\ WF_localvars(service = "publication" /\ LP!ReceiveFails(u))
       /\ WF_localvars(service = "publication" /\ LP!FinishFails(u))
       /\ WF_localvars(service = "publication" /\ (LP!CleanupDeferred(u) \/ LP!Cleanup(u)
                                            \/ LP!FailUpload(u)))
       /\ WF_localvars(service = "publication" /\ LP!StartCleanup(u))
       /\ WF_localvars(service = "publication" /\ LP!Recovery(u))
       /\ \A d \in {"d1", "d2"} :
            WF_localvars(service = "publication" /\ d \in crew.loop /\ LP!ReadPending(d, u))
       /\ <>[][~(service = "publication" /\ LP!Receive(u))]_localvars
  /\ \A d \in {"d1", "d2"} : /\ WF_localvars(service = "publication" /\ LP!UnlinkPath(d))
                            /\ WF_localvars(service = "publication" /\ LP!SettleDelete(d))
  /\ WF_localvars(service = "publication" /\ LP!OperatorRestart)
  /\ WF_localvars(service = "publication" /\ LP!Boot)

S3GoesOn ==
  /\ WF_s3vars(service = "s3" /\ S3!Works("s1")) /\ WF_s3vars(service = "s3" /\ S3!Expire("s1"))
  /\ WF_s3vars(service = "s3" /\ S3!GrantsEnd("s1"))
  /\ \A r \in S3!Mutations \cup {"put"} : WF_s3vars(service = "s3" /\ S3!Served("s1", r))

KarGoesOn ==
  /\ \A h \in Kar!Handlers : WF_karvars(service = "karaoke" /\ Kar!Step(h))
  /\ WF_karvars(service = "karaoke" /\ Kar!Receives("r1"))
  /\ WF_karvars(service = "karaoke" /\ Kar!Expire("r1"))
  /\ WF_karvars(service = "karaoke" /\ Kar!Visit("status"))

DuetGoesOn ==
  /\ \A h \in Duet!Handlers : WF_karvars(service = "duet" /\ Duet!Step(h))
  /\ WF_karvars(service = "duet" /\ Duet!Receives("r1"))
  /\ WF_karvars(service = "duet" /\ Duet!Expire("r1"))
  /\ WF_karvars(service = "duet" /\ Duet!Visit("status"))

-----------------------------------------------------------------------------
(* The properties, under the names the services' modules give them; each        *)
(* liveness property under the fairness its own module states.                  *)

(* Tasks that wait at the fence get in (MediaFence).                            *)
WaitersGetIn == service = "fence" /\ FenceGoesOn => WaitersServed

(* A reservation at a Follower ends, published or released (StorageUpload).     *)
ReservationResolves ==
  service = "uploads" /\ SUGoesOn => SU!ReservationResolves

(* A deletion at a Follower ends (StorageUpload).                               *)
DeletionConverges ==
  service = "uploads" /\ SUGoesOn => SU!DeletionConverges

(* A Master that died is served again unless a journal was torn                 *)
(* (LocalPublication).                                                          *)
RecoversUntorn ==
  service = "publication" /\ LPGoesOn => LP!RecoversUntorn

(* A deletion on the Master's own disk ends (LocalPublication).                 *)
LocalDeletionConverges ==
  service = "publication" /\ LPGoesOn => LP!DeletionConverges

(* Whatever an S3 upload left is settled (S3Storage).                           *)
S3Settles == service = "s3" /\ S3GoesOn => S3!S3Settles

(* The deletion of an account ends (Karaoke).                                   *)
KarSettles ==
  /\ service = "karaoke" /\ KarGoesOn => Kar!KarSettles
  /\ service = "duet" /\ DuetGoesOn => Duet!KarSettles
=============================================================================
