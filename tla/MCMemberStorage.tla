--------------------------- MODULE MCMemberStorage ---------------------------
(* What a Master and the members that store its media do together: a behaviour  *)
(* picks one of two and runs its specification, while the variables of the      *)
(* other rest.                                                                  *)
(*                                                                              *)
(*   uploads    two uploads of different sizes that want the same path one      *)
(*              after the other, under an allocation that holds either but not  *)
(*              both                                                            *)
(*   migration  two units, the fewest of which the order matters: a             *)
(*              cancellation may find one moved and the other under way         *)
EXTENDS MigrationCancel, UploadState, TLC

VARIABLES
  service,      \* the one of this behaviour
  unet, ufaults \* those of the uploads

SizeOf == "a" :> 1 @@ "b" :> 2

SU == INSTANCE StorageUpload WITH MaxFaults <- 1, net <- unet, faults <- ufaults

uvars == <<masterDb, masterOps, disk, followerDb, fop, unet, ufaults>>

(* The one that rests stays in one of its initial states, always the same.      *)
SuiteInit ==
  /\ service \in {"uploads", "migration"}
  /\ CancelInit /\ SU!Init
  /\ service # "uploads" => transport = "Direct"

SuiteNext ==
  \/ /\ service = "uploads" /\ SU!Next
     /\ UNCHANGED <<service, allVars>>
  \/ /\ service = "migration" /\ CancelNext
     /\ UNCHANGED <<service, uvars>>

suitevars == <<service, uvars, allVars>>

SuiteSpec == SuiteInit /\ [][SuiteNext]_suitevars

-----------------------------------------------------------------------------
(* What is checked of the uploads is in UploadState, of the migration in its    *)
(* modules.                                                                     *)

(* A migration and its cancellation end (MigrationCancel), under the fairness   *)
(* that module states, asked of the behaviours that run it.                     *)
MigrationGoesOn ==
  /\ WF_allVars(service = "migration" /\ MasterGoesOn)
  /\ WF_allVars(service = "migration" /\ PeersGoOn)
  /\ WF_allVars(service = "migration" /\ TrafficEnds)

MigrationSettles == service = "migration" /\ MigrationGoesOn => Settles
=============================================================================
