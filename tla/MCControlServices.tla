-------------------------- MODULE MCControlServices --------------------------
(* The control services, which do not share state with one another either, each *)
(* on a small instance of its own: a behaviour picks one of them and runs its   *)
(* specification, while the variables of the others rest.                       *)
(*                                                                              *)
(*   federation  a Master and a Follower that pair twice                        *)
(*   upgrade     an upgrade and its recovery, over two payloads                 *)
(*   admission   a task of two units                                            *)
(*   security    one address, one request at a time and the two loops           *)
EXTENDS Federation, OpState, AdmState, SecState, Sequences, FiniteSets

VARIABLE part   \* the service of this behaviour

Upgrade == INSTANCE OperatorUpgrade WITH MaxWrites <- 2

Admission == INSTANCE MigrationAdmission WITH MaxWrites <- 1, MaxMishaps <- 1

Security == INSTANCE IpSecurity WITH MaxChanges <- 2, MaxTroubles <- 1

Parts == {"federation", "upgrade", "admission", "security"}

(* A service that rests stays in one of its initial states, always the same.    *)
SuiteInit ==
  /\ part \in Parts
  /\ Init /\ Upgrade!Init /\ Admission!Init /\ Security!Init
  /\ part # "security" => policy = [i \in Ips |-> Security!Blank]

SuiteNext ==
  \/ /\ part = "federation" /\ Next
     /\ UNCHANGED <<part, opvars, admvars, secvars>>
  \/ /\ part = "upgrade" /\ Upgrade!Next
     /\ UNCHANGED <<part, fedvars, admvars, secvars>>
  \/ /\ part = "admission" /\ Admission!Next
     /\ UNCHANGED <<part, fedvars, opvars, secvars>>
  \/ /\ part = "security" /\ Security!Next
     /\ UNCHANGED <<part, fedvars, opvars, admvars>>

suitevars == <<part, fedvars, opvars, admvars, secvars>>

SuiteSpec == SuiteInit /\ [][SuiteNext]_suitevars

-----------------------------------------------------------------------------
(* Each service's fairness as its own module states it, asked of the behaviours *)
(* that run it.                                                                 *)
FedGoesOn ==
  /\ WF_fedvars(part = "federation" /\ Tick)
  /\ WF_fedvars(part = "federation" /\ Steps("loop"))
  /\ WF_fedvars(part = "federation" /\ HandleLoop)
  /\ WF_fedvars(part = "federation" /\ Late)

UpgradeGoesOn ==
  /\ WF_opvars(part = "upgrade" /\ Upgrade!Start) /\ WF_opvars(part = "upgrade" /\ Upgrade!Rises)
  /\ WF_opvars(part = "upgrade" /\ Upgrade!BusinessFinishes)
  /\ SF_opvars(part = "upgrade" /\ Upgrade!HelperMigrates)
  /\ SF_opvars(part = "upgrade" /\ (Upgrade!Forward \/ Upgrade!Recovery))
  /\ SF_opvars(part = "upgrade" /\ Upgrade!BackupEnds)
  /\ SF_opvars(part = "upgrade" /\ Upgrade!RestoreEnds)
  /\ SF_opvars(part = "upgrade" /\ Upgrade!SavePrepared)
  /\ SF_opvars(part = "upgrade" /\ Upgrade!Preflight)
  /\ SF_opvars(part = "upgrade" /\ Upgrade!SelectFence)
  /\ SF_opvars(part = "upgrade" /\ Upgrade!LinkFence)

AdmissionGoesOn == WF_admvars(part = "admission" /\ Admission!Runs)

AdministratorRetries == WF_admvars(part = "admission" /\ Admission!Retry)

SecurityGoesOn ==
  /\ WF_secvars(part = "security" /\ Security!Loops)
  /\ WF_secvars(part = "security" /\ Security!Recover)
  /\ \A t \in Security!Tasks : WF_secvars(part = "security" /\ Security!Works(t))
  /\ \A i \in Ips : SF_secvars(part = "security" /\ Security!RetryIp(i))
  /\ \A k \in Security!Keys : WF_secvars(part = "security" /\ Security!LockExpires(k))

-----------------------------------------------------------------------------
(* The properties, under the names the services' modules give them; each        *)
(* liveness property under the fairness its own module states; what is said of  *)
(* single states is in Federation, OpState, AdmState and SecState.              *)

(* Pairing ends and a revocation is acknowledged (Federation).                  *)
PairingSettles == part = "federation" /\ FedGoesOn => FedSettles

(* An upgrade ends (OperatorUpgrade).                                           *)
OpSettles == part = "upgrade" /\ UpgradeGoesOn => Upgrade!OpSettles

(* An admission and the cancellation of one end or ask for the administrator,   *)
(* and a cancellation that is retried is carried out (MigrationAdmission).      *)
AdmSettles ==
  part = "admission" /\ AdmissionGoesOn =>
    Admission!AdmSettles /\ (AdministratorRetries => Admission!CancelSettles)

(* What Redis and the edge serve becomes the policy (IpSecurity).               *)
SecSettles == part = "security" /\ SecurityGoesOn => Security!SecSettles
=============================================================================
