-------------------------- MODULE Federation_proof --------------------------
(* Proofs about Federation for every number of packages, transports and lost  *)
(* answers.                                                                    *)
EXTENDS Federation, TLAPS

-----------------------------------------------------------------------------
(* The inductive invariant.                                                    *)

MasterRows ==
    [id : Nat, state : {"none", "pending", "active", "retiring", "revoked"}, acked : BOOLEAN,
     late : BOOLEAN, mode : Transports, ret : {"none", "retiring", "completed"}]

FollowerRows ==
    [id : Nat, state : {"none", "pending", "active", "retiring", "revoked"},
     mode : Transports, ret : {"none", "retiring", "completed"},
     role : {"Follower", "Standalone"}]

Kinds == {"pair", "confirm", "revoke", "heartbeat", "check", "status", "begin", "complete"}

AfterKinds == {"sendConfirm", "activate", "ack", "beginMaster", "sendBegin", "sendComplete",
               "finish"}

Requests == [by : Workers, kind : Kinds, id : Nat, mode : Transports, package : Packages \cup {1}]

FedTypes ==
    /\ mrow \in MasterRows
    /\ frow \in FollowerRows
    /\ workers \in [Workers -> [at : Kinds \cup AfterKinds \cup {"idle"}, id : Nat]]
    /\ wire \subseteq Requests
    /\ stock \in [row : BOOLEAN, upload : BOOLEAN, token : BOOLEAN,
                  put : {"none", "checked", "writing"}, file : BOOLEAN]

\* The Follower knows the Master's relationship, or the one before it, which ended.
SameOrPrevious ==
    \/ frow.id = mrow.id
    \/ /\ mrow.state \in {"pending", "revoked"} /\ ~mrow.acked
       /\ frow.id < mrow.id
       /\ frow.ret = "none"

\* Every request is under the Master's identifier of now or an earlier one.
IdsPast ==
    /\ \A r \in wire : r.id <= mrow.id
    /\ \A w \in Workers : workers[w].id <= mrow.id

\* An identifier is offered to the Follower once.
PairsOnce ==
    \A r \in wire : r.kind = "pair" =>
        /\ r.id = mrow.id /\ frow.id # mrow.id
        /\ \A q \in wire : q.kind = "pair" => q = r

\* What the Follower confirmed or revoked it does not take back under this identifier.
Confirmed == frow.id = mrow.id /\ frow.state \in {"active", "retiring", "revoked"}
Withdrawn == frow.id = mrow.id /\ frow.state = "revoked"

AnswersHold ==
    \A w \in Workers :
        /\ At(w, "activate") /\ workers[w].id = mrow.id => Confirmed
        /\ At(w, "ack") /\ workers[w].id = mrow.id => Withdrawn
        /\ At(w, "finish") => frow.ret = "completed"

\* Once the Master has begun to retire the member, its row stays the same one.
Retirement == {"status", "begin", "complete", "sendBegin", "sendComplete", "finish"}

RetirementBegan ==
    /\ \A r \in wire : r.kind \in Retirement => mrow.ret # "none" /\ r.id = mrow.id
    /\ \A w \in Workers : workers[w].at \in Retirement => mrow.ret # "none"

RowsFit ==
    /\ mrow.acked => mrow.state = "revoked" /\ Withdrawn
    /\ mrow.ret # "none" => mrow.state \in {"retiring", "revoked"}
    /\ mrow.state \in {"active", "retiring"} => Confirmed
    /\ frow.ret = "completed" \/ frow.role = "Standalone" => frow.state = "revoked"
    /\ frow.ret = "retiring" => frow.state = "retiring"
    /\ mrow.state = "none" => mrow.id = 0
    /\ mrow.id = 0 => mrow.state = "none"

FedInv ==
    /\ FedTypes /\ SameOrPrevious /\ IdsPast /\ PairsOnce /\ AnswersHold /\ RetirementBegan /\ RowsFit
    /\ FedSound

-----------------------------------------------------------------------------
(* What the Follower's handler does, request by request.                       *)

\* The Follower's row after a request was handled.
LEMMA HandleRow ==
  ASSUME FedTypes, NEW r \in wire, Handle(r)
  PROVE  \/ frow' = frow
         \/ /\ r.kind = "pair" /\ Consumes(r)
            /\ frow' = [frow EXCEPT !.id = r.id, !.state = "pending", !.mode = "Relay"]
         \/ r.kind = "confirm" /\ Confirms(r) /\ frow' = [frow EXCEPT !.state = "active"]
         \/ r.kind = "revoke" /\ Revokes(r) /\ frow' = [frow EXCEPT !.state = "revoked"]
         \/ r.kind = "heartbeat" /\ Heartbeats(r) /\ frow' = [frow EXCEPT !.mode = r.mode]
         \/ /\ r.kind = "begin" /\ Begins(r)
            /\ frow' = [frow EXCEPT !.state = "retiring", !.ret = "retiring"]
         \/ /\ r.kind = "complete" /\ Completes(r)
            /\ frow' = [frow EXCEPT !.state = "revoked", !.ret = "completed"]
<1>1. r.kind \in Kinds  BY DEF FedTypes, Requests
<1>2. frow' = IF Accepted(r) THEN After(r) ELSE frow  BY DEF Handle
<1>3. CASE r.kind = "pair"  BY <1>2, <1>3 DEF Accepted, After
<1>4. CASE r.kind = "confirm"  BY <1>2, <1>4 DEF Accepted, After
<1>5. CASE r.kind = "revoke"  BY <1>2, <1>5 DEF Accepted, After
<1>6. CASE r.kind = "heartbeat"  BY <1>2, <1>6 DEF Accepted, After
<1>7. CASE r.kind = "check"  BY <1>2, <1>7 DEF Accepted, After
<1>8. CASE r.kind = "status"  BY <1>2, <1>8 DEF Accepted, After
<1>9. CASE r.kind = "begin"  BY <1>2, <1>9 DEF Accepted, After
<1>10. CASE r.kind = "complete"  BY <1>2, <1>10 DEF Accepted, After
<1> QED  BY <1>1, <1>3, <1>4, <1>5, <1>6, <1>7, <1>8, <1>9, <1>10 DEF Kinds

\* The worker that waits for the answer goes on, or gives up.
LEMMA HandleWorker ==
  ASSUME FedTypes, NEW r \in wire, Handle(r)
  PROVE  \/ workers' = workers
         \/ workers' = [workers EXCEPT ![r.by] = Nothing]
         \/ /\ workers[r.by] = [at |-> r.kind, id |-> r.id]
            /\ Accepted(r) /\ r.kind # "heartbeat"
            /\ workers' = [workers EXCEPT ![r.by].at = AnswerStep(r)]
BY DEF Handle, Awaited, Ends, Proceeds

\* The step it goes on with, and what the Follower's row is then.
LEMMA HandleStep ==
  ASSUME FedTypes, NEW r \in wire, Handle(r), Accepted(r), r.kind # "heartbeat"
  PROVE  /\ AnswerStep(r) \in AfterKinds
         /\ AnswerStep(r) = "activate" => r.kind = "confirm" /\ Confirms(r) /\ frow'.id = r.id /\ frow'.state = "active"
         /\ AnswerStep(r) = "ack" => Revokes(r) /\ frow'.id = r.id /\ frow'.state = "revoked"
         /\ AnswerStep(r) = "finish" => frow'.ret = "completed"
         /\ AnswerStep(r) \in Retirement => r.kind \in Retirement
<1>1. r.kind \in Kinds  BY DEF FedTypes, Requests
<1>2. frow' = After(r)  BY DEF Handle
<1>f. frow \in FollowerRows  BY DEF FedTypes
<1>3. CASE r.kind = "pair"
  <2>1. AnswerStep(r) = "sendConfirm"
    BY <1>3 DEF AnswerStep
  <2> QED  BY <1>3, <2>1 DEF AfterKinds, Retirement
<1>4. CASE r.kind = "confirm"
  <2>1. AnswerStep(r) = "activate"
    BY <1>4 DEF AnswerStep
  <2>2. frow' = [frow EXCEPT !.state = "active"] /\ Confirms(r)
    BY <1>2, <1>4 DEF Accepted, After
  <2> QED  BY <1>4, <1>f, <2>1, <2>2 DEF AfterKinds, Retirement, FollowerRows, Known, Confirms
<1>5. CASE r.kind = "revoke"
  <2>1. AnswerStep(r) = "ack"
    BY <1>5 DEF AnswerStep
  <2>2. frow' = [frow EXCEPT !.state = "revoked"] /\ Revokes(r)
    BY <1>2, <1>5 DEF Accepted, After
  <2> QED  BY <1>5, <1>f, <2>1, <2>2 DEF AfterKinds, Retirement, FollowerRows, Known, Revokes
<1>7. CASE r.kind = "check"
  <2>1. AnswerStep(r) = "beginMaster"
    BY <1>7 DEF AnswerStep
  <2> QED  BY <1>7, <2>1 DEF AfterKinds, Retirement
<1>8. CASE r.kind = "status"
  <2>1. AnswerStep(r) = IF frow.ret = "none" THEN "sendBegin"
                            ELSE IF frow.ret = "completed" THEN "finish" ELSE "sendComplete"
    BY <1>8 DEF AnswerStep
  <2>2. frow' = frow
    BY <1>2, <1>8 DEF Accepted, After
  <2> QED  BY <1>8, <1>f, <2>1, <2>2 DEF AfterKinds, Retirement, FollowerRows, Known
<1>9. CASE r.kind = "begin"
  <2>1. AnswerStep(r) = "sendComplete"
    BY <1>9 DEF AnswerStep
  <2> QED  BY <1>9, <2>1 DEF AfterKinds, Retirement
<1>10. CASE r.kind = "complete"
  <2>1. AnswerStep(r) = "finish"
    BY <1>10 DEF AnswerStep
  <2>2. frow' = [frow EXCEPT !.state = "revoked", !.ret = "completed"] /\ Completes(r)
    BY <1>2, <1>10 DEF Accepted, After
  <2> QED  BY <1>10, <1>f, <2>1, <2>2 DEF AfterKinds, Retirement, FollowerRows, Known, Completes
<1> QED  BY <1>1, <1>3, <1>4, <1>5, <1>7, <1>8, <1>9, <1>10 DEF Kinds

-----------------------------------------------------------------------------
(* Types.                                                                      *)

LEMMA HandleTyped ==
  ASSUME FedTypes, NEW r \in wire, Handle(r)
  PROVE  FedTypes'
<1>1. r.id \in Nat /\ r.mode \in Transports /\ r.by \in Workers
  BY DEF FedTypes, Requests
<1>2. frow' \in FollowerRows
  <2>1. "Relay" \in Transports /\ frow \in FollowerRows  BY DEF FedTypes, Transports
  <2> HIDE DEF Transports
  <2> QED  BY <1>1, <2>1, HandleRow DEF FollowerRows
<1>w. wire' = wire \ {r} /\ mrow' = mrow /\ stock' = stock  BY DEF Handle
<1> DEFINE Ats == Kinds \cup AfterKinds \cup {"idle"}
<1>3. workers \in [Workers -> [at : Ats, id : Nat]]  BY DEF FedTypes
<1>4. workers' \in [Workers -> [at : Ats, id : Nat]]
  <2>1. CASE workers' = [workers EXCEPT ![r.by] = Nothing]
    <3>1. Nothing \in [at : Ats, id : Nat]  BY DEF Nothing
    <3> HIDE DEF Ats
    <3> QED  BY <1>1, <1>3, <2>1, <3>1
  <2>2. CASE Accepted(r) /\ r.kind # "heartbeat"
             /\ workers' = [workers EXCEPT ![r.by].at = AnswerStep(r)]
    <3>1. AnswerStep(r) \in Ats  BY <2>2, HandleStep
    <3> HIDE DEF Ats
    <3> QED  BY <1>1, <1>3, <2>2, <3>1
  <2> QED  BY <1>3, <2>1, <2>2, HandleWorker
<1> QED  BY <1>2, <1>4, <1>w DEF FedTypes

\* A worker sends a request.
LEMMA SendsTyped ==
  ASSUME FedTypes, NEW w \in Workers, NEW kind \in Kinds, NEW row \in MasterRows,
         NEW p \in Packages \cup {1}, Sends(w, kind, row, p)
  PROVE  /\ wire' \subseteq Requests
         /\ workers' \in [Workers -> [at : Kinds \cup AfterKinds \cup {"idle"}, id : Nat]]
BY DEF FedTypes, Sends, Requests, MasterRows

\* One round of the control loop is one of four.
LEMMA TickCases ==
  ASSUME Tick
  PROVE  \/ mrow.state = "revoked" /\ ~mrow.acked /\ mrow' = mrow /\ Sends("loop", "revoke", mrow, 1)
         \/ /\ mrow.state = "pending"
            /\ mrow' = [mrow EXCEPT !.state = "revoked"] /\ Sends("loop", "revoke", mrow, 1)
         \/ mrow.state = "pending" /\ mrow' = mrow /\ Sends("loop", "confirm", mrow, 1)
         \/ mrow.state = "active" /\ mrow' = mrow /\ Sends("loop", "heartbeat", mrow, 1)
<1>1. CASE mrow.state = "revoked" /\ ~mrow.acked  BY <1>1 DEF Tick, TimedOut
<1>2. CASE mrow.state = "pending" /\ mrow.late  BY <1>2 DEF Tick, TimedOut
<1>3. CASE mrow.state = "pending" /\ ~mrow.late  BY <1>3 DEF Tick, TimedOut
<1>4. CASE mrow.state = "active"  BY <1>4 DEF Tick, TimedOut
<1> QED  BY <1>1, <1>2, <1>3, <1>4 DEF Tick

LEMMA TypesNext == FedTypes /\ [Next]_fedvars => FedTypes'
<1> SUFFICES ASSUME FedTypes, [Next]_fedvars PROVE FedTypes'  OBVIOUS
<1>u. CASE UNCHANGED fedvars  BY <1>u DEF fedvars, FedTypes
<1>k. Kinds = {"pair", "confirm", "revoke", "heartbeat", "check", "status", "begin", "complete"}
      /\ Workers = {"loop", "admin"}
  BY DEF Kinds, Workers
<1>1. ASSUME NEW p \in Packages, CreatePair(p) \/ PackageExpires(p) PROVE FedTypes'
  BY <1>1 DEF CreatePair, PackageExpires, FedTypes
<1>2. ASSUME NEW p \in Packages, ImportPair(p) PROVE FedTypes'
  <2>1. mrow' = [id |-> mrow.id + 1, state |-> "pending", acked |-> FALSE, late |-> FALSE,
                 mode |-> "Relay", ret |-> "none"]
    BY <1>2 DEF ImportPair, NoRow
  <2>2. mrow' \in MasterRows  BY <2>1 DEF FedTypes, MasterRows, Transports
  <2> QED  BY <1>2, <1>k, <2>2, SendsTyped DEF ImportPair, FedTypes
<1>3. CASE FollowerResets
  <2>1. frow' \in FollowerRows  BY <1>3 DEF FollowerResets, FedTypes, FollowerRows
  <2> QED  BY <1>3, <2>1 DEF FollowerResets, FedTypes
<1>4. CASE FollowerNotifies \/ Late \/ \E m \in Transports : SetMode(m)
  <2>1. mrow' \in MasterRows
    BY <1>4 DEF FollowerNotifies, Late, SetMode, FedTypes, MasterRows
  <2> QED  BY <1>4, <2>1 DEF FollowerNotifies, Late, SetMode, FedTypes
<1>5. ASSUME NEW r \in wire, Handle(r) PROVE FedTypes'
  BY <1>5, HandleTyped
<1>6. ASSUME NEW w \in Workers, Lost(w) PROVE FedTypes'
  BY <1>6 DEF Lost, Ends, Nothing, FedTypes
<1>7. ASSUME NEW w \in Workers, Activate(w) \/ Acknowledge(w) PROVE FedTypes'
  <2>1. mrow' \in MasterRows  BY <1>7 DEF Activate, Acknowledge, FedTypes, MasterRows
  <2> QED  BY <1>7, <2>1 DEF Activate, Acknowledge, Ends, Nothing, FedTypes
<1>8. CASE SendConfirm \/ Apply \/ Advance
  BY <1>8, <1>k, SendsTyped DEF SendConfirm, Apply, Advance, FedTypes
<1>9. CASE Tick
  <2>1. mrow' \in MasterRows  BY <1>9, TickCases DEF FedTypes, MasterRows
  <2> QED  BY <1>9, <1>k, <2>1, TickCases, SendsTyped DEF Tick, FedTypes
<1>10. CASE AdminRevoke
  <2>1. mrow' \in MasterRows  BY <1>10 DEF AdminRevoke, FedTypes, MasterRows
  <2> QED  BY <1>10, <1>k, <2>1, SendsTyped DEF AdminRevoke, FedTypes
<1>11. CASE BeginMaster
  <2>1. mrow' \in MasterRows  BY <1>11 DEF BeginMaster, FedTypes, MasterRows
  <2> QED  BY <1>11, <1>k, <2>1, SendsTyped DEF BeginMaster, Ends, Nothing, FedTypes
<1>12. CASE FinishMaster
  <2>1. mrow' \in MasterRows  BY <1>12 DEF FinishMaster, FedTypes, MasterRows
  <2> QED  BY <1>12, <1>k, <2>1 DEF FinishMaster, Ends, Nothing, FedTypes
<1>13. CASE Places
  BY <1>13 DEF Places, Reserve, Abort, PutArrives, PutReserves, PutStored, Publish, Delete,
               Stocks, FedTypes
<1> QED
  BY <1>u, <1>1, <1>2, <1>3, <1>4, <1>5, <1>6, <1>7, <1>8, <1>9, <1>10, <1>11, <1>12, <1>13
  DEF Next, Steps

-----------------------------------------------------------------------------
(* How the parts of the state change in a step.                                *)

\* Importing a package is the only step that changes the Master's identifier.
LEMMA MasterKeeps ==
  ASSUME FedTypes, [Next]_fedvars
  PROVE  /\ (\E p \in Packages : ImportPair(p)) =>
              /\ mrow'.id = mrow.id + 1
              /\ mrow.ret = "none" /\ (mrow.state = "none" \/ mrow.acked)
         /\ (~\E p \in Packages : ImportPair(p)) => mrow'.id = mrow.id
         /\ mrow.ret # "none" => mrow'.ret # "none"
<1>m. mrow \in MasterRows  BY DEF FedTypes
<1>1. ASSUME NEW p \in Packages, ImportPair(p) PROVE mrow' = [NoRow EXCEPT !.id = mrow.id + 1, !.state = "pending"]
  BY <1>1 DEF ImportPair
<1>2. CASE \E p \in Packages : ImportPair(p)
  BY <1>1, <1>2, <1>m DEF ImportPair, NoRow, MasterRows
<1> DEFINE Keeps == mrow'.id = mrow.id /\ (mrow.ret # "none" => mrow'.ret # "none")
<1>3. ASSUME FollowerNotifies \/ Late \/ AdminRevoke \/ \E m \in Transports : SetMode(m) PROVE Keeps
  BY <1>3, <1>m DEF FollowerNotifies, Late, AdminRevoke, SetMode, MasterRows
<1>4. ASSUME Tick PROVE Keeps
  BY <1>4, <1>m, TickCases DEF MasterRows
<1>5. ASSUME BeginMaster \/ FinishMaster \/ \E w \in Workers : Steps(w) PROVE Keeps
  BY <1>5, <1>m DEF BeginMaster, FinishMaster, Steps, Activate, Acknowledge, MasterRows
<1>6. ASSUME NEW p \in Packages, CreatePair(p) \/ PackageExpires(p) PROVE Keeps
  BY <1>6 DEF CreatePair, PackageExpires
<1>7. ASSUME NEW r \in wire, Handle(r) PROVE Keeps  BY <1>7 DEF Handle
<1>8. ASSUME NEW w \in Workers, Lost(w) PROVE Keeps  BY <1>8 DEF Lost
<1>9. ASSUME FollowerResets \/ SendConfirm \/ Apply \/ Advance \/ UNCHANGED fedvars PROVE Keeps
  BY <1>9 DEF FollowerResets, SendConfirm, Apply, Advance, fedvars
<1>10. ASSUME Places PROVE Keeps
  BY <1>10 DEF Places, Reserve, Abort, PutArrives, PutReserves, PutStored, Publish, Delete, Stocks
<1>11. CASE ~\E p \in Packages : ImportPair(p)
  <2>1. Keeps  BY <1>3, <1>4, <1>5, <1>6, <1>7, <1>8, <1>9, <1>10, <1>11 DEF Next
  <2> QED  BY <1>11, <2>1
<1> QED  BY <1>2, <1>11

\* What a worker sends is under the Master's row of that moment.
SentUnder(w, q) ==
    /\ q.id = mrow'.id
    /\ q.kind = "pair" => mrow'.id = mrow.id + 1
    /\ q.kind \in Retirement => mrow'.ret # "none"
    /\ workers' = [workers EXCEPT ![w] = [at |-> q.kind, id |-> q.id]]

Sending ==
    \/ (\E p \in Packages : ImportPair(p)) \/ SendConfirm \/ Apply \/ Advance \/ Tick \/ AdminRevoke
    \/ BeginMaster /\ mrow.state = "active" /\ MasterClear

LEMMA Sent ==
  ASSUME FedInv, FedTypes', Sending
  PROVE  \E w \in Workers, q \in Requests : wire' = wire \cup {q} /\ SentUnder(w, q)
<1>i. FedTypes /\ RetirementBegan  BY DEF FedInv
<1>k. Kinds = {"pair", "confirm", "revoke", "heartbeat", "check", "status", "begin", "complete"}
      /\ Workers = {"loop", "admin"}
  BY DEF Kinds, Workers
<1>1. ASSUME NEW w \in Workers, NEW kind \in Kinds, NEW row \in MasterRows, NEW p \in Packages \cup {1},
             Sends(w, kind, row, p), row.id = mrow'.id,
             kind = "pair" => mrow'.id = mrow.id + 1,
             kind \in Retirement => mrow'.ret # "none"
      PROVE  \E v \in Workers, q \in Requests : wire' = wire \cup {q} /\ SentUnder(v, q)
  <2> DEFINE q == [by |-> w, kind |-> kind, id |-> row.id, mode |-> row.mode, package |-> p]
  <2>1. q \in Requests  BY DEF Requests, MasterRows
  <2>2. wire' = wire \cup {q} /\ workers' = [workers EXCEPT ![w] = [at |-> q.kind, id |-> q.id]]
    BY <1>1 DEF Sends
  <2>3. q.id = row.id /\ q.kind = kind  OBVIOUS
  <2> HIDE DEF q
  <2> QED  BY <1>1, <2>1, <2>2, <2>3 DEF SentUnder
<1>m. mrow' \in MasterRows  BY DEF FedTypes
<1>2. CASE \E p \in Packages : ImportPair(p)
  <2>1. PICK p \in Packages : ImportPair(p)  BY <1>2
  <2>2. mrow'.id = mrow.id + 1  BY <2>1, <1>i DEF ImportPair, NoRow, FedTypes, MasterRows
  <2>3. Sends("admin", "pair", mrow', p)  BY <2>1 DEF ImportPair
  <2> QED  BY <1>1, <1>k, <1>m, <2>2, <2>3 DEF Retirement
<1>3. CASE SendConfirm \/ Apply \/ Advance
  <2>1. mrow' = mrow  BY <1>3 DEF SendConfirm, Apply, Advance
  <2>2. At("admin", "sendBegin") \/ At("admin", "sendComplete") => mrow.ret # "none"
    BY <1>i, <1>k DEF RetirementBegan, Retirement, At
  <2>3. CASE SendConfirm  BY <1>1, <1>k, <1>m, <2>1, <2>3 DEF SendConfirm, Retirement
  <2>4. CASE Apply  BY <1>1, <1>k, <1>m, <2>1, <2>4 DEF Apply, Retirement
  <2>5. CASE Advance  BY <1>1, <1>k, <1>m, <2>1, <2>2, <2>5 DEF Advance, Retirement
  <2> QED  BY <1>3, <2>3, <2>4, <2>5
<1>4. CASE Tick
  <2>1. mrow'.id = mrow.id /\ mrow \in MasterRows  BY <1>4, <1>i, TickCases DEF FedTypes, MasterRows
  <2> QED  BY <1>1, <1>4, <1>k, <1>m, <2>1, TickCases DEF Retirement
<1>5. CASE AdminRevoke
  <2>1. mrow'.id = mrow.id /\ mrow \in MasterRows  BY <1>5, <1>i DEF AdminRevoke, FedTypes, MasterRows
  <2> QED  BY <1>1, <1>5, <1>k, <1>m, <2>1 DEF AdminRevoke, Retirement
<1>6. CASE BeginMaster /\ mrow.state = "active" /\ MasterClear
  <2>1. /\ mrow' = [mrow EXCEPT !.state = "retiring", !.ret = "retiring"]
        /\ Sends("admin", "status", mrow, 1)
    BY <1>6 DEF BeginMaster
  <2>2. mrow \in MasterRows /\ mrow'.id = mrow.id /\ mrow'.ret = "retiring"
    BY <1>i, <2>1 DEF FedTypes, MasterRows
  <2> QED  BY <1>1, <1>k, <2>1, <2>2
<1> QED  BY <1>2, <1>3, <1>4, <1>5, <1>6 DEF Sending

\* The steps that send nothing, and what they do with the workers.
LEMMA NotSent ==
  ASSUME [Next]_fedvars, ~Sending
  PROVE  \/ wire' = wire /\ workers' = workers
         \/ \E w \in Workers : wire' \subseteq wire /\ workers' = [workers EXCEPT ![w] = Nothing]
         \/ \E r \in wire : Handle(r)
<1>w. "admin" \in Workers  BY DEF Workers
<1>1. ASSUME NEW w \in Workers, Lost(w) \/ Steps(w)
      PROVE  wire' \subseteq wire /\ workers' = [workers EXCEPT ![w] = Nothing]
  BY <1>1 DEF Lost, Steps, Activate, Acknowledge, Ends
<1>2. CASE FinishMaster \/ BeginMaster
  <2>1. wire' = wire /\ workers' = [workers EXCEPT !["admin"] = Nothing]
    BY <1>2 DEF FinishMaster, BeginMaster, Ends, Sending
  <2> QED  BY <1>w, <2>1
<1>3. CASE \/ FollowerResets \/ FollowerNotifies \/ Late \/ UNCHANGED fedvars
           \/ \E m \in Transports : SetMode(m)
           \/ \E p \in Packages : CreatePair(p) \/ PackageExpires(p)
  BY <1>3 DEF FollowerResets, FollowerNotifies, Late, fedvars, SetMode, CreatePair, PackageExpires
<1>4. CASE Places
  BY <1>4 DEF Places, Reserve, Abort, PutArrives, PutReserves, PutStored, Publish, Delete, Stocks
<1> QED
  BY <1>1, <1>2, <1>3, <1>4 DEF Next, Sending

\* A worker's step is unchanged, or it gave up, sent a request, or was answered.
LEMMA Worked ==
  ASSUME FedInv, FedTypes', [Next]_fedvars, NEW w \in Workers
  PROVE  \/ workers'[w] = workers[w]
         \/ workers'[w].at = "idle" /\ workers'[w].id = 0
         \/ /\ workers'[w].at \in Kinds /\ workers'[w].id = mrow'.id
            /\ workers'[w].at \in Retirement => mrow'.ret # "none"
         \/ \E r \in wire : /\ Handle(r) /\ Accepted(r) /\ r.kind # "heartbeat"
                            /\ workers[w].at = r.kind /\ workers[w].id = r.id
                            /\ workers'[w].at = AnswerStep(r) /\ workers'[w].id = r.id
<1>i. FedTypes  BY DEF FedInv
<1>w. workers \in [Workers -> [at : Kinds \cup AfterKinds \cup {"idle"}, id : Nat]]
  BY <1>i DEF FedTypes
<1>1. CASE Sending
  <2>1. PICK v \in Workers, q \in Requests : SentUnder(v, q)  BY <1>1, Sent
  <2>2. /\ workers' = [workers EXCEPT ![v] = [at |-> q.kind, id |-> q.id]]
        /\ q.id = mrow'.id /\ q.kind \in Kinds /\ (q.kind \in Retirement => mrow'.ret # "none")
    BY <2>1 DEF SentUnder, Requests
  <2> QED  BY <1>w, <2>2
<1>2. ASSUME NEW r \in wire, Handle(r)
      PROVE  \/ workers'[w] = workers[w]
             \/ workers'[w].at = "idle" /\ workers'[w].id = 0
             \/ /\ Accepted(r) /\ r.kind # "heartbeat"
                /\ workers[w].at = r.kind /\ workers[w].id = r.id
                /\ workers'[w].at = AnswerStep(r) /\ workers'[w].id = r.id
  <2>1. CASE r.by = w /\ workers[r.by] = [at |-> r.kind, id |-> r.id] /\ Accepted(r)
             /\ r.kind # "heartbeat" /\ workers' = [workers EXCEPT ![r.by].at = AnswerStep(r)]
    BY <2>1, <1>w
  <2>2. CASE workers' = [workers EXCEPT ![r.by] = Nothing]
    BY <2>2, <1>w DEF Nothing
  <2>3. CASE r.by # w /\ workers' = [workers EXCEPT ![r.by].at = AnswerStep(r)]
    BY <2>3, <1>w
  <2> QED  BY <1>i, <1>2, <2>1, <2>2, <2>3, HandleWorker
<1>3. ASSUME NEW v \in Workers, workers' = [workers EXCEPT ![v] = Nothing]
      PROVE  workers'[w] = workers[w] \/ (workers'[w].at = "idle" /\ workers'[w].id = 0)
  BY <1>3, <1>w DEF Nothing
<1> QED  BY <1>1, <1>2, <1>3, NotSent

\* The Follower's row changes by a reset or by a request.
LEMMA FollowerSteps ==
  ASSUME [Next]_fedvars
  PROVE  frow' = frow \/ FollowerResets \/ \E r \in wire : Handle(r)
<1>1. CASE Sending
  BY <1>1, TickCases DEF Sending, ImportPair, SendConfirm, Apply, Advance, Tick, AdminRevoke,
     BeginMaster
<1>2. CASE \E w \in Workers : Lost(w) \/ Steps(w)
  BY <1>2 DEF Lost, Steps, Activate, Acknowledge
<1>3. CASE Places
  BY <1>3 DEF Places, Reserve, Abort, PutArrives, PutReserves, PutStored, Publish, Delete, Stocks
<1>4. CASE \/ FollowerNotifies \/ Late \/ BeginMaster \/ FinishMaster \/ UNCHANGED fedvars
           \/ \E m \in Transports : SetMode(m)
           \/ \E p \in Packages : CreatePair(p) \/ PackageExpires(p)
  BY <1>4 DEF FollowerNotifies, Late, BeginMaster, FinishMaster, fedvars, SetMode, CreatePair,
       PackageExpires
<1> QED  BY <1>1, <1>2, <1>3, <1>4 DEF Next, Sending

\* A relationship the Follower confirmed or revoked stays so, and a completed
\* retirement stays completed.
LEMMA FollowerKeeps ==
  ASSUME FedInv, [Next]_fedvars
  PROVE  /\ Confirmed /\ mrow'.id = mrow.id => Confirmed'
         /\ Withdrawn /\ mrow'.id = mrow.id => Withdrawn'
         /\ frow.ret = "completed" => frow'.ret = "completed"
<1>i. FedTypes /\ PairsOnce /\ RowsFit  BY DEF FedInv
<1>f. frow \in FollowerRows  BY <1>i DEF FedTypes
<1>1. CASE frow' = frow  BY <1>1 DEF Confirmed, Withdrawn
<1>2. CASE FollowerResets
  BY <1>2, <1>f DEF FollowerResets, Confirmed, Withdrawn, FollowerRows
<1>3. ASSUME NEW r \in wire, Handle(r)
      PROVE  /\ Confirmed /\ mrow'.id = mrow.id => Confirmed'
             /\ Withdrawn /\ mrow'.id = mrow.id => Withdrawn'
             /\ frow.ret = "completed" => frow'.ret = "completed"
  <2>1. r.kind = "pair" => frow.id # mrow.id  BY <1>i DEF PairsOnce
  <2> QED
    BY <1>1, <1>3, <1>i, <1>f, <2>1, HandleRow DEF RowsFit, Confirmed, Withdrawn, FollowerRows,
       Consumes, Confirms, Revokes, Heartbeats, Begins, Completes, Bound, Known
<1> QED  BY <1>1, <1>2, <1>3, FollowerSteps

\* What becomes of the Master's relationship while it stays the same one.
LEMMA MasterSteps ==
  ASSUME FedInv, [Next]_fedvars, ~\E p \in Packages : ImportPair(p)
  PROVE  \/ mrow'.state = mrow.state /\ mrow'.acked = mrow.acked /\ mrow'.ret = mrow.ret
         \/ /\ mrow.state = "pending" /\ mrow'.state = "active" /\ Confirmed
            /\ mrow'.acked = mrow.acked /\ mrow'.ret = mrow.ret /\ frow' = frow
         \/ /\ mrow.state \in {"pending", "revoked"} /\ mrow'.state = "revoked"
            /\ mrow'.acked => mrow.acked \/ Withdrawn
            /\ mrow'.ret = mrow.ret /\ frow' = frow
         \/ /\ mrow.state = "active" /\ mrow'.state = "retiring" /\ mrow'.ret = "retiring"
            /\ mrow'.acked = mrow.acked /\ MasterClear /\ frow' = frow
         \/ /\ mrow.ret = "retiring" /\ mrow'.ret = "completed" /\ mrow'.state = "revoked"
            /\ frow.ret = "completed" /\ MasterClear /\ frow' = frow
<1>i. FedTypes /\ AnswersHold /\ RowsFit  BY DEF FedInv
<1>m. mrow \in MasterRows  BY <1>i DEF FedTypes
<1> DEFINE Same == mrow'.state = mrow.state /\ mrow'.acked = mrow.acked /\ mrow'.ret = mrow.ret
<1>1. ASSUME NEW w \in Workers, Activate(w)
      PROVE  \/ Same
             \/ /\ mrow.state = "pending" /\ mrow'.state = "active" /\ Confirmed
                /\ mrow'.acked = mrow.acked /\ mrow'.ret = mrow.ret /\ frow' = frow
  BY <1>1, <1>i, <1>m DEF Activate, AnswersHold, MasterRows
<1> DEFINE Revoked == /\ mrow.state \in {"pending", "revoked"} /\ mrow'.state = "revoked"
                      /\ mrow'.acked => mrow.acked \/ Withdrawn
                      /\ mrow'.ret = mrow.ret /\ frow' = frow
<1>2. ASSUME NEW w \in Workers, Acknowledge(w) PROVE Same \/ Revoked
  BY <1>2, <1>i, <1>m DEF Acknowledge, AnswersHold, MasterRows
<1>3. ASSUME FollowerNotifies PROVE Revoked
  BY <1>3, <1>i, <1>m DEF FollowerNotifies, RowsFit, Withdrawn, MasterRows
<1>4. ASSUME AdminRevoke PROVE Revoked
  BY <1>4, <1>m DEF AdminRevoke, MasterRows
<1>5. ASSUME Tick PROVE Same \/ Revoked
  <2>1. frow' = frow  BY <1>5 DEF Tick
  <2> QED  BY <1>5, <1>m, <2>1, TickCases DEF MasterRows
<1>6. ASSUME BeginMaster
      PROVE  \/ Same
             \/ /\ mrow.state = "active" /\ mrow'.state = "retiring" /\ mrow'.ret = "retiring"
                /\ mrow'.acked = mrow.acked /\ MasterClear /\ frow' = frow
  BY <1>6, <1>m DEF BeginMaster, MasterRows
<1>7. ASSUME FinishMaster
      PROVE  \/ Same
             \/ /\ mrow.ret = "retiring" /\ mrow'.ret = "completed" /\ mrow'.state = "revoked"
                /\ frow.ret = "completed" /\ MasterClear /\ frow' = frow
  <2>1. frow.ret = "completed"  BY <1>7, <1>i DEF FinishMaster, AnswersHold, Workers
  <2> QED  BY <1>7, <1>m, <2>1 DEF FinishMaster, MasterRows
<1>8. ASSUME Late \/ (\E m \in Transports : SetMode(m)) \/ FollowerResets \/ SendConfirm \/ Apply
             \/ Advance \/ UNCHANGED fedvars \/ (\E r \in wire : Handle(r)) \/ (\E w \in Workers : Lost(w))
             \/ \E p \in Packages : CreatePair(p) \/ PackageExpires(p)
      PROVE  Same
  BY <1>8, <1>m DEF Late, SetMode, FollowerResets, SendConfirm, Apply, Advance, fedvars, Handle, Lost,
     CreatePair, PackageExpires, MasterRows
<1>9. ASSUME Places PROVE Same
  BY <1>9 DEF Places, Reserve, Abort, PutArrives, PutReserves, PutStored, Publish, Delete, Stocks
<1> QED  BY <1>1, <1>2, <1>3, <1>4, <1>5, <1>6, <1>7, <1>8, <1>9 DEF Next, Steps

-----------------------------------------------------------------------------
(* The invariant is inductive.                                                 *)

LEMMA FedInit == Init => FedInv
<1> SUFFICES ASSUME Init PROVE FedInv  OBVIOUS
<1>1. mrow = NoRow /\ frow.id = 0 /\ frow.state = "none" /\ frow.ret = "none"
      /\ frow.role = "Follower" /\ wire = {} /\ workers = [w \in Workers |-> Nothing]
  BY DEF Init
<1>2. FedTypes
  BY DEF Init, FedTypes, MasterRows, FollowerRows, NoRow, Nothing, Transports
<1>3. SameOrPrevious /\ IdsPast /\ PairsOnce /\ RowsFit
  BY <1>1 DEF SameOrPrevious, IdsPast, PairsOnce, RowsFit, NoRow, Nothing
<1>4. AnswersHold /\ RetirementBegan
  BY <1>1 DEF AnswersHold, RetirementBegan, Retirement, At, Nothing
<1>5. FedSound
  BY <1>1 DEF Init, FedSound, RelationsAgree, RetiredIsEmpty, FollowerClear, MasterClear, NoRow
<1> QED  BY <1>2, <1>3, <1>4, <1>5 DEF FedInv

LEMMA IdsNext ==
  ASSUME FedInv, FedTypes', [Next]_fedvars
  PROVE  IdsPast'
<1>i. FedTypes /\ IdsPast  BY DEF FedInv
<1>1. mrow.id \in Nat /\ mrow'.id \in Nat /\ mrow'.id >= mrow.id
  BY <1>i, MasterKeeps DEF FedTypes, MasterRows
<1>2. ASSUME NEW r \in wire' PROVE r.id <= mrow'.id
  <2>1. CASE r \in wire  BY <2>1, <1>1, <1>i DEF IdsPast, FedTypes, Requests
  <2>2. CASE r \notin wire
    BY <1>1, <2>2, Sent, NotSent DEF SentUnder, Handle
  <2> QED  BY <2>1, <2>2
<1>3. ASSUME NEW w \in Workers PROVE workers'[w].id <= mrow'.id
  <2>1. workers[w].id <= mrow.id /\ workers[w].id \in Nat
    BY <1>i DEF IdsPast, FedTypes
  <2>2. \A r \in wire : r.id <= mrow.id /\ r.id \in Nat
    BY <1>i DEF IdsPast, FedTypes, Requests
  <2> QED  BY <1>1, <2>1, <2>2, Worked
<1> QED  BY <1>2, <1>3 DEF IdsPast

LEMMA PairsNext ==
  ASSUME FedInv, FedTypes', [Next]_fedvars
  PROVE  PairsOnce'
<1>i. FedTypes /\ PairsOnce /\ SameOrPrevious /\ RowsFit /\ IdsPast  BY DEF FedInv
<1>n. mrow.id \in Nat /\ frow.id \in Nat  BY <1>i DEF FedTypes, MasterRows, FollowerRows
<1>1. CASE \E p \in Packages : ImportPair(p)
  <2>1. \A r \in wire : r.kind # "pair"
    BY <1>1, <1>i, <1>n DEF ImportPair, PairsOnce, SameOrPrevious, RowsFit, Withdrawn
  <2>2. PICK q \in Requests, w \in Workers : wire' = wire \cup {q} /\ SentUnder(w, q)
    BY <1>1, Sent DEF Sending
  <2>3. q.kind = "pair" => q.id = mrow'.id /\ mrow'.id = mrow.id + 1  BY <2>2 DEF SentUnder
  <2>4. frow' = frow /\ frow.id <= mrow.id
    BY <1>1, <1>i, <1>n DEF ImportPair, SameOrPrevious
  <2> QED  BY <1>n, <2>1, <2>2, <2>3, <2>4 DEF PairsOnce
<1>2. CASE ~\E p \in Packages : ImportPair(p)
  <2>1. ASSUME NEW r \in wire', r.kind = "pair" PROVE r \in wire
    <3>1. CASE Sending
      <4>1. PICK q \in Requests, w \in Workers : wire' = wire \cup {q} /\ SentUnder(w, q)
        BY <3>1, Sent
      <4>2. mrow'.id = mrow.id  BY <1>2, <1>i, MasterKeeps
      <4> QED  BY <1>n, <2>1, <4>1, <4>2 DEF SentUnder
    <3> QED  BY <2>1, <3>1, NotSent DEF Handle
  <2>2. ASSUME NEW r \in wire, r.kind = "pair" PROVE mrow'.id = mrow.id
    BY <1>2, <1>i, MasterKeeps
  <2>3. ASSUME NEW r \in wire', r.kind = "pair" PROVE frow'.id = frow.id
    <3>1. frow \in FollowerRows /\ r \in wire  BY <1>i, <2>1, <2>3 DEF FedTypes
    <3>2. ASSUME NEW q \in wire, Handle(q) PROVE frow'.id = frow.id
      <4>1. q.kind # "pair"
        <5>1. r # q  BY <2>3, <3>2 DEF Handle
        <5> QED  BY <1>i, <2>3, <3>1, <5>1 DEF PairsOnce
      <4> QED  BY <1>i, <3>1, <3>2, <4>1, HandleRow DEF FollowerRows
    <3> QED  BY <3>1, <3>2, FollowerSteps DEF FollowerResets, FollowerRows
  <2> QED  BY <1>i, <2>1, <2>2, <2>3 DEF PairsOnce
<1> QED  BY <1>1, <1>2

\* Nothing of a retirement is on its way before the Master has begun one.
LEMMA BeganNext ==
  ASSUME FedInv, FedTypes', [Next]_fedvars
  PROVE  RetirementBegan'
<1>i. FedTypes /\ RetirementBegan  BY DEF FedInv
<1>m. /\ mrow.ret # "none" => mrow'.ret # "none" /\ mrow'.id = mrow.id
  BY <1>i, MasterKeeps
<1>1. ASSUME NEW r \in wire', r.kind \in Retirement PROVE mrow'.ret # "none" /\ r.id = mrow'.id
  <2>1. CASE r \in wire  BY <2>1, <1>1, <1>i, <1>m DEF RetirementBegan
  <2>2. CASE r \notin wire
    BY <1>1, <2>2, Sent, NotSent DEF SentUnder, Handle
  <2> QED  BY <2>1, <2>2
<1>2. ASSUME NEW w \in Workers, workers'[w].at \in Retirement PROVE mrow'.ret # "none"
  <2>1. CASE workers'[w] = workers[w]  BY <1>2, <1>i, <1>m, <2>1 DEF RetirementBegan
  <2>2. ASSUME NEW r \in wire, Handle(r), Accepted(r), r.kind # "heartbeat",
               workers'[w].at = AnswerStep(r)
        PROVE  mrow'.ret # "none"
    BY <1>2, <1>i, <1>m, <2>2, HandleStep DEF RetirementBegan
  <2> QED  BY <1>2, <2>1, <2>2, Worked DEF Retirement
<1> QED  BY <1>1, <1>2 DEF RetirementBegan

\* An answer that a worker of the Master still has to act on holds at the Follower.
LEMMA AnswersNext ==
  ASSUME FedInv, FedTypes', [Next]_fedvars
  PROVE  AnswersHold'
<1>i. FedTypes /\ AnswersHold /\ IdsPast  BY DEF FedInv
<1>1. SUFFICES ASSUME NEW w \in Workers
      PROVE  /\ At(w, "activate")' /\ workers'[w].id = mrow'.id => Confirmed'
             /\ At(w, "ack")' /\ workers'[w].id = mrow'.id => Withdrawn'
             /\ At(w, "finish")' => frow'.ret = "completed"
  BY DEF AnswersHold
<1>n. /\ mrow.id \in Nat /\ (mrow'.id = mrow.id \/ mrow'.id = mrow.id + 1)
      /\ \A r \in wire : r.id \in Nat /\ r.id <= mrow.id
      /\ workers[w].id \in Nat /\ workers[w].id <= mrow.id
  BY <1>i, MasterKeeps DEF FedTypes, IdsPast, MasterRows, Requests
<1>2. CASE workers'[w] = workers[w]
  <2>1. workers[w].id = mrow'.id => mrow'.id = mrow.id  BY <1>n
  <2> QED  BY <1>2, <1>i, <2>1, FollowerKeeps DEF AnswersHold, At
<1>3. CASE workers'[w].at = "idle" \/ workers'[w].at \in Kinds
  BY <1>3 DEF Kinds, At
<1>4. ASSUME NEW r \in wire, Handle(r), Accepted(r), r.kind # "heartbeat",
             workers'[w].at = AnswerStep(r), workers'[w].id = r.id
      PROVE  /\ At(w, "activate")' /\ workers'[w].id = mrow'.id => Confirmed'
             /\ At(w, "ack")' /\ workers'[w].id = mrow'.id => Withdrawn'
             /\ At(w, "finish")' => frow'.ret = "completed"
  BY <1>4, <1>i, HandleStep DEF At, Confirmed, Withdrawn
<1> QED  BY <1>2, <1>3, <1>4, Worked

\* The Follower takes an identifier only from the Master's present relationship.
LEMMA SameOrPreviousNext ==
  ASSUME FedInv, FedTypes', [Next]_fedvars
  PROVE  SameOrPrevious'
<1>i. FedTypes /\ SameOrPrevious /\ PairsOnce /\ RetirementBegan /\ RowsFit /\ AnswersHold /\ FedSound
  BY DEF FedInv
<1>n. /\ mrow \in MasterRows /\ mrow' \in MasterRows /\ frow \in FollowerRows
      /\ \A r \in wire : r.id \in Nat
  BY <1>i DEF FedTypes, Requests
<1>1. CASE \E p \in Packages : ImportPair(p)
  <2>1. PICK p \in Packages : ImportPair(p)  BY <1>1
  <2>2. mrow' = [id |-> mrow.id + 1, state |-> "pending", acked |-> FALSE, late |-> FALSE,
                 mode |-> "Relay", ret |-> "none"] /\ frow' = frow
    BY <2>1 DEF ImportPair, NoRow
  <2>3. frow.ret = "none" /\ frow.id <= mrow.id
    BY <1>i, <1>n, <2>1 DEF ImportPair, SameOrPrevious, MasterRows, FollowerRows, FedSound, RelationsAgree
  <2> QED  BY <1>n, <2>2, <2>3 DEF SameOrPrevious, MasterRows, FollowerRows
<1>2. ASSUME NEW r \in wire, Handle(r) PROVE SameOrPrevious'
  <2>1. mrow' = mrow  BY <1>2 DEF Handle
  <2>2. r.kind = "pair" => r.id = mrow.id  BY <1>i DEF PairsOnce
  <2> QED
    BY <1>i, <1>n, <1>2, <2>1, <2>2, HandleRow DEF SameOrPrevious, RetirementBegan, Retirement, Kinds,
       FollowerRows, Begins, Completes, Bound, Known
<1>4. CASE ~\E p \in Packages : ImportPair(p)
  <2>1. mrow'.id = mrow.id  BY <1>4, <1>i, MasterKeeps
  <2>2. CASE FollowerResets
    BY <1>i, <1>n, <2>1, <2>2 DEF FollowerResets, SameOrPrevious, FollowerRows
  <2>3. CASE frow' = frow
    BY <1>4, <1>i, <1>n, <2>1, <2>3, MasterSteps DEF SameOrPrevious, Confirmed, Withdrawn,
       FedSound, RelationsAgree
  <2> QED  BY <1>2, <2>2, <2>3, FollowerSteps
<1> QED  BY <1>1, <1>4

LEMMA RowsNext ==
  ASSUME FedInv, FedTypes', [Next]_fedvars
  PROVE  RowsFit'
<1>i. FedTypes /\ RowsFit /\ FedSound  BY DEF FedInv
<1>n. mrow \in MasterRows /\ mrow' \in MasterRows /\ frow \in FollowerRows
  BY <1>i DEF FedTypes
<1>1. /\ frow'.ret = "completed" \/ frow'.role = "Standalone" => frow'.state = "revoked"
      /\ frow'.ret = "retiring" => frow'.state = "retiring"
  <2>1. CASE frow' = frow  BY <2>1, <1>i DEF RowsFit
  <2>2. CASE FollowerResets  BY <2>2, <1>i, <1>n DEF FollowerResets, RowsFit, FollowerRows
  <2>3. ASSUME NEW r \in wire, Handle(r)
        PROVE  /\ frow'.ret = "completed" \/ frow'.role = "Standalone" => frow'.state = "revoked"
               /\ frow'.ret = "retiring" => frow'.state = "retiring"
    BY <2>1, <2>3, <1>i, <1>n, HandleRow DEF RowsFit, FollowerRows, Consumes, Confirms, Revokes,
       Heartbeats, Begins, Completes, Bound
  <2> QED  BY <2>1, <2>2, <2>3, FollowerSteps
<1>2. CASE \E p \in Packages : ImportPair(p)
  <2>1. PICK p \in Packages : ImportPair(p)  BY <1>2
  <2>2. mrow' = [id |-> mrow.id + 1, state |-> "pending", acked |-> FALSE, late |-> FALSE,
                 mode |-> "Relay", ret |-> "none"]
    BY <2>1 DEF ImportPair, NoRow
  <2> QED  BY <1>n, <1>1, <2>2 DEF RowsFit, MasterRows
<1>3. CASE ~\E p \in Packages : ImportPair(p)
  <2>1. mrow'.id = mrow.id  BY <1>3, <1>i, MasterKeeps
  <2>2. (Confirmed => Confirmed') /\ (Withdrawn => Withdrawn')  BY <2>1, FollowerKeeps
  <2>3. frow.ret = "completed" => Withdrawn
    BY <1>i DEF RowsFit, FedSound, RelationsAgree, Withdrawn
  <2> QED  BY <1>3, <1>i, <1>n, <1>1, <2>1, <2>2, <2>3, MasterSteps DEF RowsFit, MasterRows
<1> QED  BY <1>2, <1>3

\* A retirement goes on at both sides, and ends at the Follower first.
LEMMA RelationsNext ==
  ASSUME FedInv, FedTypes', [Next]_fedvars
  PROVE  RelationsAgree'
<1>i. FedTypes /\ RowsFit /\ RetirementBegan /\ RelationsAgree  BY DEF FedInv, FedSound
<1>r. RowsFit'  BY RowsNext
<1>n. mrow \in MasterRows /\ frow \in FollowerRows
  BY <1>i DEF FedTypes
<1>1. mrow'.ret = "completed" => frow'.ret = "completed"
  <2>1. CASE \E p \in Packages : ImportPair(p)
    BY <2>1 DEF ImportPair, NoRow
  <2>2. CASE ~\E p \in Packages : ImportPair(p)
    BY <2>2, <1>i, MasterSteps, FollowerKeeps DEF RelationsAgree
  <2> QED  BY <2>1, <2>2
<1>2. ASSUME frow'.ret # "none" PROVE frow'.id = mrow'.id /\ mrow'.ret # "none"
  <2>1. CASE frow.ret # "none" /\ frow'.id = frow.id
    BY <1>i, <2>1, MasterKeeps DEF RelationsAgree
  <2>2. CASE FollowerResets \/ frow' = frow
    BY <1>2, <1>n, <2>1, <2>2 DEF FollowerResets, FollowerRows
  <2>3. ASSUME NEW r \in wire, Handle(r) PROVE frow'.id = mrow'.id /\ mrow'.ret # "none"
    <3>1. mrow' = mrow  BY <2>3 DEF Handle
    <3>2. r.kind \in {"begin", "complete"} => mrow.ret # "none" /\ r.id = mrow.id
      BY <1>i DEF RetirementBegan, Retirement
    <3> QED
      BY <1>2, <1>i, <1>n, <2>1, <2>2, <2>3, <3>1, <3>2, HandleRow
      DEF FollowerRows, Consumes, Begins, Completes, Bound, Known
  <2> QED  BY <2>2, <2>3, FollowerSteps
<1> QED  BY <1>1, <1>2, <1>r DEF RelationsAgree, RowsFit, Confirmed, Withdrawn

\* Nothing is stored at, or recorded for, a retired Follower.
LEMMA EmptyNext ==
  ASSUME FedInv, FedTypes', [Next]_fedvars
  PROVE  RetiredIsEmpty'
<1>i. FedTypes /\ RowsFit /\ RetiredIsEmpty  BY DEF FedInv, FedSound
<1>n. /\ mrow \in MasterRows /\ frow \in FollowerRows
      /\ stock \in [row : BOOLEAN, upload : BOOLEAN, token : BOOLEAN,
                    put : {"none", "checked", "writing"}, file : BOOLEAN]
  BY <1>i DEF FedTypes
<1>1. CASE Places
  <2>1. mrow' = mrow /\ frow' = frow
    BY <1>1 DEF Places, Reserve, Abort, PutArrives, PutReserves, PutStored, Publish, Delete, Stocks
  <2>2. /\ mrow.ret = "completed" => mrow.state \in {"retiring", "revoked"}
        /\ frow.ret = "completed" => frow.state = "revoked"
    BY <1>i DEF RowsFit
  <2>3. CASE Reserve \/ Abort \/ Publish
    BY <1>i, <1>n, <2>1, <2>2, <2>3 DEF Reserve, Abort, Publish, RetiredIsEmpty, FollowerClear,
       MasterClear
  <2>4. CASE PutArrives \/ PutReserves \/ PutStored \/ Delete
    BY <1>i, <1>n, <2>1, <2>2, <2>4 DEF PutArrives, PutReserves, PutStored, Delete, RetiredIsEmpty,
       FollowerClear, MasterClear
  <2> QED  BY <1>1, <2>3, <2>4 DEF Places
<1>2. CASE ~Places
  <2>1. stock' = stock
    BY <1>2 DEF Next, CreatePair, PackageExpires, ImportPair, FollowerResets, FollowerNotifies,
       Handle, Lost, Steps, Activate, Acknowledge, SendConfirm, Late, Tick, AdminRevoke, SetMode,
       Apply, BeginMaster, Advance, FinishMaster, fedvars
  <2>2. mrow'.ret = "completed" => mrow.ret = "completed" \/ MasterClear
    <3>1. CASE \E p \in Packages : ImportPair(p)
      BY <3>1 DEF ImportPair, NoRow
    <3> QED  BY <3>1, MasterSteps
  <2>3. frow'.ret = "completed" => frow.ret = "completed" \/ FollowerClear
    <3>1. ASSUME NEW r \in wire, Handle(r), frow'.ret = "completed"
          PROVE  frow.ret = "completed" \/ FollowerClear
      BY <1>i, <1>n, <3>1, HandleRow DEF FollowerRows, Completes, Bound
    <3> QED  BY <1>n, <3>1, FollowerSteps DEF FollowerResets, FollowerRows
  <2> QED  BY <1>i, <2>1, <2>2, <2>3 DEF RetiredIsEmpty, FollowerClear, MasterClear
<1> QED  BY <1>1, <1>2

LEMMA FedNext == FedInv /\ [Next]_fedvars => FedInv'
<1> SUFFICES ASSUME FedInv, [Next]_fedvars PROVE FedInv'  OBVIOUS
<1>1. FedTypes'  BY TypesNext DEF FedInv
<1>2. SameOrPrevious' /\ IdsPast' /\ PairsOnce'  BY <1>1, SameOrPreviousNext, IdsNext, PairsNext
<1>3. AnswersHold' /\ RetirementBegan' /\ RowsFit'  BY <1>1, AnswersNext, BeganNext, RowsNext
<1>4. FedSound'  BY <1>1, RelationsNext, EmptyNext DEF FedSound
<1> QED  BY <1>1, <1>2, <1>3, <1>4 DEF FedInv

\* The Master's row, the Follower's row and the files between them, for every
\* number of packages issued, transports tried and answers lost (runtime.py,
\* node_retirement_apply.py): an active relationship is active at both ends, an
\* acknowledged revocation is final, a retirement ends at the Follower first and
\* leaves nothing there.
THEOREM RelationsSound == Spec => []FedSound
<1>1. FedInv => FedSound  BY DEF FedInv
<1> QED  BY <1>1, FedInit, FedNext, PTL DEF Spec

=============================================================================
