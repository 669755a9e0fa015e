---------------------------- MODULE WorldProofs ----------------------------
(***************************************************************************)
(* The lifecycle implements the atomic register of module Authority, for   *)
(* any declarations, any number of crashes, reboots, container and door    *)
(* exits, and any failing host call but those that publish a successor.    *)
(*                                                                         *)
(* The inductive invariant Shape says what each label may rely on: which   *)
(* record is on disk, what the locals of up hold, and how state.json       *)
(* relates to both.  It also bounds the commands: under it every step, and *)
(* every failure, leads to a label that is nearer to the command's end.    *)
(***************************************************************************)
EXTENDS World, TLAPS

\* Labels at which the transition record is known to be absent or present.
BeforeRecord == {"u.read", "u.load", "u.create", "u.materialize", "u.record"}
AfterRecord == UpLabels \ BeforeRecord
CommitLabels == {"m.start", "m.verify", "m.door", "m.ready", "m.record",
                 "m.services"}
RollbackLabels == {"b.door", "b.destroy", "b.state", "b.applied", "b.plan",
                   "b.clear"}

\* up has numbered its successor and has not returned.
InUp ==
  \/ pc \in (UpLabels \ {"u.read", "u.load"}) \cup CleanupLabels
  \/ pc \in PublishLabels \cup RestoreLabels /\ ~loc.recovering

Succeeds(s) == IF s = None THEN 1 ELSE s.gen + 1

\* transition.json numbers its successor after its predecessor, has a captured
\* workspace once committed, and until then state.json is the predecessor.
RecordShape ==
  tr # None =>
    /\ tr.succ.gen = Succeeds(tr.prior)
    /\ tr.phase = "commit" => tr.ws # -1
    /\ tr.phase = "rollback" => View(state) = View(tr.prior)

\* Which record each label works on.
LabelShape ==
  /\ pc \in BeforeRecord \cup AdoptLabels \cup DownLabels => tr = None
  /\ pc \in AfterRecord \cup RollbackLabels \cup RestoreLabels =>
       tr # None /\ tr.phase = "rollback"
  /\ pc \in CommitLabels \cup PublishLabels => tr # None /\ tr.phase = "commit"
  /\ pc \in RestoreLabels => tr.prior # None
  /\ pc \in {"p.history", "p.destroy", "p.clear"} => View(state) = View(tr.succ)
  /\ pc \in DownLabels \ {"d.stop"} => state # None
  /\ pc \in DestroyLabels \ {"x.first"} => tr # None \/ state # None

\* What the locals of the running command hold.
LocalShape ==
  /\ loc.op = "up" => loc.decl \in Decls
  /\ pc \in UpLabels \cup AdoptLabels \cup CleanupLabels =>
       loc.op = "up" /\ ~loc.recovering
  /\ pc \in CommitLabels \cup RollbackLabels => loc.recovering
  /\ pc \in AdoptLabels => loc.prior # None
  /\ pc \in AdoptLabels \cup {"u.load"} =>
       View(loc.prior) = View(state) /\ (loc.active => loc.prior # None)
  /\ pc \in AdoptLabels \cup {"recover", "u.read", "u.load"} =>
       ~loc.recorded /\ ~loc.cutover /\ ~loc.recovering

\* What up keeps from the numbering of its successor to its return.
UpShape ==
  InUp =>
    /\ loc.op = "up"
    /\ loc.gen \in Gens /\ loc.gen = Succeeds(loc.prior)
    /\ loc.active \/ loc.cutover => loc.prior # None
    /\ loc.recorded <=> tr # None
    /\ ~loc.recorded => ~loc.cutover /\ View(loc.prior) = View(state)
    /\ loc.recorded => tr.prior = loc.prior
    /\ pc \in CleanupLabels /\ tr # None => tr.phase = "rollback"
    /\ pc \in {"u.stopdoor", "u.stop"} => loc.cutover

Shape == TypeOK /\ RecordShape /\ LabelShape /\ LocalShape /\ UpShape

-----------------------------------------------------------------------------
(* Types of the parts an action is made of *)

\* Generations and process ids.
LEMMA ConstantTypes ==
  /\ 0 \in 0..MaxGen /\ Gens \subseteq 0..MaxGen
  /\ 0 \in 0..MaxPid /\ Pids \subseteq 0..MaxPid
  /\ 0 \in 0..MaxWs /\ -1 \in -1..MaxWs /\ 0..MaxWs \subseteq -1..MaxWs
BY WorldConstants DEF Gens, Pids

\* The locals of a fresh command.
LEMMA NoLocalsType == NoLocals \in Locals
BY ConstantTypes DEF NoLocals, Locals

\* What a command keeps when its recovery is over.
LEMMA CommandLocalsType ==
  ASSUME TypeOK
  PROVE  [NoLocals EXCEPT !.op = loc.op, !.decl = loc.decl] \in Locals
<1>1. loc \in Locals
  BY DEF TypeOK
<1> QED BY <1>1, NoLocalsType DEF Locals

\* podman start, stop and rm.
LEMMA StartCtrType ==
  ASSUME TypeOK, NEW g \in Gens, StartCtr(g)
  PROVE  ctr' \in [Gens -> CtrStatus]
BY DEF TypeOK, StartCtr, Running, CtrStatus

\* Taking a door out of its namespace keeps its type.
LEMMA UnpinType ==
  ASSUME TypeOK, NEW g \in Gens
  PROVE  Unpin(g) \in [Pids -> {None} \cup Door]
BY DEF TypeOK, Unpin, Door

\* Stopping or destroying a container keeps containers and doors of their types.
LEMMA StopCtrType ==
  ASSUME TypeOK, NEW g \in Gens, StopCtr(g) \/ DestroyCtr(g)
  PROVE  /\ ctr' \in [Gens -> CtrStatus] /\ img' \in [Gens -> {None} \cup Decls]
         /\ door' \in [Pids -> {None} \cup Door] /\ pidfile' \in 0..MaxPid
BY UnpinType DEF TypeOK, StopCtr, DestroyCtr, Running, CtrStatus

\* stopProxy.
LEMMA StopDoorType ==
  ASSUME TypeOK, StopDoor
  PROVE  door' \in [Pids -> {None} \cup Door] /\ pidfile' \in 0..MaxPid
BY ConstantTypes DEF TypeOK, StopDoor, Unowned

\* Every error path ends at a label.
LEMMA OnErrorType ==
  ASSUME NEW l \in Labels
  PROVE  OnError(l) \in {"idle"} \cup Labels
BY DEF OnError, CleanupNext, Labels, UpLabels, PublishLabels, CleanupLabels,
       AdoptLabels, RecoverLabels, RestoreLabels, DownLabels, DestroyLabels

\* The error path of a label leads to a label with locals of their type.
LEMMA FailType ==
  ASSUME TypeOK, NEW l \in Labels, Fail(l)
  PROVE  pc' \in {"idle"} \cup Labels /\ loc' \in Locals
<1>1. [loc EXCEPT !.failed = loc.failed \/ l \in Failing] \in Locals
  BY DEF TypeOK, Locals
<1> QED BY <1>1, OnErrorType, NoLocalsType DEF Fail

\* recordFailure of a step of up.
LEMMA FailureRecordType ==
  ASSUME TypeOK, loc.decl \in Decls, NEW l, FailureRecord(l)
  PROVE  last' \in {None} \cup Record /\ logged' \in [Gens -> 0..2]
BY ConstantTypes DEF TypeOK, FailureRecord, AppendRecord, History, Record, book

\* A step that writes files of their types.
LEMMA WriteType ==
  ASSUME TypeOK, NEW from, NEW to \in Labels, NEW s \in {None} \cup State,
         NEW a \in {None} \cup Decls, NEW p \in {None} \cup Decls,
         NEW t \in {None} \cup Transition, Write(from, to, s, a, p, t)
  PROVE  TypeOK'
BY DEF TypeOK, Write, Goto, Keep, book, host, doors, budget

\* A step that ends the owned door.
LEMMA EndDoorType ==
  ASSUME TypeOK, NEW from, NEW to \in Labels, EndDoor(from, to)
  PROVE  TypeOK'
BY StopDoorType DEF TypeOK, EndDoor, Goto, Keep, files, book, host, doors, budget

\* A command that returns.
LEMMA ReturnType ==
  ASSUME Return
  PROVE  pc' \in {"idle"} \cup Labels /\ loc' \in Locals
BY NoLocalsType DEF Return

-----------------------------------------------------------------------------
(* Every step is well typed *)

\* The tuples and label sets that every step is written with.
USE DEF files, book, host, doors, budget, Goto, Keep,
        Labels, UpLabels, PublishLabels, CleanupLabels, AdoptLabels,
        RecoverLabels, RestoreLabels, DownLabels, DestroyLabels,
        BeforeRecord, AfterRecord, CommitLabels, RollbackLabels

\* startProxy of any caller: door handling that goes on, or fails as `at` does.
LEMMA SpawnDoorType ==
  ASSUME TypeOK, NEW at \in Labels, NEW ready \in Labels, NEW g \in Gens,
         at \in RecordsFailure => loc.decl \in Decls, SpawnDoor(at, ready, g)
  PROVE  TypeOK'
<1>1. CASE Running(g) /\ ~PortTaken(g)
  <2>1. PICK p \in Pids: /\ door' = [Unowned EXCEPT ![p] = [gen |-> g, ns |-> "current"]]
                         /\ loc' = [loc EXCEPT !.pid = p]
    BY <1>1 DEF SpawnDoor
  <2>2. door' \in [Pids -> {None} \cup Door]
    BY <2>1 DEF TypeOK, Unowned, Door
  <2>3. loc' \in Locals
    BY <2>1, ConstantTypes DEF TypeOK, Locals
  <2> QED BY <1>1, <2>2, <2>3, ConstantTypes DEF TypeOK, SpawnDoor
<1>2. CASE ~(Running(g) /\ ~PortTaken(g))
  <2>1. StopDoor /\ Fail(at) /\ FailureRecord(at)
    BY <1>2 DEF SpawnDoor
  <2>2. last' \in {None} \cup Record /\ logged' \in [Gens -> 0..2]
    BY <2>1, FailureRecordType DEF FailureRecord, TypeOK
  <2> QED BY <2>1, <2>2, StopDoorType, FailType DEF TypeOK, SpawnDoor
<1> QED BY <1>1, <1>2

\* Waiting for the door's record.
LEMMA ReadyDoorType ==
  ASSUME TypeOK, NEW at \in Labels, NEW to \in Labels,
         at \in RecordsFailure => loc.decl \in Decls, ReadyDoor(at, to)
  PROVE  TypeOK'
<1>1. CASE door[loc.pid] # None
  <2>1. loc' \in Locals /\ pidfile' \in 0..MaxPid
    <3>1. loc \in Locals
      BY DEF TypeOK
    <3>2. loc' = [loc EXCEPT !.doored = TRUE] /\ pidfile' = loc.pid
      BY <1>1 DEF ReadyDoor
    <3> QED BY <3>1, <3>2 DEF Locals
  <2> QED BY <1>1, <2>1 DEF TypeOK, ReadyDoor
<1>2. CASE door[loc.pid] = None
  <2>1. pidfile' = 0 /\ Fail(at) /\ FailureRecord(at)
    BY <1>2 DEF ReadyDoor
  <2>2. last' \in {None} \cup Record /\ logged' \in [Gens -> 0..2]
    BY <2>1, FailureRecordType DEF FailureRecord, TypeOK
  <2> QED BY <2>1, <2>2, ConstantTypes, FailType DEF TypeOK, ReadyDoor
<1> QED BY <1>1, <1>2

\* Starting the services of a generation.
LEMMA StartServicesType ==
  ASSUME TypeOK, NEW at \in Labels, NEW to \in Labels, NEW g \in Gens,
         at \in RecordsFailure => loc.decl \in Decls, StartServices(at, to, g)
  PROVE  TypeOK'
<1>1. CASE Running(g)
  BY <1>1 DEF TypeOK, StartServices, CtrStatus
<1>2. CASE ~Running(g)
  <2>1. Fail(at) /\ FailureRecord(at)
    BY <1>2 DEF StartServices
  <2>2. last' \in {None} \cup Record /\ logged' \in [Gens -> 0..2]
    BY <2>1, FailureRecordType DEF FailureRecord, TypeOK
  <2> QED BY <1>2, <2>1, <2>2, FailType DEF TypeOK, StartServices
<1> QED BY <1>1, <1>2

\* Staging, cutover and verification.
LEMMA UpType ==
  ASSUME Shape,
         \/ UpRead \/ UpLoad \/ UpCreate \/ UpMaterialize \/ UpRecord
         \/ UpStopDoor \/ UpStop \/ UpCapture \/ UpStart \/ UpVerify
         \/ UpReverify \/ UpCommit
  PROVE  TypeOK'
<1> USE DEF Shape
<1>0. pc \in UpLabels => loc.decl \in Decls
  BY DEF LocalShape
<1>1. CASE UpRead
  <2>1. loc' \in Locals
    <3> DEFINE e == state # None /\ ctr[state.gen] # "absent"
               a == e /\ Running(state.gen)
    <3>1. loc \in Locals /\ state \in {None} \cup State
      BY DEF TypeOK
    <3>2. loc' = [loc EXCEPT !.prior = state, !.exists = e, !.active = a]
      BY <1>1 DEF UpRead
    <3>3. e \in BOOLEAN /\ a \in BOOLEAN
      BY DEF Running
    <3> HIDE DEF e, a
    <3> QED BY <3>1, <3>2, <3>3 DEF Locals
  <2> QED BY <1>1, <2>1 DEF UpRead, TypeOK
<1>2. CASE UpLoad
  <2>1. loc' \in Locals
    <3>1. loc \in Locals
      BY DEF TypeOK
    <3>2. loc' = NoLocals \/ \E n \in Gens:
            loc' = [loc EXCEPT !.gen = n, !.restarted = FALSE]
      BY <1>2 DEF UpLoad, Return
    <3> QED BY <3>1, <3>2, NoLocalsType, ConstantTypes DEF Locals
  <2> QED BY <1>2, <2>1 DEF UpLoad, TypeOK, Return
<1>3. CASE UpCreate
  <2>1. loc.gen \in Gens /\ loc.decl \in Decls /\ pc = "u.create"
    BY <1>0, <1>3 DEF UpCreate, CreateCtr, UpShape, InUp
  <2>2. CASE ctr[loc.gen] = "absent"
    BY <1>3, <2>1, <2>2 DEF UpCreate, CreateCtr, TypeOK, CtrStatus
  <2>3. CASE ctr[loc.gen] # "absent"
    <3>1. Fail("u.create") /\ FailureRecord("u.create")
      BY <1>3, <2>3 DEF UpCreate, CreateCtr
    <3> QED BY <1>3, <2>1, <2>3, <3>1, FailType, FailureRecordType DEF UpCreate, CreateCtr, TypeOK
  <2> QED BY <2>2, <2>3
<1>4. CASE UpMaterialize
  BY <1>4 DEF UpMaterialize, TypeOK, CtrStatus
<1>5. CASE UpRecord
  <2>1. loc.gen \in Gens /\ loc.decl \in Decls
    BY <1>0, <1>5 DEF UpRecord, UpShape, InUp
  <2>2. tr' \in Transition
    BY <1>5, <2>1, ConstantTypes DEF UpRecord, TypeOK, Transition, State, Locals
  <2>3. loc' \in Locals
    BY <1>5 DEF UpRecord, TypeOK, Locals
  <2> QED BY <1>5, <2>2, <2>3 DEF UpRecord, TypeOK
<1>6. CASE UpStopDoor
  BY <1>6, EndDoorType DEF UpStopDoor
<1>7. CASE UpStop
  <2>1. loc.prior \in State
    BY <1>7 DEF UpStop, UpShape, InUp, TypeOK, Locals
  <2>2. loc.prior.gen \in Gens
    BY <2>1 DEF State
  <2> QED BY <1>7, <2>2, StopCtrType DEF UpStop, TypeOK
<1>8. CASE UpCapture
  <2>1. tr \in Transition
    BY <1>8 DEF UpCapture, Write, LabelShape, TypeOK
  <2>2. [tr EXCEPT !.ws = ws] \in Transition
    BY <2>1, ConstantTypes DEF Transition, TypeOK
  <2> QED BY <1>8, <2>2, WriteType DEF UpCapture, TypeOK
<1>9. CASE UpStart
  <2>1. loc.gen \in Gens
    BY <1>9 DEF UpStart, UpShape, InUp
  <2>2. loc' \in Locals
    BY <1>9 DEF UpStart, TypeOK, Locals
  <2> QED BY <1>9, <2>1, <2>2, StartCtrType DEF UpStart, TypeOK
<1>10. CASE UpVerify
  <2>1. loc.decl \in Decls
    BY <1>0, <1>10 DEF UpVerify
  <2> QED BY <1>10, <2>1, FailType, FailureRecordType DEF UpVerify, TypeOK
<1>11. CASE UpReverify
  <2>1. loc.decl \in Decls
    BY <1>0, <1>11 DEF UpReverify
  <2> QED BY <1>11, <2>1, FailType, FailureRecordType DEF UpReverify, TypeOK
<1>12. CASE UpCommit
  <2>1. tr \in Transition /\ tr.succ \in State
    BY <1>12 DEF UpCommit, LabelShape, TypeOK, Transition
  <2>2. [tr.succ EXCEPT !.status = "running", !.proxy = loc.pid] \in State
    BY <2>1 DEF State, TypeOK, Locals
  <2>3. tr' \in Transition
    BY <1>12, <2>1, <2>2, ConstantTypes DEF UpCommit, Transition, TypeOK
  <2> QED BY <1>12, <2>3 DEF UpCommit, TypeOK
<1> QED
  BY <1>1, <1>2, <1>3, <1>4, <1>5, <1>6, <1>7, <1>8, <1>9, <1>10, <1>11, <1>12

\* Publishing and cleanup.
LEMMA PublishType ==
  ASSUME Shape,
         \/ PublishDigest \/ PublishApplied \/ PublishPlan \/ PublishState
         \/ PublishHistory \/ PublishDestroy \/ PublishClear
         \/ CleanupDoor \/ CleanupStop \/ CleanupDestroy \/ CleanupClear
  PROVE  TypeOK'
<1> USE DEF Shape
<1>0. pc \in PublishLabels => /\ tr \in Transition /\ tr.succ \in State
                              /\ tr.succ.gen \in Gens /\ tr.succ.decl \in Decls
                              /\ tr.ws \in 0..MaxWs
  <2>1. pc \in PublishLabels => /\ tr \in Transition /\ tr # None
                                /\ tr.phase = "commit"
    BY DEF LabelShape, TypeOK
  <2>2. tr \in Transition => tr.succ \in State /\ tr.ws \in -1..MaxWs
    BY DEF Transition
  <2>3. pc \in PublishLabels => tr.ws # -1
    BY <2>1 DEF RecordShape
  <2>4. tr.succ \in State => tr.succ.gen \in Gens /\ tr.succ.decl \in Decls
    BY DEF State
  <2> QED BY <2>1, <2>2, <2>3, <2>4, WorldConstants
<1>1. CASE PublishDigest
  BY <1>0, <1>1, ConstantTypes DEF PublishDigest, TypeOK
<1>2. CASE PublishApplied
  BY <1>0, <1>2, WriteType DEF PublishApplied, TypeOK, Write
<1>3. CASE PublishPlan
  BY <1>0, <1>3, WriteType DEF PublishPlan, TypeOK, Write
<1>4. CASE PublishState
  BY <1>0, <1>4, WriteType DEF PublishState, TypeOK, Write
<1>5. CASE PublishHistory
  <2>1. History("applied", tr.succ.decl, tr.ws) \in Record
    BY <1>0, <1>5 DEF PublishHistory, History, Record
  <2>2. last' \in {None} \cup Record /\ logged' \in [Gens -> 0..2]
    <3>1. \A g \in Gens: logged[g] \in 0..2
      BY DEF TypeOK
    <3> QED BY <1>5, <2>1, <3>1 DEF PublishHistory, AppendOnce, TypeOK
  <2> QED BY <1>5, <2>2 DEF PublishHistory, TypeOK
<1>6. CASE PublishDestroy
  <2>1. tr.prior # None => tr.prior.gen \in Gens
    BY <1>0, <1>6 DEF PublishDestroy, Transition, State
  <2>2. CASE tr.prior # None
    BY <1>6, <2>1, <2>2, StopCtrType DEF PublishDestroy, TypeOK
  <2>3. CASE tr.prior = None
    BY <1>6, <2>3 DEF PublishDestroy, TypeOK
  <2> QED BY <2>2, <2>3
<1>7. CASE PublishClear
  <2>1. loc' \in Locals
    BY <1>7, NoLocalsType, CommandLocalsType DEF PublishClear, Return
  <2> QED BY <1>7, <2>1 DEF PublishClear, Return, Recovered, TypeOK
<1>8. CASE CleanupDoor
  BY <1>8, StopDoorType DEF CleanupDoor, TypeOK
<1>9. CASE CleanupStop
  <2>1. loc.gen \in Gens
    BY <1>9 DEF CleanupStop, UpShape, InUp
  <2>2. CASE loc.started
    BY <1>9, <2>1, <2>2, StopCtrType DEF CleanupStop, CleanupNext, TypeOK
  <2>3. CASE ~loc.started
    BY <1>9, <2>3 DEF CleanupStop, CleanupNext, TypeOK
  <2> QED BY <2>2, <2>3
<1>10. CASE CleanupDestroy
  <2>1. loc.gen \in Gens
    BY <1>10 DEF CleanupDestroy, UpShape, InUp
  <2> QED BY <1>10, <2>1, StopCtrType DEF CleanupDestroy, TypeOK
<1>11. CASE CleanupClear
  BY <1>11, ReturnType DEF CleanupClear, TypeOK
<1> QED BY <1>1, <1>2, <1>3, <1>4, <1>5, <1>6, <1>7, <1>8, <1>9, <1>10, <1>11

\* The predecessor of a label that restores one, as a State.
LEMMA RestorePrior ==
  ASSUME Shape, pc \in RestoreLabels
  PROVE  /\ tr \in Transition /\ tr.prior \in State
         /\ tr.prior.gen \in Gens /\ tr.prior.decl \in Decls
<1>1. tr \in Transition /\ tr.prior \in State
  BY DEF Shape, LabelShape, TypeOK, Transition
<1> QED BY <1>1 DEF State

\* Restarting a predecessor keeps every type.
LEMMA RestoreType ==
  ASSUME Shape,
         \/ RestoreStart \/ RestoreVerify \/ RestoreApplied \/ RestorePlan
         \/ RestoreState
  PROVE  TypeOK'
<1> USE DEF Shape
<1>0. pc \in RestoreLabels
  BY DEF RestoreStart, RestoreVerify, RestoreApplied, RestorePlan, RestoreState, Write
<1>1. CASE RestoreStart
  BY <1>0, <1>1, RestorePrior, StartCtrType, FailType DEF RestoreStart, TypeOK
<1>2. CASE RestoreVerify
  <2>1. [loc EXCEPT !.pid = 0] \in Locals
    BY ConstantTypes DEF TypeOK, Locals
  <2> QED BY <1>2, <2>1, FailType DEF RestoreVerify, TypeOK
<1>3. CASE RestoreApplied
  BY <1>0, <1>3, RestorePrior, WriteType DEF RestoreApplied, TypeOK
<1>4. CASE RestorePlan
  BY <1>0, <1>4, RestorePrior, WriteType DEF RestorePlan, TypeOK
<1>5. CASE RestoreState
  <2>1. [tr.prior EXCEPT !.status = "running", !.proxy = loc.pid] \in State
    BY <1>0, RestorePrior DEF State, TypeOK, Locals
  <2> QED BY <1>5, <2>1, WriteType DEF RestoreState, TypeOK
<1> QED BY <1>1, <1>2, <1>3, <1>4, <1>5

\* The predecessor that adopt works on.
LEMMA AdoptPrior ==
  ASSUME Shape, pc \in AdoptLabels
  PROVE  /\ loc \in Locals /\ loc.prior \in State /\ loc.decl \in Decls
         /\ loc.prior.gen \in Gens /\ loc.prior.proxy \in 0..MaxPid
<1>1. loc \in Locals /\ loc.prior \in State /\ loc.decl \in Decls
  BY DEF Shape, LocalShape, TypeOK, Locals
<1> QED BY <1>1 DEF State

\* Adopting keeps every type.
LEMMA AdoptType ==
  ASSUME Shape, AdoptStep
  PROVE  TypeOK'
<1> USE DEF Shape
<1>0. pc \in AdoptLabels
  BY DEF AdoptStep, AdoptStart, AdoptVerify, AdoptKeepDoor, AdoptSpawnDoor,
         AdoptNoDoor, ReadyDoor, SpawnDoor, StartServices, AdoptPlan, AdoptState,
         AdoptHistory, AdoptUndo, AdoptUnstart, Write
<1>1. CASE AdoptStart
  <2>1. [loc EXCEPT !.restarted = TRUE] \in Locals
    BY DEF TypeOK, Locals
  <2> QED BY <1>0, <1>1, <2>1, AdoptPrior, StartCtrType DEF AdoptStart, TypeOK
<1>2. CASE AdoptVerify
  BY <1>2, FailType DEF AdoptVerify, TypeOK
<1>3. CASE AdoptKeepDoor
  <2>1. [loc EXCEPT !.pid = pidfile] \in Locals
    BY DEF TypeOK, Locals
  <2> QED BY <1>3, <2>1, FailType DEF AdoptKeepDoor, AfterAdoptDoor, TypeOK
<1>4. CASE AdoptSpawnDoor
  BY <1>0, <1>4, AdoptPrior, SpawnDoorType DEF AdoptSpawnDoor
<1>5. CASE AdoptNoDoor
  <2>1. [loc EXCEPT !.pid = IF DoorLive THEN 0 ELSE loc.prior.proxy] \in Locals
    BY <1>0, AdoptPrior, ConstantTypes DEF Locals
  <2> QED BY <1>5, <2>1, StopDoorType DEF AdoptNoDoor, AfterAdoptDoor, TypeOK
<1>6. CASE ReadyDoor("a.ready", AfterAdoptDoor)
  BY <1>0, <1>6, AdoptPrior, ReadyDoorType DEF AfterAdoptDoor
<1>7. CASE StartServices("a.services", "a.plan", loc.prior.gen)
  BY <1>0, <1>7, AdoptPrior, StartServicesType
<1>8. CASE AdoptPlan
  BY <1>0, <1>8, AdoptPrior, WriteType DEF AdoptPlan, TypeOK
<1>9. CASE AdoptState
  <2>1. [loc.prior EXCEPT !.status = "running", !.proxy = loc.pid] \in State
    BY <1>0, AdoptPrior DEF State, Locals
  <2> QED BY <1>9, <2>1, WriteType DEF AdoptState, TypeOK
<1>10. CASE AdoptHistory
  <2>1. last' \in Record /\ logged' = logged
    BY <1>0, <1>10, AdoptPrior DEF AdoptHistory, AppendRecord, History, Record, TypeOK
  <2> QED BY <1>10, <2>1, ReturnType DEF AdoptHistory, TypeOK
<1>11. CASE AdoptUndo
  BY <1>11, StopDoorType DEF AdoptUndo, TypeOK
<1>12. CASE AdoptUnstart
  <2>1. /\ ctr' \in [Gens -> CtrStatus] /\ img' \in [Gens -> {None} \cup Decls]
        /\ door' \in [Pids -> {None} \cup Door] /\ pidfile' \in 0..MaxPid
    BY <1>0, <1>12, AdoptPrior, StopCtrType DEF AdoptUnstart, TypeOK
  <2>2. pc' \in {"idle"} \cup Labels /\ loc' \in Locals
    BY <1>12, ReturnType DEF AdoptUnstart, TypeOK
  <2> QED BY <1>12, <2>1, <2>2 DEF AdoptUnstart, TypeOK
<1> QED
  BY <1>1, <1>2, <1>3, <1>4, <1>5, <1>6, <1>7, <1>8, <1>9, <1>10, <1>11, <1>12
  DEF AdoptStep

\* Recovery: what its labels know of the record.
LEMMA RecoverRecord ==
  ASSUME Shape, pc \in CommitLabels \cup RollbackLabels
  PROVE  /\ tr \in Transition /\ tr.succ \in State
         /\ tr.succ.gen \in Gens /\ tr.succ.decl \in Decls
         /\ tr.prior \in {None} \cup State /\ PriorDecl \in {None} \cup Decls
<1>1. /\ tr \in Transition /\ tr.succ \in State
      /\ tr.prior \in {None} \cup State
  BY DEF Shape, LabelShape, TypeOK, Transition
<1> QED BY <1>1 DEF State, PriorDecl

\* Recovering keeps every type.
LEMMA RecoverType ==
  ASSUME Shape,
         \/ Recover \/ CommitStart \/ CommitVerify \/ CommitRecord
         \/ RollbackDoor \/ RollbackDestroy \/ RollbackState \/ RollbackApplied
         \/ RollbackPlan \/ RollbackClear
  PROVE  TypeOK'
<1> USE DEF Shape
<1>1. CASE Recover
  <2>1. [loc EXCEPT !.recovering = TRUE] \in Locals
    BY DEF TypeOK, Locals
  <2>2. pc' \in {"idle"} \cup Labels /\ loc' \in Locals
    BY <1>1, <2>1, ReturnType DEF Recover, Recovered, TypeOK
  <2> QED BY <1>1, <2>2 DEF Recover, TypeOK
<1>2. CASE CommitStart
  <2>1. [loc EXCEPT !.restarted = ~Running(tr.succ.gen)] \in Locals
    BY DEF TypeOK, Locals
  <2> QED BY <1>2, <2>1, RecoverRecord, StartCtrType DEF CommitStart, TypeOK
<1>3. CASE CommitVerify
  BY <1>3, FailType DEF CommitVerify, TypeOK
<1>4. CASE CommitRecord
  <2>1. tr \in Transition /\ tr.succ \in State
    BY <1>4, RecoverRecord DEF CommitRecord, Write
  <2>2. [tr.succ EXCEPT !.proxy = loc.pid] \in State
    BY <2>1 DEF State, TypeOK, Locals
  <2>3. [tr EXCEPT !.succ = [tr.succ EXCEPT !.proxy = loc.pid]] \in Transition
    BY <2>1, <2>2 DEF Transition
  <2> QED BY <1>4, <2>3, WriteType DEF CommitRecord, TypeOK
<1>5. CASE RollbackDoor
  BY <1>5, EndDoorType DEF RollbackDoor
<1>6. CASE RollbackDestroy
  BY <1>6, RecoverRecord, StopCtrType DEF RollbackDestroy, TypeOK
<1>7. CASE RollbackState
  BY <1>7, RecoverRecord, WriteType DEF RollbackState, TypeOK, Write
<1>8. CASE RollbackApplied
  BY <1>8, RecoverRecord, WriteType DEF RollbackApplied, TypeOK, Write
<1>9. CASE RollbackPlan
  BY <1>9, RecoverRecord, WriteType DEF RollbackPlan, TypeOK, Write
<1>10. CASE RollbackClear
  BY <1>10, CommandLocalsType DEF RollbackClear, Recovered, TypeOK
<1> QED BY <1>1, <1>2, <1>3, <1>4, <1>5, <1>6, <1>7, <1>8, <1>9, <1>10

\* startProxy and startServices in up and in recovery.
LEMMA DoorStepType ==
  ASSUME Shape,
         \/ SpawnDoor("u.door", "u.ready", loc.gen)
         \/ ReadyDoor("u.ready", "u.services")
         \/ StartServices("u.services", "u.reverify", loc.gen)
         \/ SpawnDoor("m.door", "m.ready", tr.succ.gen)
         \/ ReadyDoor("m.ready", "m.record")
         \/ StartServices("m.services", "p.digest", tr.succ.gen)
         \/ SpawnDoor("r.door", "r.ready", tr.prior.gen)
         \/ ReadyDoor("r.ready", "r.services")
         \/ StartServices("r.services", "r.applied", tr.prior.gen)
  PROVE  TypeOK'
<1>0. TypeOK
  BY DEF Shape
<1>1. pc \in {"u.door", "u.ready", "u.services"} =>
        loc.gen \in Gens /\ loc.decl \in Decls
  BY DEF Shape, UpShape, InUp, LocalShape
<1>2. CASE SpawnDoor("u.door", "u.ready", loc.gen)
  BY <1>0, <1>1, <1>2, SpawnDoorType DEF SpawnDoor
<1>3. CASE ReadyDoor("u.ready", "u.services")
  BY <1>0, <1>1, <1>3, ReadyDoorType DEF ReadyDoor
<1>4. CASE StartServices("u.services", "u.reverify", loc.gen)
  BY <1>0, <1>1, <1>4, StartServicesType DEF StartServices
<1>5. CASE SpawnDoor("m.door", "m.ready", tr.succ.gen)
  <2>1. tr.succ.gen \in Gens
    BY <1>5, RecoverRecord DEF SpawnDoor
  <2> QED BY <1>0, <1>5, <2>1, SpawnDoorType DEF RecordsFailure
<1>6. CASE ReadyDoor("m.ready", "m.record")
  BY <1>0, <1>6, ReadyDoorType DEF RecordsFailure
<1>7. CASE StartServices("m.services", "p.digest", tr.succ.gen)
  <2>1. tr.succ.gen \in Gens
    BY <1>7, RecoverRecord DEF StartServices
  <2> QED BY <1>0, <1>7, <2>1, StartServicesType DEF RecordsFailure
<1>8. CASE SpawnDoor("r.door", "r.ready", tr.prior.gen)
  <2>1. tr.prior.gen \in Gens
    BY <1>8, RestorePrior DEF SpawnDoor
  <2> QED BY <1>0, <1>8, <2>1, SpawnDoorType DEF RecordsFailure
<1>9. CASE ReadyDoor("r.ready", "r.services")
  BY <1>0, <1>9, ReadyDoorType DEF RecordsFailure
<1>10. CASE StartServices("r.services", "r.applied", tr.prior.gen)
  <2>1. tr.prior.gen \in Gens
    BY <1>10, RestorePrior DEF StartServices
  <2> QED BY <1>0, <1>10, <2>1, StartServicesType DEF RecordsFailure
<1> QED BY <1>2, <1>3, <1>4, <1>5, <1>6, <1>7, <1>8, <1>9, <1>10

\* down and destroy.
LEMMA StopType ==
  ASSUME Shape, DownStep \/ DestroyStep
  PROVE  TypeOK'
<1> USE DEF Shape
<1>0. \A s \in {None} \cup State: s # None => s.gen \in Gens /\ s.decl \in Decls
  BY DEF State
<1>a. state \in {None} \cup State /\ Authoritative \in {None} \cup State
        /\ Candidate \in {None} \cup State
  BY DEF TypeOK, Authoritative, Candidate, Transition
<1>1. CASE DownStop
  <2>1. pc' \in {"idle"} \cup Labels /\ loc' \in Locals
    BY <1>1, ReturnType DEF DownStop, TypeOK
  <2>2. /\ ctr' \in [Gens -> CtrStatus] /\ img' \in [Gens -> {None} \cup Decls]
        /\ door' \in [Pids -> {None} \cup Door] /\ pidfile' \in 0..MaxPid
    BY <1>0, <1>a, <1>1, StopCtrType DEF DownStop, TypeOK
  <2> QED BY <1>1, <2>1, <2>2 DEF DownStop, TypeOK
<1>2. CASE DownDoor
  BY <1>2, EndDoorType DEF DownDoor
<1>3. CASE DownState
  <2>1. state \in State
    BY <1>a, <1>3 DEF DownState, Write, LabelShape
  <2>2. [state EXCEPT !.status = "down", !.proxy = 0] \in State
    BY <2>1, ConstantTypes DEF State
  <2> QED BY <1>3, <2>2, WriteType DEF DownState, TypeOK
<1>4. CASE DownHistory
  <2>1. state.decl \in Decls
    BY <1>0, <1>a, <1>4 DEF DownHistory, LabelShape
  <2>2. last' \in Record /\ logged' = logged
    BY <1>4, <2>1, ConstantTypes DEF DownHistory, AppendRecord, History, Record
  <2> QED BY <1>4, <2>2, ReturnType DEF DownHistory, TypeOK
<1>5. CASE DestroyFirst
  <2>1. pc' \in {"idle"} \cup Labels /\ loc' \in Locals
    BY <1>5, ReturnType DEF DestroyFirst, TypeOK
  <2>2. /\ ctr' \in [Gens -> CtrStatus] /\ img' \in [Gens -> {None} \cup Decls]
        /\ door' \in [Pids -> {None} \cup Door] /\ pidfile' \in 0..MaxPid
    BY <1>0, <1>a, <1>5, StopCtrType DEF DestroyFirst, TypeOK
  <2> QED BY <1>5, <2>1, <2>2 DEF DestroyFirst, TypeOK
<1>6. CASE DestroySecond
  <2>1. /\ ctr' \in [Gens -> CtrStatus] /\ img' \in [Gens -> {None} \cup Decls]
        /\ door' \in [Pids -> {None} \cup Door] /\ pidfile' \in 0..MaxPid
    BY <1>0, <1>a, <1>6, StopCtrType DEF DestroySecond, TypeOK
  <2> QED BY <1>6, <2>1 DEF DestroySecond, TypeOK
<1>7. CASE DestroyDoor
  BY <1>7, EndDoorType DEF DestroyDoor
<1>8. CASE DestroyHistory
  <2>1. Authoritative # None \/ tr # None
    BY <1>8 DEF DestroyHistory, LabelShape, Authoritative
  <2>2. tr # None => tr.succ.decl \in Decls
    BY DEF TypeOK, Transition, State
  <2>3. last' \in Record /\ logged' = logged
    BY <1>0, <1>a, <1>8, <2>1, <2>2, ConstantTypes
    DEF DestroyHistory, AppendRecord, History, Record
  <2> QED BY <1>8, <2>3 DEF DestroyHistory, TypeOK
<1>9. CASE DestroyRename
  <2>1. digest' \in [Gens -> -1..MaxWs] /\ logged' \in [Gens -> 0..2]
    BY <1>9, ConstantTypes DEF DestroyRename
  <2>2. doomed' \in BOOLEAN /\ ws' \in 0..MaxWs /\ pidfile' \in 0..MaxPid
    BY <1>9, ConstantTypes DEF DestroyRename
  <2> QED BY <1>9, <2>1, <2>2, ReturnType DEF DestroyRename, TypeOK
<1> QED
  BY <1>1, <1>2, <1>3, <1>4, <1>5, <1>6, <1>7, <1>8, <1>9 DEF DownStep, DestroyStep

\* recordFailure writes the declaration that up applies.
LEMMA FailingDecl ==
  ASSUME Shape, FailureRecord(pc)
  PROVE  last' \in {None} \cup Record /\ logged' \in [Gens -> 0..2]
<1>1. CASE pc \in RecordsFailure
  <2>1. loc.decl \in Decls
    BY <1>1 DEF Shape, LocalShape, RecordsFailure
  <2> QED BY <2>1, FailureRecordType DEF Shape
<1>2. CASE pc \notin RecordsFailure
  BY <1>2 DEF FailureRecord, Shape, TypeOK
<1> QED BY <1>1, <1>2

\* Failures, the start of a command, and the world's own writes.
LEMMA FailureType ==
  ASSUME Shape, Command \/ Failure \/ WorldWrites
  PROVE  TypeOK'
<1> USE DEF Shape
<1>1. CASE Command
  <2>1. PICK op \in {"up", "down", "destroy"}, d \in {None} \cup Decls: Begin(op, d)
    BY <1>1 DEF Command
  <2>2. [NoLocals EXCEPT !.op = op, !.decl = d] \in Locals
    BY NoLocalsType DEF Locals
  <2> QED BY <2>1, <2>2 DEF Begin, TypeOK
<1>2. CASE Crash
  <2>1. crashes' \in 0..MaxCrashes
    BY <1>2, WorldConstants DEF Crash, TypeOK
  <2> QED BY <1>2, <2>1, ReturnType DEF Crash, TypeOK
<1>3. CASE Reboot
  <2>1. ctr' \in [Gens -> CtrStatus] /\ door' \in [Pids -> {None} \cup Door]
    BY <1>3 DEF Reboot, TypeOK, CtrStatus
  <2>2. crashes' \in 0..MaxCrashes
    BY <1>3, WorldConstants DEF Reboot, TypeOK
  <2> QED BY <1>3, <2>1, <2>2, ReturnType DEF Reboot, TypeOK
<1>4. CASE HostFailure
  <2>1. pc \in Labels /\ Fail(pc) /\ FailureRecord(pc)
    BY <1>4, FailureConstants DEF HostFailure
  <2>2. pc' \in {"idle"} \cup Labels /\ loc' \in Locals
    BY <2>1, FailType
  <2>3. last' \in {None} \cup Record /\ logged' \in [Gens -> 0..2]
    BY <2>1, FailingDecl
  <2>4. door' \in [Pids -> {None} \cup Door] /\ pidfile' \in 0..MaxPid
    BY <1>4, ConstantTypes DEF HostFailure, TypeOK
  <2>5. faults' \in 0..MaxFaults
    BY <1>4, WorldConstants DEF HostFailure, TypeOK
  <2> QED BY <1>4, <2>2, <2>3, <2>4, <2>5 DEF HostFailure, TypeOK
<1>8. CASE LostReply
  <2>1. pc \in {"u.create", "u.stop", "u.start"} /\ Fail(pc) /\ FailureRecord(pc)
    BY <1>8 DEF LostReply, CreateCtr
  <2>2. pc' \in {"idle"} \cup Labels /\ loc' \in Locals
    BY <2>1, FailType
  <2>3. last' \in {None} \cup Record /\ logged' \in [Gens -> 0..2]
    BY <2>1, FailingDecl
  <2>4. loc.gen \in Gens /\ loc.decl \in Decls
    BY <2>1 DEF UpShape, InUp, LocalShape
  <2>5. pc = "u.stop" => loc.prior.gen \in Gens
    BY DEF UpShape, InUp, TypeOK, Locals, State
  <2>6. /\ ctr' \in [Gens -> CtrStatus] /\ img' \in [Gens -> {None} \cup Decls]
        /\ door' \in [Pids -> {None} \cup Door] /\ pidfile' \in 0..MaxPid
    <3>1. CASE pc = "u.create"
      BY <1>8, <2>4, <3>1 DEF LostReply, CreateCtr, TypeOK, CtrStatus
    <3>2. CASE pc = "u.stop"
      BY <1>8, <2>5, <3>2, StopCtrType DEF LostReply, CreateCtr
    <3>3. CASE pc = "u.start"
      BY <1>8, <2>4, <3>3, StartCtrType DEF LostReply, CreateCtr, TypeOK
    <3> QED BY <2>1, <3>1, <3>2, <3>3
  <2>7. faults' \in 0..MaxFaults
    BY <1>8, WorldConstants DEF LostReply, CreateCtr, TypeOK
  <2> QED BY <1>8, <2>2, <2>3, <2>6, <2>7 DEF LostReply, CreateCtr, TypeOK
<1>5. ASSUME NEW g \in Gens, ContainerExit(g) PROVE TypeOK'
  BY <1>5, StopCtrType, WorldConstants DEF ContainerExit, TypeOK
<1>6. ASSUME NEW p \in Pids, DoorExit(p) PROVE TypeOK'
  BY <1>6, WorldConstants DEF DoorExit, TypeOK
<1>7. CASE WorldWrites
  BY <1>7, WorldConstants DEF WorldWrites, TypeOK
<1> QED BY <1>1, <1>2, <1>3, <1>4, <1>5, <1>6, <1>7, <1>8 DEF Failure

\* Every step of the lifecycle is well typed where Shape holds.
LEMMA StepType ==
  ASSUME Shape, [Next]_vars
  PROVE  TypeOK'
<1>1. CASE UNCHANGED vars
  BY <1>1 DEF Shape, TypeOK, vars
<1>2. CASE UpStep
  BY <1>2, UpType, PublishType, DoorStepType DEF UpStep
<1>3. CASE AdoptStep
  BY <1>3, AdoptType
<1>4. CASE RecoverStep
  BY <1>4, RecoverType, RestoreType, DoorStepType DEF RecoverStep
<1>5. CASE DownStep \/ DestroyStep
  BY <1>5, StopType
<1>6. CASE Command \/ Failure \/ WorldWrites
  BY <1>6, FailureType
<1> QED BY <1>1, <1>2, <1>3, <1>4, <1>5, <1>6 DEF Next, Step

-----------------------------------------------------------------------------
(* Shape is inductive *)

\* A command that returns leaves what the record alone must say.
LEMMA IdleShape ==
  ASSUME TypeOK', RecordShape', Return
  PROVE  Shape'
<1>1. pc' = "idle" /\ loc'.op = "none"
  BY DEF Return, NoLocals
<1>2. LabelShape'
  BY <1>1 DEF LabelShape
<1>3. LocalShape'
  BY <1>1 DEF LocalShape
<1>4. UpShape'
  BY <1>1 DEF UpShape, InUp
<1> QED BY <1>2, <1>3, <1>4 DEF Shape

\* An error of a step of up before the commit record: the deferred cleanup.
LEMMA UpFailShape ==
  ASSUME Shape, TypeOK', pc \in UpLabels, Fail(pc), UNCHANGED <<state, tr>>
  PROVE  Shape'
<1>1. RecordShape'
  BY DEF Shape, RecordShape, View
<1>2. CASE pc \in {"u.read", "u.load", "u.create"}
  <2>1. Return
    BY <1>2 DEF Fail, OnError, Return
  <2> QED BY <1>1, <2>1, IdleShape
<1>3. CASE pc \in UpLabels \ {"u.read", "u.load", "u.create"}
  <2>1. pc' = "c.door" /\ loc' = [loc EXCEPT !.failed = @ \/ pc \in Failing]
    BY <1>3 DEF Fail, OnError
  <2>2. loc \in Locals
    BY DEF Shape, TypeOK
  <2>3. /\ loc'.op = loc.op /\ loc'.decl = loc.decl /\ loc'.recovering = loc.recovering
        /\ loc'.prior = loc.prior /\ loc'.gen = loc.gen /\ loc'.active = loc.active
        /\ loc'.cutover = loc.cutover /\ loc'.recorded = loc.recorded
    BY <2>1, <2>2 DEF Locals
  <2>4. LabelShape'
    BY <2>1 DEF LabelShape
  <2>5. LocalShape'
    BY <1>3, <2>1, <2>3 DEF Shape, LocalShape
  <2>6. UpShape'
    BY <1>3, <2>1, <2>3 DEF Shape, UpShape, InUp, LabelShape, View
  <2> QED BY <1>1, <2>4, <2>5, <2>6 DEF Shape
<1> QED BY <1>2, <1>3

\* The locals that Shape reads stay.
Kept ==
  /\ loc'.op = loc.op /\ loc'.decl = loc.decl /\ loc'.recovering = loc.recovering
  /\ loc'.prior = loc.prior /\ loc'.gen = loc.gen /\ loc'.active = loc.active
  /\ loc'.cutover = loc.cutover /\ loc'.recorded = loc.recorded

\* Between these labels nothing that Shape reads has to change.
Flow(a, b) ==
  \/ {a, b} \subseteq {"u.create", "u.materialize", "u.record"}
  \/ {a, b} \subseteq AfterRecord /\ (b \notin {"u.stopdoor", "u.stop"} \/ a = "u.stopdoor")
  \/ {a, b} \subseteq {"p.digest", "p.applied", "p.plan", "p.state"}
  \/ {a, b} \subseteq {"p.history", "p.destroy", "p.clear"}
  \/ {a, b} \subseteq CleanupLabels
  \/ a = "c.stop" /\ b = "r.start" /\ loc.cutover
  \/ {a, b} \subseteq RestoreLabels
  \/ a \in RestoreLabels /\ b = "c.destroy" /\ ~loc.recovering
  \/ {a, b} \subseteq AdoptLabels
  \/ a \in AdoptLabels /\ b = "u.load"
  \/ {a, b} \subseteq CommitLabels
  \/ a \in CommitLabels /\ b = "p.digest"
  \/ {a, b} \subseteq RollbackLabels
  \/ a \in RollbackLabels /\ b = "r.start" /\ tr.prior # None
  \/ {a, b} \subseteq DownLabels \ {"d.stop"}
  \/ {a, b} \subseteq DestroyLabels \ {"x.first"}

\* Steps along Flow that leave state.json and transition.json alone.
LEMMA FlowShape ==
  ASSUME Shape, TypeOK', Kept, UNCHANGED <<state, tr>>, Flow(pc, pc')
  PROVE  Shape'
<1> USE DEF Shape
<1>1. RecordShape'
  BY DEF RecordShape, View
<1>2. LabelShape'
  BY DEF LabelShape, Flow, View, UpShape, InUp
<1>3. LocalShape'
  <2>1. pc \in RestoreLabels /\ ~loc.recovering => loc.op = "up"
    BY DEF UpShape, InUp
  <2> QED BY <2>1 DEF LocalShape, Flow, Kept, View
<1>4. UpShape'
  <2> SUFFICES ASSUME InUp' PROVE UpShape'
    BY DEF UpShape
  <2>1. InUp
    BY DEF InUp, LocalShape, Flow, Kept
  <2>2. pc' \in {"u.stopdoor", "u.stop"} => pc \in {"u.stopdoor", "u.stop"}
    BY DEF Flow
  <2>3. pc' \in CleanupLabels => pc \in CleanupLabels \cup RestoreLabels
    BY DEF Flow
  <2>4. pc' \in CleanupLabels /\ tr # None => tr.phase = "rollback"
    BY <2>1, <2>3 DEF UpShape, LabelShape
  <2> QED BY <2>1, <2>2, <2>4 DEF UpShape, Kept, View
<1> QED BY <1>1, <1>2, <1>3, <1>4

\* An update of a local that Shape does not read.
LEMMA KeptByLocal ==
  ASSUME TypeOK, NEW b,
         \/ loc' = loc
         \/ loc' = [loc EXCEPT !.failed = b]
         \/ loc' = [loc EXCEPT !.pid = b]
         \/ loc' = [loc EXCEPT !.doored = b]
         \/ loc' = [loc EXCEPT !.started = b]
         \/ loc' = [loc EXCEPT !.restarted = b]
  PROVE  Kept
<1>1. loc \in Locals
  BY DEF TypeOK
<1> QED BY <1>1 DEF Locals, Kept

\* An error outside up: the step goes along Flow or the command returns.
LEMMA OtherFailShape ==
  ASSUME Shape, TypeOK', UNCHANGED <<state, tr>>, Fail(pc),
         pc \in Labels \ (UpLabels \cup PublishLabels)
  PROVE  Shape'
<1>1. RecordShape'
  BY DEF Shape, RecordShape, View
<1>2. CASE OnError(pc) = "idle"
  BY <1>1, <1>2, IdleShape DEF Fail, Return
<1>3. CASE OnError(pc) # "idle"
  <2>1. pc' = OnError(pc) /\ loc' = [loc EXCEPT !.failed = @ \/ pc \in Failing]
    BY <1>3 DEF Fail
  <2>2. Kept
    BY <2>1, KeptByLocal DEF Shape
  <2>3. Flow(pc, OnError(pc))
    BY <1>3 DEF OnError, CleanupNext, Flow
  <2> QED BY <2>1, <2>2, <2>3, FlowShape
<1> QED BY <1>2, <1>3

\* startProxy and startServices of every caller.
LEMMA DoorShape ==
  ASSUME Shape, TypeOK', NEW at \in Labels \ PublishLabels, NEW to \in Labels, NEW g,
         Flow(at, to),
         SpawnDoor(at, to, g) \/ ReadyDoor(at, to) \/ StartServices(at, to, g)
  PROVE  Shape'
<1>1. UNCHANGED <<state, tr>> /\ pc = at
  BY DEF SpawnDoor, ReadyDoor, StartServices
<1>2. CASE Fail(at)
  BY <1>1, <1>2, UpFailShape, OtherFailShape
<1>3. CASE ~Fail(at)
  <2>1. /\ pc' = to
        /\ \E b: loc' = loc \/ loc' = [loc EXCEPT !.pid = b]
                   \/ loc' = [loc EXCEPT !.doored = b]
    BY <1>3 DEF SpawnDoor, ReadyDoor, StartServices
  <2>2. Kept
    BY <2>1, KeptByLocal DEF Shape
  <2> QED BY <1>1, <2>1, <2>2, FlowShape
<1> QED BY <1>2, <1>3

\* up until it publishes.
LEMMA UpKeepsShape ==
  ASSUME Shape, TypeOK',
         \/ UpRead \/ UpLoad \/ UpCreate \/ UpMaterialize \/ UpRecord
         \/ UpStopDoor \/ UpStop \/ UpCapture \/ UpStart \/ UpVerify
         \/ UpReverify \/ UpCommit
  PROVE  Shape'
<1>0. TypeOK /\ loc \in Locals
  BY DEF Shape, TypeOK
<1>1. CASE UpRead
  <2>1. /\ loc'.op = loc.op /\ loc'.decl = loc.decl
        /\ loc'.recovering = loc.recovering /\ loc'.prior = state
        /\ loc'.recorded = loc.recorded /\ loc'.cutover = loc.cutover
        /\ loc'.active => state # None
        /\ pc = "u.read" /\ UNCHANGED <<state, tr>>
    BY <1>0, <1>1 DEF UpRead, Locals
  <2>2. \/ pc' \in {"a.verify", "a.start"} /\ state # None
        \/ pc' = "u.load"
    BY <1>1 DEF UpRead
  <2>3. RecordShape'
    BY <2>1 DEF Shape, RecordShape, View
  <2>4. LabelShape'
    BY <2>1, <2>2 DEF Shape, LabelShape
  <2>5. LocalShape'
    BY <2>1, <2>2 DEF Shape, LocalShape, View
  <2>6. UpShape'
    BY <2>2 DEF UpShape, InUp
  <2> QED BY <2>3, <2>4, <2>5, <2>6 DEF Shape
<1>2. CASE UpLoad
  <2>0. RecordShape'
    BY <1>2 DEF UpLoad, Shape, RecordShape, View
  <2>1. CASE Return
    BY <2>0, <2>1, IdleShape
  <2>2. CASE ~Return
    <3>1. /\ pc = "u.load" /\ pc' = "u.create" /\ UNCHANGED <<state, tr>>
          /\ Succeeds(loc.prior) \in Gens
          /\ loc' = [loc EXCEPT !.gen = Succeeds(loc.prior), !.restarted = FALSE]
      BY <1>2, <2>2 DEF UpLoad, Succeeds
    <3>2. /\ loc'.op = loc.op /\ loc'.decl = loc.decl
          /\ loc'.recovering = loc.recovering /\ loc'.prior = loc.prior
          /\ loc'.active = loc.active /\ loc'.cutover = loc.cutover
          /\ loc'.recorded = loc.recorded /\ loc'.gen = Succeeds(loc.prior)
      BY <1>0, <3>1 DEF Locals
    <3>3. LabelShape'
      BY <3>1 DEF Shape, LabelShape
    <3>4. LocalShape'
      BY <3>1, <3>2 DEF Shape, LocalShape
    <3>5. UpShape'
      BY <3>1, <3>2 DEF Shape, UpShape, InUp, LabelShape, LocalShape, View
    <3> QED BY <2>0, <3>3, <3>4, <3>5 DEF Shape
  <2> QED BY <2>1, <2>2
<1>3. CASE UpCreate
  <2>1. pc = "u.create" /\ UNCHANGED <<state, tr>>
    BY <1>3 DEF UpCreate, CreateCtr
  <2>2. CASE Fail("u.create")
    BY <2>1, <2>2, UpFailShape
  <2>3. CASE ~Fail("u.create")
    <3>1. pc' = "u.materialize" /\ loc' = loc
      BY <1>3, <2>3 DEF UpCreate, CreateCtr
    <3> QED BY <1>0, <2>1, <3>1, KeptByLocal, FlowShape DEF Flow
  <2> QED BY <2>2, <2>3
<1>4. CASE UpMaterialize
  BY <1>0, <1>4, KeptByLocal, FlowShape DEF UpMaterialize, Flow
<1>6. CASE UpStopDoor
  BY <1>0, <1>6, KeptByLocal, FlowShape DEF UpStopDoor, EndDoor, Flow
<1>7. CASE UpStop
  BY <1>0, <1>7, KeptByLocal, FlowShape DEF UpStop, Flow
<1>9. CASE UpStart
  BY <1>0, <1>9, KeptByLocal, FlowShape DEF UpStart, Flow
<1>10. CASE UpVerify
  <2>1. pc = "u.verify" /\ UNCHANGED <<state, tr>>
    BY <1>10 DEF UpVerify
  <2>2. CASE Fail("u.verify")
    BY <2>1, <2>2, UpFailShape
  <2>3. CASE ~Fail("u.verify")
    <3>1. pc' \in {"u.door", "u.services"} /\ loc' = loc
      BY <1>10, <2>3 DEF UpVerify
    <3> QED BY <1>0, <2>1, <3>1, KeptByLocal, FlowShape DEF Flow
  <2> QED BY <2>2, <2>3
<1>11. CASE UpReverify
  <2>1. pc = "u.reverify" /\ UNCHANGED <<state, tr>>
    BY <1>11 DEF UpReverify
  <2>2. CASE Fail("u.reverify")
    BY <2>1, <2>2, UpFailShape
  <2>3. CASE ~Fail("u.reverify")
    <3>1. pc' = "u.commit" /\ loc' = loc
      BY <1>11, <2>3 DEF UpReverify
    <3> QED BY <1>0, <2>1, <3>1, KeptByLocal, FlowShape DEF Flow
  <2> QED BY <2>2, <2>3
<1>5. CASE UpRecord
  <2>1. /\ loc'.op = loc.op /\ loc'.decl = loc.decl
        /\ loc'.recovering = loc.recovering /\ loc'.prior = loc.prior
        /\ loc'.active = loc.active /\ loc'.gen = loc.gen
        /\ loc'.recorded = TRUE /\ loc'.cutover = loc.active
    BY <1>0, <1>5 DEF UpRecord, Locals
  <2>2. /\ pc = "u.record" /\ state' = state /\ InUp
        /\ pc' = IF loc.active THEN "u.stopdoor" ELSE "u.capture"
    BY <1>5 DEF UpRecord, InUp
  <2>3. tr' # None
    <3>1. loc.decl \in Decls /\ loc.gen \in Gens
      BY <2>2 DEF Shape, LocalShape, UpShape
    <3>2. tr' \in Transition
      BY <1>0, <1>5, <3>1, ConstantTypes DEF UpRecord, Transition, State, Locals
    <3> QED BY <3>2, AbsentConstant
  <2>4. /\ tr'.phase = "rollback" /\ tr'.prior = loc.prior
        /\ tr'.succ.gen = loc.gen
    BY <1>5 DEF UpRecord
  <2>5. RecordShape'
    BY <2>2, <2>4 DEF Shape, RecordShape, UpShape, View, Succeeds, LabelShape
  <2>6. LabelShape'
    BY <2>2, <2>3, <2>4 DEF LabelShape
  <2>7. LocalShape'
    BY <2>1, <2>2 DEF Shape, LocalShape
  <2>8. UpShape'
    BY <2>1, <2>2, <2>3, <2>4 DEF Shape, UpShape, InUp
  <2> QED BY <2>5, <2>6, <2>7, <2>8 DEF Shape
<1>8. CASE UpCapture
  <2>1. pc = "u.capture" /\ pc' = "u.start" /\ state' = state /\ loc' = loc
    BY <1>8 DEF UpCapture, Write
  <2>2. tr \in Transition /\ tr' \in Transition /\ tr # None /\ tr' # None
    BY <1>8, <2>1, AbsentConstant, ConstantTypes
    DEF UpCapture, Write, Shape, LabelShape, TypeOK, Transition
  <2>3. tr'.phase = tr.phase /\ tr'.prior = tr.prior /\ tr'.succ = tr.succ
    BY <1>8, <2>2 DEF UpCapture, Write, Transition
  <2>4. tr.phase = "rollback"
    BY <2>1 DEF Shape, LabelShape
  <2>5. RecordShape'
    BY <2>1, <2>2, <2>3, <2>4 DEF Shape, RecordShape, View, Succeeds
  <2>6. LabelShape'
    BY <2>1, <2>2, <2>3, <2>4 DEF LabelShape
  <2>7. LocalShape'
    BY <2>1 DEF Shape, LocalShape
  <2>8. UpShape'
    BY <2>1, <2>2, <2>3 DEF Shape, UpShape, InUp
  <2> QED BY <2>5, <2>6, <2>7, <2>8 DEF Shape
<1>12. CASE UpCommit
  <2>1. pc = "u.commit" /\ pc' = "p.digest" /\ state' = state /\ loc' = loc
    BY <1>12 DEF UpCommit
  <2>2. tr \in Transition /\ tr.succ \in State /\ tr # None
    BY <2>1 DEF Shape, LabelShape, TypeOK, Transition
  <2>3. /\ tr'.phase = "commit" /\ tr'.prior = tr.prior /\ tr'.ws = ws
        /\ tr'.succ = [tr.succ EXCEPT !.status = "running", !.proxy = loc.pid]
    BY <1>12, <2>2 DEF UpCommit, Transition
  <2>4. tr'.succ.gen = tr.succ.gen
    BY <2>2, <2>3 DEF State
  <2>5. tr' # None
    <3>1. [tr.succ EXCEPT !.status = "running", !.proxy = loc.pid] \in State
      BY <1>0, <2>2 DEF State, Locals
    <3>2. tr' \in Transition
      BY <1>12, <2>2, <3>1, <1>0, ConstantTypes DEF UpCommit, Transition, TypeOK
    <3> QED BY <3>2, AbsentConstant
  <2>6. tr'.ws # -1
    BY <1>0, <2>3, WorldConstants DEF TypeOK
  <2>7. RecordShape'
    BY <2>2, <2>3, <2>4, <2>6 DEF Shape, RecordShape, Succeeds
  <2>8. LabelShape'
    BY <2>1, <2>3, <2>5 DEF LabelShape
  <2>9. LocalShape'
    BY <2>1 DEF Shape, LocalShape
  <2>10. UpShape'
    BY <2>1, <2>2, <2>3, <2>5 DEF Shape, UpShape, InUp
  <2> QED BY <2>7, <2>8, <2>9, <2>10 DEF Shape
<1> QED
  BY <1>1, <1>2, <1>3, <1>4, <1>5, <1>6, <1>7, <1>8, <1>9, <1>10, <1>11, <1>12

\* Recovery is over: the command goes on with no record on disk.
LEMMA RecoveredShape ==
  ASSUME Shape, TypeOK', tr' = None, pc' = Recovered,
         loc' = [NoLocals EXCEPT !.op = loc.op, !.decl = loc.decl]
  PROVE  Shape'
<1>1. /\ loc'.op = loc.op /\ loc'.decl = loc.decl /\ ~loc'.recovering
      /\ ~loc'.recorded /\ ~loc'.cutover
  BY DEF NoLocals
<1>2. pc' \in {"u.read", "d.stop"} /\ (pc' = "u.read" => loc.op = "up")
  BY DEF Recovered
<1>3. RecordShape'
  BY DEF RecordShape
<1>4. LabelShape'
  BY <1>2 DEF LabelShape
<1>5. LocalShape'
  BY <1>1, <1>2 DEF Shape, LocalShape
<1>6. UpShape'
  BY <1>2 DEF UpShape, InUp
<1> QED BY <1>3, <1>4, <1>5, <1>6 DEF Shape

\* Publishing and cleanup.
LEMMA PublishKeepsShape ==
  ASSUME Shape, TypeOK',
         \/ PublishDigest \/ PublishApplied \/ PublishPlan \/ PublishState
         \/ PublishHistory \/ PublishDestroy \/ PublishClear
         \/ CleanupDoor \/ CleanupStop \/ CleanupDestroy \/ CleanupClear
  PROVE  Shape'
<1>0. TypeOK /\ loc \in Locals
  BY DEF Shape, TypeOK
<1>1. CASE PublishDigest
  BY <1>0, <1>1, KeptByLocal, FlowShape DEF PublishDigest, Flow
<1>2. CASE PublishApplied \/ PublishPlan
  BY <1>0, <1>2, KeptByLocal, FlowShape DEF PublishApplied, PublishPlan, Write, Flow
<1>3. CASE PublishHistory \/ PublishDestroy
  BY <1>0, <1>3, KeptByLocal, FlowShape DEF PublishHistory, PublishDestroy, Flow
<1>4. CASE CleanupDoor \/ CleanupDestroy
  BY <1>0, <1>4, KeptByLocal, FlowShape DEF CleanupDoor, CleanupDestroy, Flow
<1>5. CASE CleanupStop
  <2>1. /\ pc = "c.stop" /\ loc' = loc /\ UNCHANGED <<state, tr>>
        /\ pc' = IF loc.cutover THEN "r.start" ELSE "c.destroy"
    BY <1>5 DEF CleanupStop, CleanupNext
  <2> QED BY <1>0, <2>1, KeptByLocal, FlowShape DEF Flow
<1>6. CASE CleanupClear
  <2>1. RecordShape'
    BY <1>6 DEF CleanupClear, Shape, RecordShape, View
  <2> QED BY <1>6, <2>1, IdleShape DEF CleanupClear
<1>7. CASE PublishState
  <2>1. /\ pc = "p.state" /\ pc' = "p.history" /\ loc' = loc /\ tr' = tr
        /\ state' = tr.succ
    BY <1>7 DEF PublishState, Write
  <2>2. tr # None /\ tr.phase = "commit"
    BY <2>1 DEF Shape, LabelShape
  <2>3. RecordShape'
    BY <2>1, <2>2 DEF Shape, RecordShape
  <2>4. LabelShape'
    BY <2>1, <2>2 DEF LabelShape
  <2>5. LocalShape'
    BY <2>1 DEF Shape, LocalShape
  <2>6. UpShape'
    BY <2>1, <2>2 DEF Shape, UpShape, InUp
  <2> QED BY <2>3, <2>4, <2>5, <2>6 DEF Shape
<1>8. CASE PublishClear
  <2>1. RecordShape'
    BY <1>8 DEF PublishClear, RecordShape
  <2>2. CASE loc.recovering
    BY <1>8, <2>2, RecoveredShape DEF PublishClear
  <2>3. CASE ~loc.recovering
    BY <1>8, <2>1, <2>3, IdleShape DEF PublishClear
  <2> QED BY <2>2, <2>3
<1> QED BY <1>1, <1>2, <1>3, <1>4, <1>5, <1>6, <1>7, <1>8

\* A write of state.json by a rollback, which is of the predecessor again.
LEMMA RestoredShape ==
  ASSUME Shape, TypeOK', Kept, tr' = tr, pc \in RestoreLabels \cup RollbackLabels,
         View(state') = View(tr.prior),
         \/ pc' \in RollbackLabels /\ loc.recovering
         \/ pc' = "c.destroy" /\ pc \in RestoreLabels /\ ~loc.recovering
  PROVE  Shape'
<1>1. tr # None /\ tr.phase = "rollback" /\ View(state) = View(tr.prior)
  BY DEF Shape, LabelShape, RecordShape
<1>2. RecordShape'
  BY <1>1 DEF Shape, RecordShape
<1>3. LabelShape'
  BY <1>1 DEF LabelShape
<1>4. pc' = "c.destroy" => loc.op = "up" /\ InUp
  BY DEF Shape, UpShape, InUp
<1>5. LocalShape'
  BY <1>4 DEF Shape, LocalShape, Kept
<1>6. UpShape'
  BY <1>1, <1>4 DEF Shape, UpShape, InUp, Kept
<1> QED BY <1>2, <1>3, <1>5, <1>6 DEF Shape

\* Restarting a predecessor keeps records and labels in step.
LEMMA RestoreKeepsShape ==
  ASSUME Shape, TypeOK',
         \/ RestoreStart \/ RestoreVerify \/ RestoreApplied \/ RestorePlan
         \/ RestoreState
  PROVE  Shape'
<1>0. TypeOK
  BY DEF Shape
<1>1. CASE RestoreStart
  <2>1. /\ pc = "r.start" /\ UNCHANGED <<state, tr>>
        /\ Fail("r.start") \/ (pc' = "r.verify" /\ loc' = loc)
    BY <1>1 DEF RestoreStart
  <2> QED BY <1>0, <2>1, OtherFailShape, KeptByLocal, FlowShape DEF Flow
<1>2. CASE RestoreVerify
  <2>1. /\ pc = "r.verify" /\ UNCHANGED <<state, tr>>
        /\ \/ Fail("r.verify")
           \/ pc' \in {"r.door", "r.services"} /\ loc' = [loc EXCEPT !.pid = 0]
    BY <1>2 DEF RestoreVerify
  <2> QED BY <1>0, <2>1, OtherFailShape, KeptByLocal, FlowShape DEF Flow
<1>3. CASE RestoreApplied \/ RestorePlan
  BY <1>0, <1>3, KeptByLocal, FlowShape DEF RestoreApplied, RestorePlan, Write, Flow
<1>4. CASE RestoreState
  <2>1. /\ pc = "r.state" /\ tr' = tr /\ loc' = loc
        /\ pc' = IF loc.recovering THEN "b.clear" ELSE "c.destroy"
        /\ state' = [tr.prior EXCEPT !.status = "running", !.proxy = loc.pid]
    BY <1>4 DEF RestoreState, Write
  <2>2. tr.prior \in State /\ tr.prior # None
    BY <2>1, RestorePrior DEF Shape, LabelShape
  <2>3. state' \in State /\ state' # None
    <3>1. loc.pid \in 0..MaxPid
      BY <1>0 DEF TypeOK, Locals
    <3> QED BY <2>1, <2>2, <3>1, AbsentConstant DEF State
  <2>4. state'.gen = tr.prior.gen /\ state'.decl = tr.prior.decl
    BY <2>1, <2>2 DEF State
  <2>5. View(state') = View(tr.prior)
    BY <2>2, <2>3, <2>4 DEF View
  <2>6. Kept
    BY <2>1 DEF Kept
  <2> QED BY <2>1, <2>5, <2>6, RestoredShape
<1> QED BY <1>1, <1>2, <1>3, <1>4

\* Adopting keeps records and labels in step.
LEMMA AdoptKeepsShape ==
  ASSUME Shape, TypeOK', AdoptStep
  PROVE  Shape'
<1>0. TypeOK
  BY DEF Shape
<1>a. AfterAdoptDoor \in {"a.services", "a.plan"}
  BY DEF AfterAdoptDoor
<1>1. CASE AdoptStart
  BY <1>0, <1>1, KeptByLocal, FlowShape DEF AdoptStart, Flow
<1>2. CASE AdoptVerify
  <2>1. /\ pc = "a.verify" /\ UNCHANGED <<state, tr>>
        /\ Fail("a.verify") \/ (pc' = "a.door" /\ loc' = loc)
    BY <1>2 DEF AdoptVerify
  <2> QED BY <1>0, <2>1, OtherFailShape, KeptByLocal, FlowShape DEF Flow
<1>3. CASE AdoptKeepDoor
  <2>1. /\ pc = "a.door" /\ UNCHANGED <<state, tr>>
        /\ \/ Fail("a.door")
           \/ pc' = AfterAdoptDoor /\ loc' = [loc EXCEPT !.pid = pidfile]
    BY <1>3 DEF AdoptKeepDoor
  <2> QED BY <1>0, <1>a, <2>1, OtherFailShape, KeptByLocal, FlowShape DEF Flow
<1>4. CASE AdoptSpawnDoor
  BY <1>4, DoorShape DEF AdoptSpawnDoor, Flow
<1>5. CASE AdoptNoDoor
  <2>1. /\ pc = "a.door" /\ UNCHANGED <<state, tr>> /\ pc' = AfterAdoptDoor
        /\ \E b: loc' = [loc EXCEPT !.pid = b]
    BY <1>5 DEF AdoptNoDoor
  <2> QED BY <1>0, <1>a, <2>1, KeptByLocal, FlowShape DEF Flow
<1>6. CASE ReadyDoor("a.ready", AfterAdoptDoor)
  <2>1. Flow("a.ready", AfterAdoptDoor)
    BY <1>a DEF Flow
  <2> QED BY <1>a, <1>6, <2>1, DoorShape
<1>7. CASE StartServices("a.services", "a.plan", loc.prior.gen)
  BY <1>7, DoorShape DEF Flow
<1>8. CASE AdoptPlan
  BY <1>0, <1>8, KeptByLocal, FlowShape DEF AdoptPlan, Write, Flow
<1>9. CASE AdoptState
  <2>1. /\ pc = "a.state" /\ pc' = "a.history" /\ tr' = tr /\ loc' = loc
        /\ state' = [loc.prior EXCEPT !.status = "running", !.proxy = loc.pid]
    BY <1>9 DEF AdoptState, Write
  <2>2. loc.prior \in State /\ loc.prior # None /\ loc.pid \in 0..MaxPid
    BY <1>0, <2>1, AdoptPrior DEF Shape, LocalShape, TypeOK, Locals
  <2>3. state' \in State /\ state' # None
    BY <2>1, <2>2, AbsentConstant DEF State
  <2>4. state'.gen = loc.prior.gen /\ state'.decl = loc.prior.decl
    BY <2>1, <2>2 DEF State
  <2>5. View(state') = View(loc.prior)
    BY <2>2, <2>3, <2>4 DEF View
  <2>6. tr = None
    BY <2>1 DEF Shape, LabelShape
  <2>7. RecordShape' /\ LabelShape' /\ UpShape'
    BY <2>1, <2>6 DEF RecordShape, LabelShape, UpShape, InUp
  <2>8. LocalShape'
    BY <2>1, <2>5 DEF Shape, LocalShape
  <2> QED BY <2>7, <2>8 DEF Shape
<1>10. CASE AdoptHistory
  <2>1. RecordShape'
    BY <1>10 DEF AdoptHistory, Shape, RecordShape, View
  <2> QED BY <1>10, <2>1, IdleShape DEF AdoptHistory
<1>11. CASE AdoptUndo
  BY <1>0, <1>11, KeptByLocal, FlowShape DEF AdoptUndo, Flow
<1>12. CASE AdoptUnstart
  <2>1. pc = "a.unstart" /\ UNCHANGED <<state, tr>>
    BY <1>12 DEF AdoptUnstart
  <2>2. RecordShape'
    BY <2>1 DEF Shape, RecordShape, View
  <2>3. Return \/ (pc' = "u.load" /\ loc' = loc)
    BY <1>12 DEF AdoptUnstart
  <2> QED BY <1>0, <2>1, <2>2, <2>3, IdleShape, KeptByLocal, FlowShape DEF Flow
<1> QED
  BY <1>1, <1>2, <1>3, <1>4, <1>5, <1>6, <1>7, <1>8, <1>9, <1>10, <1>11, <1>12
  DEF AdoptStep

\* Recovering keeps records and labels in step.
LEMMA RecoverKeepsShape ==
  ASSUME Shape, TypeOK',
         \/ Recover \/ CommitStart \/ CommitVerify \/ CommitRecord
         \/ RollbackDoor \/ RollbackDestroy \/ RollbackState \/ RollbackApplied
         \/ RollbackPlan \/ RollbackClear
  PROVE  Shape'
<1>0. TypeOK /\ loc \in Locals
  BY DEF Shape, TypeOK
<1>a. pc \in RollbackLabels => loc.recovering
  BY DEF Shape, LocalShape
<1>1. CASE Recover
  <2>0. pc = "recover" /\ UNCHANGED <<state, tr>>
    BY <1>1 DEF Recover
  <2>1. RecordShape'
    BY <2>0 DEF Shape, RecordShape, View
  <2>2. CASE Return
    BY <2>1, <2>2, IdleShape
  <2>3. CASE tr = None /\ ~Return
    <3>1. pc' = Recovered /\ loc' = loc
      BY <1>1, <2>3 DEF Recover
    <3>2. pc' \in {"u.read", "d.stop"} /\ (pc' = "u.read" => loc.op = "up")
      BY <3>1 DEF Recovered
    <3>3. LabelShape' /\ UpShape'
      BY <2>0, <2>3, <3>2 DEF LabelShape, UpShape, InUp
    <3>4. ~loc.recovering => LocalShape'
      BY <2>0, <3>1, <3>2 DEF Shape, LocalShape
    <3>5. ~loc.recovering
      BY <2>0 DEF Shape, LocalShape
    <3> QED BY <2>1, <3>3, <3>4, <3>5 DEF Shape
  <2>4. CASE tr # None /\ ~Return
    <3>1. /\ pc' = IF tr.phase = "commit" THEN "m.start" ELSE "b.door"
          /\ loc' = [loc EXCEPT !.recovering = TRUE]
      BY <1>1, <2>4 DEF Recover
    <3>2. loc'.recovering /\ loc'.op = loc.op /\ loc'.decl = loc.decl
      BY <1>0, <3>1 DEF Locals
    <3>3. tr.phase \in {"rollback", "commit"}
      BY <1>0, <2>4 DEF TypeOK, Transition
    <3>4. LabelShape' /\ UpShape'
      BY <2>0, <2>4, <3>1, <3>3 DEF LabelShape, UpShape, InUp
    <3>5. LocalShape'
      BY <3>1, <3>2 DEF Shape, LocalShape
    <3> QED BY <2>1, <3>4, <3>5 DEF Shape
  <2> QED BY <2>2, <2>3, <2>4
<1>2. CASE CommitStart
  BY <1>0, <1>2, KeptByLocal, FlowShape DEF CommitStart, Flow
<1>3. CASE CommitVerify
  <2>1. /\ pc = "m.verify" /\ UNCHANGED <<state, tr>>
        /\ \/ Fail("m.verify")
           \/ pc' \in {"m.door", "m.services"} /\ loc' = loc
    BY <1>3 DEF CommitVerify
  <2> QED BY <1>0, <2>1, OtherFailShape, KeptByLocal, FlowShape DEF Flow
<1>4. CASE CommitRecord
  <2>1. /\ pc = "m.record" /\ pc' = "m.services" /\ state' = state /\ loc' = loc
        /\ tr' = [tr EXCEPT !.succ = [tr.succ EXCEPT !.proxy = loc.pid]]
    BY <1>4 DEF CommitRecord, Write
  <2>2. /\ tr \in Transition /\ tr.succ \in State /\ tr # None
        /\ tr.phase = "commit"
    BY <2>1, RecoverRecord DEF Shape, LabelShape
  <2>3. /\ tr'.phase = tr.phase /\ tr'.prior = tr.prior /\ tr'.ws = tr.ws
        /\ tr'.succ = [tr.succ EXCEPT !.proxy = loc.pid]
    BY <2>1, <2>2 DEF Transition
  <2>4. tr'.succ.gen = tr.succ.gen
    BY <2>2, <2>3 DEF State
  <2>5. tr' # None
    <3>1. [tr.succ EXCEPT !.proxy = loc.pid] \in State
      BY <1>0, <2>2 DEF State, Locals
    <3>2. tr' \in Transition
      BY <2>1, <2>2, <3>1 DEF Transition
    <3> QED BY <3>2, AbsentConstant
  <2>6. RecordShape'
    BY <2>2, <2>3, <2>4 DEF Shape, RecordShape, Succeeds
  <2>7. LabelShape' /\ UpShape'
    BY <2>1, <2>2, <2>3, <2>5 DEF LabelShape, UpShape, InUp
  <2>8. LocalShape'
    BY <2>1 DEF Shape, LocalShape
  <2> QED BY <2>6, <2>7, <2>8 DEF Shape
<1>5. CASE RollbackDoor
  BY <1>0, <1>5, KeptByLocal, FlowShape DEF RollbackDoor, EndDoor, Flow
<1>6. CASE RollbackDestroy
  <2>1. /\ pc = "b.destroy" /\ UNCHANGED <<state, tr>> /\ loc' = loc
        /\ \/ pc' \in {"b.state", "b.applied"}
           \/ pc' = "r.start" /\ tr.prior # None
    BY <1>6 DEF RollbackDestroy
  <2> QED BY <1>0, <2>1, KeptByLocal, FlowShape DEF Flow
<1>7. CASE RollbackState
  <2>1. /\ pc = "b.state" /\ pc' \in {"b.applied", "b.clear"} /\ tr' = tr
        /\ loc' = loc /\ state' = tr.prior
    BY <1>7 DEF RollbackState, Write
  <2> QED BY <1>a, <2>1, RestoredShape DEF Kept
<1>8. CASE RollbackApplied
  BY <1>0, <1>8, KeptByLocal, FlowShape DEF RollbackApplied, Write, Flow
<1>9. CASE RollbackPlan
  <2>1. /\ pc = "b.plan" /\ pc' \in {"b.clear", "b.state"} /\ loc' = loc
        /\ UNCHANGED <<state, tr>>
    BY <1>9 DEF RollbackPlan, Write
  <2> QED BY <1>0, <2>1, KeptByLocal, FlowShape DEF Flow
<1>10. CASE RollbackClear
  BY <1>10, RecoveredShape DEF RollbackClear
<1> QED BY <1>1, <1>2, <1>3, <1>4, <1>5, <1>6, <1>7, <1>8, <1>9, <1>10

\* down and destroy keep records and labels in step.
LEMMA StopKeepsShape ==
  ASSUME Shape, TypeOK', DownStep \/ DestroyStep
  PROVE  Shape'
<1>0. TypeOK
  BY DEF Shape
<1>1. CASE DownStop
  <2>1. pc = "d.stop" /\ UNCHANGED <<state, tr>>
    BY <1>1 DEF DownStop
  <2>2. RecordShape'
    BY <2>1 DEF Shape, RecordShape, View
  <2>3. CASE Return
    BY <2>2, <2>3, IdleShape
  <2>4. CASE ~Return
    <3>1. pc' = "d.door" /\ loc' = loc /\ state # None
      BY <1>1, <2>4 DEF DownStop
    <3>2. LabelShape' /\ UpShape'
      BY <2>1, <3>1 DEF Shape, LabelShape, UpShape, InUp
    <3>3. LocalShape'
      BY <3>1 DEF Shape, LocalShape
    <3> QED BY <2>2, <3>2, <3>3 DEF Shape
  <2> QED BY <2>3, <2>4
<1>2. CASE DownDoor
  BY <1>0, <1>2, KeptByLocal, FlowShape DEF DownDoor, EndDoor, Flow
<1>3. CASE DownState
  <2>1. /\ pc = "d.state" /\ pc' = "d.history" /\ tr' = tr /\ loc' = loc
        /\ state' = [state EXCEPT !.status = "down", !.proxy = 0]
    BY <1>3 DEF DownState, Write
  <2>2. tr = None /\ state \in State
    BY <1>0, <2>1 DEF Shape, LabelShape, TypeOK
  <2>3. state' \in State
    BY <2>1, <2>2, ConstantTypes DEF State
  <2>4. RecordShape' /\ LabelShape' /\ UpShape'
    BY <2>1, <2>2, <2>3, AbsentConstant DEF RecordShape, LabelShape, UpShape, InUp
  <2>5. LocalShape'
    BY <2>1 DEF Shape, LocalShape
  <2> QED BY <2>4, <2>5 DEF Shape
<1>4. CASE DownHistory
  <2>1. RecordShape'
    BY <1>4 DEF DownHistory, Shape, RecordShape, View
  <2> QED BY <1>4, <2>1, IdleShape DEF DownHistory
<1>5. CASE DestroyFirst
  <2>1. pc = "x.first" /\ UNCHANGED <<state, tr>>
    BY <1>5 DEF DestroyFirst
  <2>2. RecordShape'
    BY <2>1 DEF Shape, RecordShape, View
  <2>3. CASE Return
    BY <2>2, <2>3, IdleShape
  <2>4. CASE ~Return
    <3>1. pc' = "x.second" /\ loc' = loc /\ (tr # None \/ state # None)
      BY <1>5, <2>4 DEF DestroyFirst
    <3>2. LabelShape' /\ UpShape'
      BY <2>1, <3>1 DEF LabelShape, UpShape, InUp
    <3>3. LocalShape'
      BY <3>1 DEF Shape, LocalShape
    <3> QED BY <2>2, <3>2, <3>3 DEF Shape
  <2> QED BY <2>3, <2>4
<1>6. CASE DestroySecond
  BY <1>0, <1>6, KeptByLocal, FlowShape DEF DestroySecond, Flow
<1>7. CASE DestroyDoor
  BY <1>0, <1>7, KeptByLocal, FlowShape DEF DestroyDoor, EndDoor, Flow
<1>8. CASE DestroyHistory
  BY <1>0, <1>8, KeptByLocal, FlowShape DEF DestroyHistory, Flow
<1>9. CASE DestroyRename
  <2>1. RecordShape'
    BY <1>9 DEF DestroyRename, RecordShape
  <2> QED BY <1>9, <2>1, IdleShape DEF DestroyRename
<1> QED
  BY <1>1, <1>2, <1>3, <1>4, <1>5, <1>6, <1>7, <1>8, <1>9 DEF DownStep, DestroyStep

\* A crash leaves the disk; a failing call that does not publish goes to the
\* cleanup of its caller.
LEMMA FailureKeepsShape ==
  ASSUME FaultAt \cap PublishLabels = {}, Shape, TypeOK',
         Command \/ Failure \/ WorldWrites
  PROVE  Shape'
<1>0. UNCHANGED <<state, tr>>
  BY DEF Command, Begin, Failure, Crash, Reboot, HostFailure, LostReply, CreateCtr,
         ContainerExit, DoorExit, WorldWrites
<1>1. RecordShape'
  BY <1>0 DEF Shape, RecordShape, View
<1>2. CASE Command
  <2>1. PICK op \in {"up", "down", "destroy"}, d \in {None} \cup Decls:
          /\ op = "up" => d \in Decls
          /\ loc' = [NoLocals EXCEPT !.op = op, !.decl = d]
          /\ pc' \in {"x.first", "recover"}
    BY <1>2, WorldConstants DEF Command, Begin
  <2>2. loc'.op = op /\ loc'.decl = d /\ ~loc'.recorded /\ ~loc'.cutover /\ ~loc'.recovering
    BY <2>1 DEF NoLocals
  <2>3. LabelShape' /\ UpShape'
    BY <2>1 DEF LabelShape, UpShape, InUp
  <2>4. LocalShape'
    BY <2>1, <2>2 DEF LocalShape
  <2> QED BY <1>1, <2>3, <2>4 DEF Shape
<1>3. CASE Crash \/ Reboot
  BY <1>1, <1>3, IdleShape DEF Crash, Reboot
<1>4. CASE HostFailure
  <2>1. pc \in Labels \ PublishLabels /\ Fail(pc)
    BY <1>4, FailureConstants DEF HostFailure
  <2> QED BY <1>0, <2>1, UpFailShape, OtherFailShape
<1>5. CASE LostReply
  <2>1. pc \in UpLabels /\ Fail(pc)
    BY <1>5 DEF LostReply, CreateCtr
  <2> QED BY <1>0, <2>1, UpFailShape
<1>6. CASE WorldWrites \/ (\E g \in Gens: ContainerExit(g)) \/ (\E p \in Pids: DoorExit(p))
  <2>1. pc' = pc /\ loc' = loc
    BY <1>6 DEF WorldWrites, ContainerExit, DoorExit
  <2> QED BY <1>0, <1>1, <2>1 DEF Shape, LabelShape, LocalShape, UpShape, InUp, View
<1> QED BY <1>2, <1>3, <1>4, <1>5, <1>6 DEF Failure

\* Shape is inductive.
LEMMA StepKeepsShape ==
  ASSUME FaultAt \cap PublishLabels = {}, Shape, [Next]_vars
  PROVE  Shape'
<1>0. TypeOK'
  BY StepType
<1>1. CASE UNCHANGED vars
  BY <1>0, <1>1 DEF Shape, RecordShape, LabelShape, LocalShape, UpShape, InUp, View, vars
<1>2. CASE UpStep
  <2>1. CASE \/ SpawnDoor("u.door", "u.ready", loc.gen)
             \/ ReadyDoor("u.ready", "u.services")
             \/ StartServices("u.services", "u.reverify", loc.gen)
    BY <1>0, <2>1, DoorShape DEF Flow
  <2> QED BY <1>0, <1>2, <2>1, UpKeepsShape, PublishKeepsShape DEF UpStep
<1>3. CASE AdoptStep
  BY <1>0, <1>3, AdoptKeepsShape
<1>4. CASE RecoverStep
  <2>1. CASE \/ SpawnDoor("m.door", "m.ready", tr.succ.gen)
             \/ ReadyDoor("m.ready", "m.record")
             \/ StartServices("m.services", "p.digest", tr.succ.gen)
             \/ SpawnDoor("r.door", "r.ready", tr.prior.gen)
             \/ ReadyDoor("r.ready", "r.services")
             \/ StartServices("r.services", "r.applied", tr.prior.gen)
    BY <1>0, <2>1, DoorShape DEF Flow
  <2> QED BY <1>0, <1>4, <2>1, RecoverKeepsShape, RestoreKeepsShape DEF RecoverStep
<1>5. CASE DownStep \/ DestroyStep
  BY <1>0, <1>5, StopKeepsShape
<1>6. CASE Command \/ Failure \/ WorldWrites
  BY <1>0, <1>6, FailureKeepsShape
<1> QED BY <1>1, <1>2, <1>3, <1>4, <1>5, <1>6 DEF Next, Step

\* The first command finds no world.
LEMMA InitShape == Init => Shape
<1> SUFFICES ASSUME Init PROVE Shape
  OBVIOUS
<1>1. /\ digest \in [Gens -> -1..MaxWs] /\ logged \in [Gens -> 0..2]
      /\ ctr \in [Gens -> CtrStatus] /\ img \in [Gens -> {None} \cup Decls]
      /\ door \in [Pids -> {None} \cup Door]
  BY ConstantTypes DEF Init, CtrStatus
<1>2. /\ crashes \in 0..MaxCrashes /\ faults \in 0..MaxFaults /\ exits \in 0..MaxExits
      /\ ws \in 0..MaxWs /\ pidfile \in 0..MaxPid
  BY WorldConstants DEF Init
<1>3. TypeOK
  BY <1>1, <1>2, NoLocalsType DEF Init, TypeOK
<1>4. RecordShape /\ LabelShape /\ UpShape
  BY DEF Init, RecordShape, LabelShape, UpShape, InUp
<1>5. LocalShape
  BY DEF Init, LocalShape, NoLocals
<1> QED BY <1>3, <1>4, <1>5 DEF Shape

\* Files, containers, doors and locals stay well typed through every command,
\* crash, reboot and every failing call that does not publish a successor: no
\* label reads a field of an absent record or an absent predecessor.
THEOREM WorldType ==
  ASSUME FaultAt \cap PublishLabels = {}
  PROVE  Spec => []TypeOK
<1>1. Shape /\ [Next]_vars => Shape'
  BY StepKeepsShape
<1>2. Shape => TypeOK
  BY DEF Shape
<1> QED BY <1>1, <1>2, InitShape, PTL DEF Spec

-----------------------------------------------------------------------------
(* Commands end *)

\* How many steps a command has before it, at most: along the cleanup of a failed
\* up with the predecessor it restores, publication, up, adoption, and the
\* recovery that precedes them all.
Ahead(l) ==
  CASE l = "c.clear" -> 1 [] l = "c.destroy" -> 2
    [] l = "r.state" -> 3 [] l = "r.plan" -> 4 [] l = "r.applied" -> 5
    [] l = "r.services" -> 6 [] l = "r.ready" -> 7 [] l = "r.door" -> 8
    [] l = "r.verify" -> 9 [] l = "r.start" -> 10
    [] l = "c.stop" -> 11 [] l = "c.door" -> 12
    [] l = "p.clear" -> 13 [] l = "p.destroy" -> 14 [] l = "p.history" -> 15
    [] l = "p.state" -> 16 [] l = "p.plan" -> 17 [] l = "p.applied" -> 18
    [] l = "p.digest" -> 19
    [] l = "u.commit" -> 20 [] l = "u.reverify" -> 21 [] l = "u.services" -> 22
    [] l = "u.ready" -> 23 [] l = "u.door" -> 24 [] l = "u.verify" -> 25
    [] l = "u.start" -> 26 [] l = "u.capture" -> 27 [] l = "u.stop" -> 28
    [] l = "u.stopdoor" -> 29 [] l = "u.record" -> 30 [] l = "u.materialize" -> 31
    [] l = "u.create" -> 32 [] l = "u.load" -> 33
    [] l = "a.unstart" -> 34 [] l = "a.undo" -> 35 [] l = "a.history" -> 36
    [] l = "a.state" -> 37 [] l = "a.plan" -> 38 [] l = "a.services" -> 39
    [] l = "a.ready" -> 40 [] l = "a.door" -> 41 [] l = "a.verify" -> 42
    [] l = "a.start" -> 43 [] l = "u.read" -> 44
    [] l = "b.clear" -> 45 [] l = "b.state" -> 46 [] l = "b.plan" -> 47
    [] l = "b.applied" -> 48 [] l = "b.destroy" -> 54 [] l = "b.door" -> 55
    [] l = "m.services" -> 52 [] l = "m.record" -> 53 [] l = "m.ready" -> 54
    [] l = "m.door" -> 55 [] l = "m.verify" -> 56 [] l = "m.start" -> 57
    [] l = "recover" -> 58
    [] l = "d.history" -> 1 [] l = "d.state" -> 2 [] l = "d.door" -> 3 [] l = "d.stop" -> 4
    [] l = "x.rename" -> 1 [] l = "x.history" -> 2 [] l = "x.door" -> 3
    [] l = "x.second" -> 4 [] l = "x.first" -> 5
    [] OTHER -> 0

\* Recovery has the command itself before it, and removes the files of a world
\* without a predecessor state.json first.
Rank ==
  Ahead(pc) + (CASE pc \in RestoreLabels /\ loc.recovering -> 43
                 [] pc \in PublishLabels /\ loc.recovering -> 32
                 [] pc = "b.state" /\ tr.prior = None -> 3
                 [] OTHER -> 0)

\* The error paths of app.go lead towards the end of the command: cleanup goes on
\* and what cannot be cleaned up returns.
LEMMA FailDescends ==
  ASSUME Shape, pc \in Labels, Fail(pc)
  PROVE  Rank' < Rank
<1>0. LocalShape /\ loc \in Locals
  BY DEF Shape, TypeOK
<1>1. loc'.recovering = loc.recovering \/ pc' = "idle"
  BY <1>0 DEF Fail, Locals
<1>2. CASE pc' = "idle"
  BY <1>2 DEF Rank, Ahead, Labels, UpLabels, PublishLabels, CleanupLabels, AdoptLabels,
    RecoverLabels, RestoreLabels, DownLabels, DestroyLabels
<1>3. CASE pc \in UpLabels \cup PublishLabels
  <2>1. pc' \in {"idle", "c.door"}
    BY <1>3 DEF Fail, OnError, UpLabels, PublishLabels
  <2> QED BY <1>2, <1>3, <2>1 DEF Rank, Ahead, UpLabels, PublishLabels, RestoreLabels
<1>5. CASE pc \in CleanupLabels
  <2>1. ~loc.recovering BY <1>0, <1>5 DEF LocalShape
  <2>2. \/ pc' = "idle"
        \/ pc = "c.door" /\ pc' = "c.stop"
        \/ pc = "c.stop" /\ pc' \in {"r.start", "c.destroy"}
        \/ pc = "c.destroy" /\ pc' = "c.clear"
    BY <1>5 DEF Fail, OnError, CleanupNext, UpLabels, PublishLabels, CleanupLabels
  <2> QED BY <1>1, <1>2, <2>1, <2>2 DEF Rank, Ahead, PublishLabels, RestoreLabels
<1>6. CASE pc \in AdoptLabels
  <2>1. \/ pc' = "idle"
        \/ pc = "a.start" /\ pc' = "u.load"
        \/ pc \in {"a.verify", "a.undo"} /\ pc' = "a.unstart"
        \/ pc \in AdoptLabels \ {"a.undo", "a.unstart"} /\ pc' = "a.undo"
    BY <1>6 DEF Fail, OnError, UpLabels, PublishLabels, CleanupLabels, AdoptLabels,
      RestoreLabels
  <2> QED BY <1>2, <2>1 DEF Rank, Ahead, PublishLabels, AdoptLabels, RestoreLabels
<1>7. CASE pc \in RestoreLabels
  BY <1>1, <1>2, <1>7 DEF Fail, OnError, Rank, Ahead, UpLabels, PublishLabels, CleanupLabels,
    AdoptLabels, RestoreLabels
<1>8. CASE pc \in RecoverLabels \cup DownLabels \cup DestroyLabels
  <2>1. pc' = "idle"
    BY <1>8 DEF Fail, OnError, UpLabels, PublishLabels, CleanupLabels, AdoptLabels,
      RestoreLabels, RecoverLabels, DownLabels, DestroyLabels
  <2> QED BY <1>2, <2>1
<1> QED BY <1>3, <1>5, <1>6, <1>7, <1>8 DEF Labels

\* A command that returns has nothing before it.
LEMMA ReturnDescends ==
  ASSUME pc \in Labels, Return
  PROVE  Rank' < Rank
BY DEF Return, Rank, Ahead, Labels, UpLabels, PublishLabels, CleanupLabels, AdoptLabels,
    RecoverLabels, RestoreLabels, DownLabels, DestroyLabels

\* up: staging, cutover and verification.
LEMMA UpDescends ==
  ASSUME Shape,
         \/ UpRead \/ UpLoad \/ UpCreate \/ UpMaterialize \/ UpRecord
         \/ UpStopDoor \/ UpStop \/ UpCapture \/ UpStart \/ UpVerify
         \/ UpReverify \/ UpCommit
  PROVE  Rank' < Rank
<1>0. pc \in UpLabels /\ pc \in Labels
  BY DEF UpRead, UpLoad, UpCreate, UpMaterialize, UpRecord, UpStopDoor, UpStop, UpCapture,
    UpStart, UpVerify, UpReverify, UpCommit, EndDoor, Write, Goto, UpLabels, Labels
<1>1. ~loc.recovering /\ loc \in Locals
  BY <1>0 DEF Shape, LocalShape, TypeOK
<1> USE <1>1 DEF Rank, Ahead, RestoreLabels, PublishLabels, Goto, EndDoor, Write, Keep
<1>2. CASE UpRead BY <1>2 DEF UpRead
<1>3. CASE UpLoad BY <1>0, <1>3, ReturnDescends DEF UpLoad
<1>4. CASE UpCreate BY <1>0, <1>4, FailDescends DEF UpCreate
<1>5. CASE UpMaterialize BY <1>5 DEF UpMaterialize
<1>6. CASE UpRecord BY <1>6 DEF UpRecord
<1>7. CASE UpStopDoor \/ UpStop BY <1>7 DEF UpStopDoor, UpStop
<1>8. CASE UpCapture \/ UpStart BY <1>8 DEF UpCapture, UpStart
<1>9. CASE UpVerify BY <1>0, <1>9, FailDescends DEF UpVerify
<1>10. CASE UpReverify BY <1>0, <1>10, FailDescends DEF UpReverify
<1>11. CASE UpCommit BY <1>11 DEF UpCommit
<1> QED BY <1>2, <1>3, <1>4, <1>5, <1>6, <1>7, <1>8, <1>9, <1>10, <1>11

\* Publication and the cleanup of a failed up.
LEMMA PublishDescends ==
  ASSUME Shape,
         \/ PublishDigest \/ PublishApplied \/ PublishPlan \/ PublishState
         \/ PublishHistory \/ PublishDestroy \/ PublishClear
         \/ CleanupDoor \/ CleanupStop \/ CleanupDestroy \/ CleanupClear
  PROVE  Rank' < Rank
<1>1. pc \in CleanupLabels => ~loc.recovering
  BY DEF Shape, LocalShape
<1> USE DEF Rank, Ahead, RestoreLabels, PublishLabels, CleanupLabels, Goto, Write, Keep
<1>2. CASE PublishDigest \/ PublishApplied \/ PublishPlan \/ PublishState
  BY <1>2 DEF PublishDigest, PublishApplied, PublishPlan, PublishState
<1>3. CASE PublishHistory \/ PublishDestroy
  BY <1>3 DEF PublishHistory, PublishDestroy
<1>4. CASE PublishClear
  <2>1. pc' \in {"idle", "u.read", "d.stop"} /\ pc = "p.clear"
    BY <1>4 DEF PublishClear, Return, Recovered
  <2>2. ~loc.recovering => pc' = "idle"
    BY <1>4 DEF PublishClear, Return
  <2> QED BY <2>1, <2>2
<1>5. CASE CleanupDoor \/ CleanupDestroy
  BY <1>5 DEF CleanupDoor, CleanupDestroy
<1>6. CASE CleanupStop
  BY <1>1, <1>6 DEF CleanupStop, CleanupNext
<1>7. CASE CleanupClear
  BY <1>7 DEF CleanupClear, Return
<1> QED BY <1>2, <1>3, <1>4, <1>5, <1>6, <1>7

\* Adoption.
LEMMA AdoptDescends ==
  ASSUME Shape,
         \/ AdoptStart \/ AdoptVerify \/ AdoptKeepDoor \/ AdoptNoDoor
         \/ AdoptPlan \/ AdoptState \/ AdoptHistory \/ AdoptUndo \/ AdoptUnstart
  PROVE  Rank' < Rank
<1>0. pc \in Labels
  BY DEF AdoptStart, AdoptVerify, AdoptKeepDoor, AdoptNoDoor, AdoptPlan, AdoptState,
    AdoptHistory, AdoptUndo, AdoptUnstart, Write, Goto, AdoptLabels, Labels
<1> USE DEF Rank, Ahead, RestoreLabels, PublishLabels, Goto, Write
<1>1. CASE AdoptStart BY <1>1 DEF AdoptStart
<1>2. CASE AdoptVerify BY <1>0, <1>2, FailDescends DEF AdoptVerify
<1>3. CASE AdoptKeepDoor BY <1>0, <1>3, FailDescends DEF AdoptKeepDoor, AfterAdoptDoor
<1>4. CASE AdoptNoDoor BY <1>4 DEF AdoptNoDoor, AfterAdoptDoor
<1>5. CASE AdoptPlan \/ AdoptState BY <1>5 DEF AdoptPlan, AdoptState
<1>6. CASE AdoptHistory BY <1>6 DEF AdoptHistory, Return
<1>7. CASE AdoptUndo BY <1>7 DEF AdoptUndo
<1>8. CASE AdoptUnstart BY <1>8 DEF AdoptUnstart, Return
<1> QED BY <1>1, <1>2, <1>3, <1>4, <1>5, <1>6, <1>7, <1>8

\* Recovery, which ends where the command begins.
LEMMA RecoverDescends ==
  ASSUME Shape,
         \/ Recover \/ CommitStart \/ CommitVerify \/ CommitRecord
         \/ RollbackDoor \/ RollbackDestroy \/ RollbackState \/ RollbackApplied
         \/ RollbackPlan \/ RollbackClear
         \/ RestoreStart \/ RestoreVerify
         \/ RestoreApplied \/ RestorePlan \/ RestoreState
  PROVE  Rank' < Rank
<1>0. pc \in Labels
  BY DEF Recover, CommitStart, CommitVerify, CommitRecord, RollbackDoor, RollbackDestroy,
    RollbackState, RollbackApplied, RollbackPlan, RollbackClear, RestoreStart, RestoreVerify,
    RestoreApplied, RestorePlan, RestoreState, EndDoor, Write, Goto, RecoverLabels,
    RestoreLabels, Labels
<1>a. loc \in Locals
  BY DEF Shape, TypeOK
<1> USE DEF Rank, Ahead, RestoreLabels, PublishLabels, Goto, Write, EndDoor, Keep
<1>1. CASE Recover BY <1>1 DEF Recover, Recovered, Return
<1>2. CASE CommitStart \/ CommitRecord BY <1>2 DEF CommitStart, CommitRecord
<1>3. CASE CommitVerify BY <1>0, <1>3, FailDescends DEF CommitVerify
<1>4. CASE RollbackDoor \/ RollbackDestroy BY <1>4 DEF RollbackDoor, RollbackDestroy
<1>5. CASE RollbackState \/ RollbackApplied \/ RollbackPlan
  BY <1>5 DEF RollbackState, RollbackApplied, RollbackPlan
<1>6. CASE RollbackClear BY <1>6 DEF RollbackClear, Recovered
<1>7. CASE RestoreStart BY <1>0, <1>7, FailDescends DEF RestoreStart
<1>8. CASE RestoreVerify
  <2>1. CASE Verified(tr.prior.gen, tr.prior.decl)
    <3>1. pc = "r.verify" /\ pc' \in {"r.door", "r.services"}
          /\ loc'.recovering = loc.recovering
      BY <1>8, <1>a, <2>1 DEF RestoreVerify, Locals
    <3> QED BY <3>1
  <2>2. CASE ~Verified(tr.prior.gen, tr.prior.decl)
    BY <1>0, <1>8, <2>2, FailDescends DEF RestoreVerify
  <2> QED BY <2>1, <2>2
<1>9. CASE RestoreApplied \/ RestorePlan \/ RestoreState
  BY <1>9 DEF RestoreApplied, RestorePlan, RestoreState
<1> QED BY <1>1, <1>2, <1>3, <1>4, <1>5, <1>6, <1>7, <1>8, <1>9

\* startProxy and startServices go on, or fail where they were called.
LEMMA DoorMoves ==
  ASSUME Shape, NEW a, NEW b, NEW g,
         SpawnDoor(a, b, g) \/ ReadyDoor(a, b) \/ StartServices(a, b, g)
  PROVE  pc = a /\ (Fail(a) \/ (pc' = b /\ loc'.recovering = loc.recovering))
<1>1. loc \in Locals
  BY DEF Shape, TypeOK
<1> QED BY <1>1 DEF SpawnDoor, ReadyDoor, StartServices, Locals

\* They do in up, adoption, recovery and restoration.
LEMMA DoorDescends ==
  ASSUME Shape,
         \/ SpawnDoor("u.door", "u.ready", loc.gen)
         \/ ReadyDoor("u.ready", "u.services")
         \/ StartServices("u.services", "u.reverify", loc.gen)
         \/ AdoptSpawnDoor \/ ReadyDoor("a.ready", AfterAdoptDoor)
         \/ StartServices("a.services", "a.plan", loc.prior.gen)
         \/ SpawnDoor("m.door", "m.ready", tr.succ.gen)
         \/ ReadyDoor("m.ready", "m.record")
         \/ StartServices("m.services", "p.digest", tr.succ.gen)
         \/ SpawnDoor("r.door", "r.ready", tr.prior.gen)
         \/ ReadyDoor("r.ready", "r.services")
         \/ StartServices("r.services", "r.applied", tr.prior.gen)
  PROVE  Rank' < Rank
<1> DEFINE Edge(a, b) == pc = a /\ (Fail(a) \/ (pc' = b /\ loc'.recovering = loc.recovering))
<1>1. \/ Edge("u.door", "u.ready") \/ Edge("u.ready", "u.services")
      \/ Edge("u.services", "u.reverify") \/ Edge("a.door", "a.ready")
      \/ Edge("a.ready", "a.services") \/ Edge("a.ready", "a.plan")
      \/ Edge("a.services", "a.plan") \/ Edge("m.door", "m.ready")
      \/ Edge("m.ready", "m.record") \/ Edge("m.services", "p.digest")
      \/ Edge("r.door", "r.ready") \/ Edge("r.ready", "r.services")
      \/ Edge("r.services", "r.applied")
  BY DoorMoves DEF AdoptSpawnDoor, AfterAdoptDoor
<1>2. pc \in Labels
  BY <1>1 DEF Labels, UpLabels, AdoptLabels, RecoverLabels, RestoreLabels
<1>3. CASE Fail(pc)
  BY <1>2, <1>3, FailDescends
<1>4. CASE ~Fail(pc)
  BY <1>1, <1>4 DEF Rank, Ahead, RestoreLabels, PublishLabels
<1> QED BY <1>3, <1>4

\* down and destroy.
LEMMA StopDescends ==
  ASSUME DownStep \/ DestroyStep
  PROVE  Rank' < Rank
BY DEF DownStep, DownStop, DownDoor, EndDoor, DownState, DownHistory, DestroyStep,
  DestroyFirst, DestroySecond, DestroyDoor, DestroyHistory, DestroyRename, Write, Goto, Return,
  Rank, Ahead, RestoreLabels, PublishLabels

\* A failure ends the command, takes its error path, or happens beside it.
LEMMA FailureDescends ==
  ASSUME Shape, pc # "idle", Failure \/ WorldWrites
  PROVE  Rank' < Rank \/ UNCHANGED <<pc, loc, tr>>
<1>1. pc \in Labels
  BY DEF Shape, TypeOK
<1>2. CASE Crash \/ Reboot
  BY <1>1, <1>2, ReturnDescends DEF Crash, Reboot
<1>3. CASE HostFailure \/ LostReply
  BY <1>1, <1>3, FailDescends DEF HostFailure, LostReply
<1>4. CASE WorldWrites \/ (\E g \in Gens: ContainerExit(g)) \/ (\E p \in Pids: DoorExit(p))
  BY <1>4 DEF WorldWrites, ContainerExit, DoorExit
<1> QED BY <1>2, <1>3, <1>4 DEF Failure

\* Whatever fails, every step of a command brings it nearer to its end, and what
\* happens beside it does not set it back: up, with a recovery before it and the
\* cleanup of a failure after it, has at most 58 steps.
CommandsDescend ==
  [][pc # "idle" => Rank' < Rank \/ (~Step /\ UNCHANGED <<pc, Rank>>)]_vars

\* No command of app.go waits for itself or repeats a step of recovery, cleanup,
\* restoration or adoption; each returns within 58 steps and releases the lock.
THEOREM CommandsEnd ==
  ASSUME FaultAt \cap PublishLabels = {}
  PROVE  Spec => [](Rank \in 0..58 /\ (Rank = 0 <=> pc = "idle")) /\ CommandsDescend
<1>1. ASSUME Shape PROVE Rank \in 0..58 /\ (Rank = 0 <=> pc = "idle")
  <2>1. pc \in {"idle"} \cup Labels
    BY <1>1 DEF Shape, TypeOK
  <2>2. pc \in UpLabels \cup AdoptLabels => Ahead(pc) \in 1..58
    BY DEF Ahead, UpLabels, AdoptLabels
  <2>3. pc \in CleanupLabels \cup DownLabels \cup DestroyLabels => Ahead(pc) \in 1..58
    BY DEF Ahead, CleanupLabels, DownLabels, DestroyLabels
  <2>4. pc \in RecoverLabels => Ahead(pc) \in 1..58
    BY DEF Ahead, RecoverLabels
  <2>5. pc \in PublishLabels => Ahead(pc) \in 1..19
    BY DEF Ahead, PublishLabels
  <2>6. pc \in RestoreLabels => Ahead(pc) \in 1..10
    BY DEF Ahead, RestoreLabels
  <2>7. (pc = "b.state" => Ahead(pc) = 46) /\ (pc = "idle" => Ahead(pc) = 0)
    BY DEF Ahead
  <2>8. "idle" \notin RestoreLabels \cup PublishLabels \cup {"b.state"}
    BY DEF RestoreLabels, PublishLabels
  <2> QED BY <2>1, <2>2, <2>3, <2>4, <2>5, <2>6, <2>7, <2>8 DEF Rank, Labels
<1>2. ASSUME Shape, [Next]_vars
      PROVE  [pc # "idle" => Rank' < Rank \/ (~Step /\ UNCHANGED <<pc, Rank>>)]_vars
  <2> SUFFICES ASSUME Next, pc # "idle"
               PROVE  Rank' < Rank \/ (~Step /\ UNCHANGED <<pc, Rank>>)
    BY <1>2
  <2>1. CASE UpStep
    BY <1>2, <2>1, UpDescends, PublishDescends, DoorDescends DEF UpStep
  <2>2. CASE AdoptStep
    BY <1>2, <2>2, AdoptDescends, DoorDescends DEF AdoptStep
  <2>3. CASE RecoverStep
    BY <1>2, <2>3, RecoverDescends, DoorDescends DEF RecoverStep
  <2>4. CASE DownStep \/ DestroyStep
    BY <2>4, StopDescends
  <2>5. CASE ~Step
    <3>1. Failure \/ WorldWrites
      BY <2>5 DEF Next, Command, Begin
    <3>2. UNCHANGED <<pc, loc, tr>> => UNCHANGED <<pc, Rank>>
      BY DEF Rank, Ahead
    <3> QED BY <1>2, <2>5, <3>1, <3>2, FailureDescends
  <2> QED BY <2>1, <2>2, <2>3, <2>4, <2>5 DEF Step
<1>3. Shape /\ [Next]_vars => Shape'
  BY StepKeepsShape
<1> QED BY <1>1, <1>2, <1>3, InitShape, PTL DEF Spec, CommandsDescend

-----------------------------------------------------------------------------
(* The lifecycle implements Authority *)

\* A step that leaves state.json and transition.json alone is not visible.
LEMMA QuietView ==
  ASSUME UNCHANGED <<state, tr>>
  PROVE  View(Authoritative)' = View(Authoritative)
BY DEF Authoritative, View

\* In the rollback phase, and without a record, state.json is the authority.
LEMMA StateView ==
  ASSUME Shape, tr = None \/ tr.phase = "rollback"
  PROVE  View(Authoritative) = View(state)
BY DEF Shape, RecordShape, Authoritative, View

\* The commit record is the one step that replaces the authority.
LEMMA CommitApplies ==
  ASSUME Shape, UpCommit
  PROVE  \E d \in Decls: Abstract!Apply(d)
<1>1. tr \in Transition /\ tr.succ \in State /\ tr # None /\ tr.phase = "rollback"
  BY DEF Shape, LabelShape, TypeOK, Transition, UpCommit
<1>2. /\ tr'.phase = "commit"
      /\ tr'.succ = [tr.succ EXCEPT !.status = "running", !.proxy = loc.pid]
  BY <1>1 DEF UpCommit, Transition
<1>3. tr' \in Transition /\ tr'.succ \in State
  <2>1. tr'.succ \in State
    BY <1>1, <1>2 DEF Shape, TypeOK, State, Locals
  <2>2. ws \in -1..MaxWs
    BY ConstantTypes DEF Shape, TypeOK
  <2> QED BY <1>1, <1>2, <2>1, <2>2 DEF UpCommit, Transition
<1>4. View(Authoritative)' = [gen |-> tr.succ.gen, decl |-> tr.succ.decl]
  BY <1>1, <1>2, <1>3, AbsentConstant DEF Authoritative, View, State
<1>5. View(Authoritative) = View(tr.prior)
  BY <1>1 DEF Authoritative
<1>6. /\ tr.succ.gen = Succeeds(tr.prior) /\ tr.succ.gen \in 1..MaxGen
      /\ tr.succ.decl \in Decls
  BY <1>1 DEF Shape, RecordShape, State, Gens
<1>7. Abstract!Following = Succeeds(tr.prior)
  <2>1. tr.prior # None => tr.prior \in State
    BY <1>1 DEF Transition
  <2>2. tr.prior # None => View(tr.prior) # None
    BY <2>1, AbsentConstant DEF View, State
  <2> QED BY <1>5, <2>2 DEF Abstract!Following, Succeeds, View
<1> QED BY <1>4, <1>6, <1>7 DEF Abstract!Apply

\* Every other write of the two files keeps the view.
LEMMA OtherWritesStutter ==
  ASSUME Shape, Shape',
         \/ UpRecord \/ UpCapture \/ PublishState \/ PublishClear \/ CleanupClear
         \/ RestoreState \/ RollbackState \/ RollbackClear \/ CommitRecord
         \/ AdoptState \/ DownState
  PROVE  View(Authoritative)' = View(Authoritative)
<1>1. CASE UpRecord
  <2>1. tr = None /\ tr'.phase = "rollback" /\ state' = state
    BY <1>1 DEF Shape, LabelShape, UpRecord
  <2> QED BY <2>1, StateView, StateView DEF Shape, RecordShape, Authoritative, View
<1>2. CASE UpCapture
  <2>1. tr # None /\ tr.phase = "rollback" /\ tr' # None /\ tr'.phase = "rollback"
    BY <1>2 DEF Shape, LabelShape, UpCapture, Write
  <2>2. state' = state
    BY <1>2 DEF UpCapture, Write
  <2> QED BY <2>1, <2>2 DEF Shape, RecordShape, Authoritative, View
<1>3. CASE PublishState
  <2>1. tr' = tr /\ tr # None /\ tr.phase = "commit"
    BY <1>3 DEF Shape, LabelShape, PublishState, Write
  <2> QED BY <2>1 DEF Authoritative, View
<1>4. CASE PublishClear
  <2>1. /\ tr' = None /\ state' = state /\ tr # None /\ tr.phase = "commit"
        /\ View(state) = View(tr.succ)
    BY <1>4 DEF Shape, LabelShape, PublishClear
  <2> QED BY <2>1 DEF Authoritative, View
<1>5. CASE CleanupClear
  <2>1. state' = state /\ (tr' = tr \/ tr' = None)
    BY <1>5 DEF CleanupClear
  <2>2. tr # None => tr.phase = "rollback"
    BY <1>5 DEF Shape, UpShape, InUp, CleanupClear
  <2> QED BY <2>1, <2>2, StateView DEF Authoritative, View
<1>6. CASE RestoreState \/ RollbackState
  <2>1. tr' = tr /\ tr # None /\ tr.phase = "rollback"
    BY <1>6 DEF Shape, LabelShape, RestoreState, RollbackState, Write
  <2> QED BY <2>1 DEF Authoritative, View
<1>7. CASE RollbackClear
  <2>1. tr' = None /\ state' = state /\ tr # None /\ tr.phase = "rollback"
    BY <1>7 DEF Shape, LabelShape, RollbackClear
  <2> QED BY <2>1, StateView DEF Authoritative, View
<1>8. CASE CommitRecord
  <2>1. /\ tr \in Transition /\ tr.succ \in State /\ tr # None
        /\ tr.phase = "commit" /\ tr' # None /\ tr'.phase = "commit"
    BY <1>8, RecoverRecord DEF Shape, LabelShape, CommitRecord, Write
  <2>2. tr'.succ = [tr.succ EXCEPT !.proxy = loc.pid]
    BY <1>8, <2>1 DEF CommitRecord, Write, Transition
  <2>3. tr'.succ.gen = tr.succ.gen /\ tr'.succ.decl = tr.succ.decl
    BY <2>1, <2>2 DEF State
  <2>4. tr.succ # None /\ tr'.succ # None
    <3>1. tr' \in Transition
      BY <2>1 DEF Shape, TypeOK
    <3>2. tr'.succ \in State
      BY <3>1 DEF Transition
    <3> QED BY <2>1, <3>2, AbsentConstant
  <2> QED BY <2>1, <2>3, <2>4 DEF Authoritative, View
<1>9. CASE AdoptState
  <2>1. tr = None /\ tr' = None /\ loc' = loc
    BY <1>9 DEF Shape, LabelShape, AdoptState, Write
  <2>2. View(loc.prior) = View(state) /\ View(loc.prior) = View(state')
    BY <1>9, <2>1 DEF Shape, LocalShape, AdoptState, Write
  <2> QED BY <2>1, <2>2 DEF Authoritative, View
<1>10. CASE DownState
  <2>1. /\ tr = None /\ tr' = None /\ state # None /\ state' # None
        /\ state' = [state EXCEPT !.status = "down", !.proxy = 0]
    BY <1>10 DEF Shape, LabelShape, DownState, Write
  <2>2. state \in State
    BY <2>1 DEF Shape, TypeOK
  <2>3. state'.gen = state.gen /\ state'.decl = state.decl
    BY <2>1, <2>2 DEF State
  <2> QED BY <2>1, <2>3 DEF Authoritative, View
<1> QED BY <1>1, <1>2, <1>3, <1>4, <1>5, <1>6, <1>7, <1>8, <1>9, <1>10

\* Every step but the commit record and the rename of the root is invisible.
LEMMA StepStutters ==
  ASSUME Shape, Shape', [Next]_vars, ~UpCommit, ~DestroyRename
  PROVE  View(Authoritative)' = View(Authoritative)
<1>1. CASE \/ UpRecord \/ UpCapture \/ PublishState \/ PublishClear \/ CleanupClear
           \/ RestoreState \/ RollbackState \/ RollbackClear \/ CommitRecord
           \/ AdoptState \/ DownState
  BY <1>1, OtherWritesStutter
<1>2. CASE UNCHANGED <<state, tr>>
  BY <1>2, QuietView
<1>3. CASE UpStep
  BY <1>1, <1>2, <1>3
  DEF UpStep, UpRead, UpLoad, UpCreate, CreateCtr, UpMaterialize, UpStopDoor, EndDoor, UpStop,
      UpStart, UpVerify, SpawnDoor, ReadyDoor, StartServices, UpReverify,
      PublishDigest, PublishApplied, PublishPlan, PublishHistory, PublishDestroy,
      CleanupDoor, CleanupStop, CleanupDestroy, Write
<1>4. CASE AdoptStep
  BY <1>1, <1>2, <1>4
  DEF AdoptStep, AdoptStart, AdoptVerify, AdoptKeepDoor, AdoptSpawnDoor, AdoptNoDoor,
      SpawnDoor, ReadyDoor, StartServices, AdoptPlan, AdoptHistory, AdoptUndo,
      AdoptUnstart, Write
<1>5. CASE RecoverStep
  BY <1>1, <1>2, <1>5
  DEF RecoverStep, Recover, CommitStart, CommitVerify, SpawnDoor, ReadyDoor,
      StartServices, RollbackDoor, EndDoor, RollbackDestroy, RollbackApplied,
      RollbackPlan, RestoreStart, RestoreVerify, RestoreApplied, RestorePlan, Write
<1>6. CASE DownStep \/ DestroyStep
  BY <1>1, <1>2, <1>6
  DEF DownStep, DownStop, DownDoor, EndDoor, DownHistory, DestroyStep, DestroyFirst,
      DestroySecond, DestroyDoor, DestroyHistory
<1>7. CASE Command \/ Failure \/ WorldWrites
  BY <1>2, <1>7
  DEF Command, Begin, Failure, Crash, Reboot, HostFailure, LostReply, CreateCtr, ContainerExit,
      DoorExit, WorldWrites
<1>8. CASE UNCHANGED vars
  BY <1>2, <1>8 DEF vars
<1> QED BY <1>3, <1>4, <1>5, <1>6, <1>7, <1>8 DEF Next, Step

\* Every step is Apply, Remove or invisible.
LEMMA StepRefines ==
  ASSUME Shape, Shape', [Next]_vars
  PROVE  [Abstract!Next]_(View(Authoritative))
<1>1. CASE UpCommit
  BY <1>1, CommitApplies DEF Abstract!Next
<1>2. CASE DestroyRename
  <2>1. View(Authoritative)' = None
    BY <1>2 DEF DestroyRename, Authoritative, View
  <2> QED BY <2>1 DEF Abstract!Next, Abstract!Remove
<1> QED BY <1>1, <1>2, StepStutters

\* Replacement is atomic: whatever crashes, reboots, exits and failing calls fall
\* between the steps of up, down and destroy, the files on disk read through the
\* transition record always name one generation or none, which only the commit
\* record replaces, by the next number, and only the rename of the root removes.
\* Failing calls that publish a committed successor are excluded: the run
\* world_hybrid shows what up does after them.
THEOREM AuthorityIsAtomic ==
  ASSUME FaultAt \cap PublishLabels = {}
  PROVE  Spec => AtomicAuthority
<1>1. Init => Abstract!Init
  BY DEF Init, Abstract!Init, Authoritative, View
<1>2. Shape /\ [Next]_vars => Shape'
  BY StepKeepsShape
<1>3. Shape /\ Shape' /\ [Next]_vars => [Abstract!Next]_(View(Authoritative))
  BY StepRefines
<1> QED BY <1>1, <1>2, <1>3, InitShape, PTL DEF Spec, AtomicAuthority, Abstract!Spec
=============================================================================
