-------------------------- MODULE LifecycleProofs --------------------------
(***************************************************************************)
(* What runs, and what the files say, while a world is replaced: one       *)
(* generation at a time and one that is on record, a transition that       *)
(* recovery can complete, and intent, state, digest and container of one   *)
(* declaration whenever no transition is pending.  For any declarations,   *)
(* crashes, reboots, exits and any failing host call that is Handled.      *)
(*                                                                         *)
(* On top of Shape (module WorldProofs) the invariant says at each label   *)
(* which of predecessor and successor may run, and what the files and the  *)
(* containers that the next command starts from are.                       *)
(***************************************************************************)
EXTENDS WorldProofs

\* The failures that up handles.  Not among them: a failing write or call between
\* commit record and return (world_hybrid shows what becomes of the files), a
\* cleanup that cannot stop the successor, and a podman start that takes effect
\* and reports an error, after both of which up restarts the predecessor beside it.
Handled ==
  /\ FaultAt \cap PublishLabels = {}
  /\ "c.stop" \notin FaultAt
  /\ "u.start" \notin LostAt

-----------------------------------------------------------------------------
(* Which generations run *)

\* Only recorded generations run, one at a time, and no longer the predecessor once
\* its successor is committed.
Alone ==
  /\ OneGeneration
  /\ tr = None => \A g \in Gens: Running(g) => state # None /\ g = state.gen
  /\ tr # None /\ tr.phase = "rollback" =>
       \A g \in Gens: Running(g) => g = tr.succ.gen \/ (tr.prior # None /\ g = tr.prior.gen)
  /\ tr # None /\ tr.phase = "commit" => \A g \in Gens: Running(g) => g = tr.succ.gen

\* Labels at which the successor does not run, with a record or without.
Still == {"u.stopdoor", "u.stop", "u.capture", "u.start", "c.destroy", "c.clear",
          "b.state", "b.applied", "b.plan", "b.clear"} \cup RestoreLabels

\* Labels from the end of the predecessor to the commit record.
CutOver == {"u.capture", "u.start", "u.verify", "u.door", "u.ready", "u.services",
            "u.reverify", "u.commit"}

SuccessorWaits ==
  /\ pc \in Still /\ tr # None => ~Running(tr.succ.gen)
  /\ pc \in {"c.door", "c.stop"} /\ ~loc.started /\ tr # None => ~Running(tr.succ.gen)
  /\ pc \in CutOver \ {"u.capture", "u.start"} => loc.started

PredecessorStopped ==
  /\ pc \in CutOver /\ tr.prior # None => ~Running(tr.prior.gen)
  /\ pc \in (BeforeRecord \ {"u.read"}) \cup {"a.start"} /\ ~loc.active /\ loc.prior # None =>
       ~Running(loc.prior.gen)
  /\ pc \in AdoptLabels \ {"a.start"} => loc.active \/ loc.restarted

\* Destroy leaves nothing running behind it.
Removed ==
  /\ pc = "x.second" /\ Authoritative # None => ~Running(Authoritative.gen)
  /\ pc \in {"x.door", "x.history", "x.rename"} => \A g \in Gens: ~Running(g)
  /\ pc \in DestroyLabels \ {"x.first"} => doomed

-----------------------------------------------------------------------------
(* What the files say *)

Prepared(g) == ctr[g] \notin {"absent", "created"}

\* state.json, intent, digest and container are of one declaration.
Whole ==
  IF state = None THEN applied = None /\ plan = None
  ELSE /\ applied = state.decl /\ plan = state.decl
       /\ Prepared(state.gen) /\ img[state.gen] = state.decl
       /\ digest[state.gen] # -1

\* Until the commit record the files are those of the predecessor, after it the
\* successor's container is complete.
Complete ==
  ~doomed =>
    /\ tr = None => Whole
    /\ tr # None /\ tr.phase = "rollback" => Whole
    /\ tr # None /\ tr.phase = "commit" =>
         Prepared(tr.succ.gen) /\ img[tr.succ.gen] = tr.succ.decl

\* What has been published, label by label.
Published ==
  /\ pc \in PublishLabels \ {"p.digest"} => digest[tr.succ.gen] # -1
  /\ pc \in PublishLabels \ {"p.digest", "p.applied"} => applied = tr.succ.decl
  /\ pc \in PublishLabels \ {"p.digest", "p.applied", "p.plan"} => plan = tr.succ.decl

\* The successor that up stages is the one it records, and is built before that.
Staged ==
  /\ pc \in {"u.materialize", "u.record"} \cup AfterRecord => img[loc.gen] = loc.decl
  /\ pc \in {"u.record"} \cup AfterRecord => Prepared(loc.gen)
  /\ pc \in AfterRecord => tr.succ.decl = loc.decl
  /\ pc \in AdoptLabels \ {"a.start", "a.verify", "a.unstart"} /\ ~doomed => loc.decl = state.decl

\* The part of the invariant that depends on the label.
Stance == SuccessorWaits /\ PredecessorStopped /\ Removed

Life == Shape /\ Alone /\ Stance /\ Complete /\ Published /\ Staged /\ HandoffExact

-----------------------------------------------------------------------------
(* What the records hold *)

USE DEF files, book, host, doors, budget, Goto, Keep,
        Labels, UpLabels, PublishLabels, CleanupLabels, AdoptLabels,
        RecoverLabels, RestoreLabels, DownLabels, DestroyLabels,
        BeforeRecord, AfterRecord, CommitLabels, RollbackLabels

\* The generations of state.json and transition.json.
LEMMA RecordGens ==
  ASSUME Shape
  PROVE  /\ state # None => state \in State /\ state.gen \in Gens
         /\ tr # None => /\ tr \in Transition /\ tr.succ \in State /\ tr.succ.gen \in Gens
                         /\ tr.prior # None => tr.prior \in State /\ tr.prior.gen \in Gens
                         /\ tr.prior # None => tr.succ.gen = tr.prior.gen + 1
         /\ loc \in Locals /\ (loc.prior # None => loc.prior \in State /\ loc.prior.gen \in Gens)
<1>1. state # None => state \in State BY DEF Shape, TypeOK
<1>2. tr # None => tr \in Transition BY DEF Shape, TypeOK
<1>3. tr # None => tr.succ \in State /\ tr.prior \in {None} \cup State
  BY <1>2 DEF Transition
<1>4. loc \in Locals BY DEF Shape, TypeOK
<1>5. loc.prior \in {None} \cup State BY <1>4 DEF Locals
<1>6. tr # None /\ tr.prior # None => tr.succ.gen = tr.prior.gen + 1
  BY DEF Shape, RecordShape, Succeeds
<1> QED BY <1>1, <1>2, <1>3, <1>4, <1>5, <1>6 DEF State

\* Two records with the same view.
LEMMA SameView ==
  ASSUME NEW s \in {None} \cup State, NEW t \in {None} \cup State, View(s) = View(t)
  PROVE  (s = None <=> t = None) /\ (s # None => s.gen = t.gen /\ s.decl = t.decl)
<1>1. \A r \in State: [gen |-> r.gen, decl |-> r.decl] \in [gen: Gens, decl: Decls]
  BY DEF State
<1>2. \A r \in State: [gen |-> r.gen, decl |-> r.decl] # None BY <1>1, AbsentConstant
<1> QED BY <1>2 DEF View

\* Until the commit record, state.json is the predecessor.
LEMMA PriorIsState ==
  ASSUME Shape, tr # None, tr.phase = "rollback"
  PROVE  /\ state = None <=> tr.prior = None
         /\ state # None => /\ tr.prior.gen = state.gen /\ tr.prior.decl = state.decl
                            /\ tr.succ.gen # state.gen
<1>1. tr.prior \in {None} \cup State /\ state \in {None} \cup State /\ View(state) = View(tr.prior)
  BY RecordGens DEF Shape, RecordShape
<1>2. /\ state = None <=> tr.prior = None
      /\ state # None => tr.prior.gen = state.gen /\ tr.prior.decl = state.decl
  BY <1>1, SameView
<1>3. state # None => tr.succ.gen # state.gen
  BY <1>2, RecordGens DEF Gens
<1> QED BY <1>2, <1>3

\* The generation that up stages: it follows the predecessor, and is the
\* successor on record.
LEMMA StagedGen ==
  ASSUME Shape, InUp
  PROVE  /\ loc.gen \in Gens
         /\ loc.prior # None => loc.gen # loc.prior.gen
         /\ loc.recorded <=> tr # None
         /\ tr # None => tr.succ.gen = loc.gen /\ tr.prior = loc.prior
         /\ tr = None /\ state # None => loc.gen # state.gen
<1>1. /\ loc.gen \in Gens /\ loc.gen = Succeeds(loc.prior)
      /\ loc.recorded <=> tr # None
      /\ ~loc.recorded => View(loc.prior) = View(state)
      /\ loc.recorded => tr.prior = loc.prior
  BY DEF Shape, UpShape
<1>2. loc.prior # None => loc.gen # loc.prior.gen BY <1>1, RecordGens DEF Succeeds, Gens
<1>3. tr # None => tr.succ.gen = loc.gen /\ tr.prior = loc.prior
  BY <1>1 DEF Shape, RecordShape
<1>4. tr = None /\ state # None => loc.gen # state.gen
  <2>1. tr = None /\ state # None => loc.prior # None /\ loc.prior.gen = state.gen
    BY <1>1, RecordGens, SameView
  <2> QED BY <1>2, <2>1
<1> QED BY <1>1, <1>2, <1>3, <1>4

-----------------------------------------------------------------------------
(* Steps that start and build nothing *)

\* Containers end at most, and what is built stays.
Ebbs == \A g \in Gens: Running(g)' => Running(g)
Fades == Ebbs /\ \A g \in Gens: Prepared(g) => Prepared(g)'

\* podman stop, rm and start change one container.
LEMMA CtrEffect ==
  ASSUME TypeOK, NEW g \in Gens
  PROVE  /\ StopCtr(g) => Fades /\ img' = img /\ ~Running(g)'
         /\ DestroyCtr(g) => /\ ~Running(g)' /\ Ebbs
                             /\ \A h \in Gens \ {g}: ctr'[h] = ctr[h] /\ img'[h] = img[h]
         /\ StartCtr(g) => /\ \A h \in Gens \ {g}: ctr'[h] = ctr[h]
                           /\ Prepared(g)'
BY DEF TypeOK, StopCtr, DestroyCtr, StartCtr, Running, Prepared, Fades, Ebbs

\* Containers left alone fade.
LEMMA QuietFades == ASSUME ctr' = ctr PROVE Fades
BY DEF Fades, Ebbs, Running, Prepared

\* They keep which generations may run ...
LEMMA AloneKept ==
  ASSUME Alone, UNCHANGED <<state, tr>>, Ebbs
  PROVE  Alone'
BY DEF Alone, OneGeneration, Ebbs

\* ... and what the files say.
LEMMA CompleteKept ==
  ASSUME Shape, Complete, UNCHANGED <<files, tr, img, doomed>>, Fades
  PROVE  Complete'
<1>1. /\ state # None => state.gen \in Gens
      /\ tr # None => tr.succ.gen \in Gens
  BY RecordGens
<1> QED BY <1>1 DEF Complete, Whole, Fades

\* The locals that Stance and Staged read.
SameLocals ==
  /\ loc'.prior = loc.prior /\ loc'.active = loc.active /\ loc'.started = loc.started
  /\ loc'.restarted = loc.restarted /\ loc'.gen = loc.gen /\ loc'.decl = loc.decl

\* Locals of which a step changes only what the invariant does not read.
LEMMA SameByLocal ==
  ASSUME loc \in Locals, NEW b,
         \/ loc' = loc
         \/ loc' = [loc EXCEPT !.failed = b]
         \/ loc' = [loc EXCEPT !.pid = b]
         \/ loc' = [loc EXCEPT !.doored = b]
         \/ loc' = [loc EXCEPT !.recovering = b]
  PROVE  SameLocals
BY DEF Locals, SameLocals

\* The labels at which nothing is said of the containers or of what is staged.
Loose == {"idle", "recover", "u.read", "x.first", "p.digest"} \cup CommitLabels \cup DownLabels
           \cup {"b.door", "b.destroy"}

\* Between these labels nothing has to change.
Stays(a, b) ==
  \/ b \in Loose
  \/ {a, b} \subseteq {"u.stopdoor", "u.stop"}
  \/ {a, b} \subseteq Still \ UpLabels
  \/ {a, b} \subseteq CutOver \ {"u.capture", "u.start"}
  \/ {a, b} \subseteq {"c.door", "c.stop"}
  \/ a \in UpLabels /\ b = "c.door"
  \/ a \in AdoptLabels \ {"a.start"} /\ b = "a.unstart"
  \/ {a, b} \subseteq AdoptLabels \ {"a.start", "a.verify", "a.unstart"}
  \/ a = "a.start" /\ b = "u.load"
  \/ {a, b} \subseteq {"x.door", "x.history", "x.rename"}
  \/ a = b

\* A quiet step keeps which generations run at its label.
LEMMA StaysStance ==
  ASSUME Shape, Stance, UNCHANGED <<state, tr, doomed>>, Fades, Stays(pc, pc'),
         pc' \in Loose \/ SameLocals
  PROVE  Stance'
<1>1. /\ tr # None => tr.succ.gen \in Gens /\ (tr.prior # None => tr.prior.gen \in Gens)
      /\ loc.prior # None => loc.prior.gen \in Gens
      /\ state # None => state.gen \in Gens
  BY RecordGens
<1>2. pc \in BeforeRecord => tr = None BY DEF Shape, LabelShape
<1>3. pc \in CutOver => tr # None BY DEF Shape, LabelShape, CutOver
<1>4. CASE pc' \in Loose
  BY <1>4 DEF Loose, Stance, SuccessorWaits, PredecessorStopped, Removed, Still, CutOver
<1>5. CASE pc' \notin Loose
  <2>1. SameLocals BY <1>5
  <2>2. SuccessorWaits'
    BY <1>1, <1>2, <1>5, <2>1
    DEF Stance, SuccessorWaits, Stays, Still, CutOver, Fades, Ebbs, SameLocals
  <2>3. PredecessorStopped'
    BY <1>1, <1>3, <1>5, <2>1
    DEF Stance, PredecessorStopped, Stays, Still, CutOver, Fades, Ebbs, SameLocals, Loose
  <2>4. Removed'
    BY <1>1, <1>5, <2>1
    DEF Stance, Removed, Stays, Still, CutOver, Fades, Ebbs, Authoritative, Loose
  <2> QED BY <2>2, <2>3, <2>4 DEF Stance
<1> QED BY <1>4, <1>5

\* A quiet step keeps what up has staged.
LEMMA StaysStaged ==
  ASSUME Shape, Published, Staged, UNCHANGED <<files, tr, img, doomed>>, Fades, Stays(pc, pc'),
         pc' \in Loose \/ SameLocals
  PROVE  Published' /\ Staged'
<1>1. pc \in {"u.record"} \cup AfterRecord => loc.gen \in Gens BY DEF Shape, UpShape, InUp
<1>2. Published'
  BY DEF Published, Stays, Loose, Still, CutOver
<1>3. Staged'
  <2>1. CASE pc' \in Loose
    BY <2>1 DEF Loose, Staged
  <2>2. CASE pc' \notin Loose
    BY <1>1, <2>2 DEF Staged, Stays, Loose, Still, CutOver, Fades, Ebbs, SameLocals
  <2> QED BY <2>1, <2>2
<1> QED BY <1>2, <1>3

\* A step along Stays keeps the invariant.
LEMMA StaysLife ==
  ASSUME Life, Shape', UNCHANGED <<files, tr, img, doomed>>, Fades, Stays(pc, pc'),
         pc' \in Loose \/ SameLocals, pc' # "u.start" \/ UNCHANGED <<pc, ws>>
  PROVE  Life'
<1>1. Shape /\ Alone /\ Stance /\ Complete /\ Published /\ Staged /\ HandoffExact
  BY DEF Life
<1>2. Alone' /\ Complete' BY <1>1, AloneKept, CompleteKept DEF Fades
<1>3. Stance' /\ Published' /\ Staged' BY <1>1, StaysStance, StaysStaged
<1>4. HandoffExact' BY <1>1 DEF HandoffExact
<1> QED BY <1>2, <1>3, <1>4 DEF Life

\* A step that fails.
LEMMA FailLife ==
  ASSUME Life, Shape', Fail(pc), pc \in Labels \ (PublishLabels \cup {"c.stop"}),
         UNCHANGED <<files, tr, img, doomed>>, Fades
  PROVE  Life'
<1>1. pc' = OnError(pc) BY DEF Fail
<1>2. Stays(pc, pc') /\ pc' # "u.start"
  <2>1. CASE pc \in UpLabels
    <3>1. OnError(pc) \in {"idle", "c.door"} BY <2>1 DEF OnError
    <3> QED BY <1>1, <2>1, <3>1 DEF Stays, Loose
  <2>2. CASE pc \in CleanupLabels
    BY <1>1, <2>2 DEF OnError, CleanupNext, Stays, Loose, Still, CutOver
  <2>3. CASE pc \in AdoptLabels
    <3>1. \/ pc = "a.start" /\ OnError(pc) = "u.load"
          \/ pc \in {"a.verify", "a.undo"} /\ OnError(pc) = "a.unstart"
          \/ pc = "a.unstart" /\ OnError(pc) = "idle"
          \/ pc \notin {"a.start", "a.verify", "a.undo", "a.unstart"} /\ OnError(pc) = "a.undo"
      BY <2>3 DEF OnError
    <3> QED BY <1>1, <2>3, <3>1 DEF Stays, Loose
  <2>4. CASE pc \in RestoreLabels
    BY <1>1, <2>4 DEF OnError, Stays, Loose, Still, CutOver
  <2>5. CASE pc \in RecoverLabels \cup DownLabels \cup DestroyLabels
    <3>1. OnError(pc) = "idle" BY <2>5 DEF OnError
    <3> QED BY <1>1, <3>1 DEF Stays, Loose
  <2> QED BY <2>1, <2>2, <2>3, <2>4, <2>5
<1>3. pc' \in Loose \/ SameLocals
  <2>1. CASE OnError(pc) = "idle" BY <1>1, <2>1 DEF Loose
  <2>2. CASE OnError(pc) # "idle"
    <3>1. loc' = [loc EXCEPT !.failed = @ \/ pc \in Failing] BY <2>2 DEF Fail
    <3>2. loc \in Locals BY DEF Life, Shape, TypeOK
    <3> QED BY <3>1, <3>2, SameByLocal
  <2> QED BY <2>1, <2>2
<1> QED BY <1>2, <1>3, StaysLife

\* Steps of every command that move no container and no file.
LEMMA QuietLife ==
  ASSUME Life, Shape',
         \/ UpStopDoor \/ UpVerify \/ UpReverify \/ CleanupDoor \/ RestoreVerify
         \/ AdoptKeepDoor \/ AdoptNoDoor \/ AdoptHistory \/ AdoptUndo \/ Recover
         \/ CommitVerify \/ RollbackDoor \/ DownDoor \/ DownHistory
         \/ DestroyDoor \/ DestroyHistory
  PROVE  Life'
<1>0. loc \in Locals BY DEF Life, Shape, TypeOK
<1>a. ctr' = ctr /\ UNCHANGED <<files, tr, img, doomed>>
  BY
  DEF UpStopDoor, UpVerify, UpReverify, CleanupDoor, RestoreVerify, AdoptKeepDoor,
      AdoptNoDoor,
    AdoptHistory, AdoptUndo, Recover, CommitVerify, RollbackDoor, DownDoor, DownHistory,
    DestroyDoor, DestroyHistory, EndDoor
<1>b. Fades BY <1>a, QuietFades
<1>c. CASE Fail(pc) /\ pc \in Labels \ (PublishLabels \cup {"c.stop"})
  BY <1>a, <1>b, <1>c, FailLife
<1>d. CASE Stays(pc, pc') /\ pc' # "u.start" /\ (pc' \in Loose \/ SameLocals)
  BY <1>a, <1>b, <1>d, StaysLife
<1> USE DEF Stays, Loose, Still, CutOver
<1>1. CASE UpStopDoor \/ CleanupDoor \/ AdoptUndo \/ RollbackDoor \/ DownDoor \/ DestroyDoor
             \/ DestroyHistory
  <2>1. loc' = loc
    BY <1>1 DEF UpStopDoor, CleanupDoor, AdoptUndo, RollbackDoor, DownDoor, DestroyDoor,
      DestroyHistory, EndDoor
  <2>2. Stays(pc, pc') /\ pc' # "u.start"
    BY <1>1 DEF UpStopDoor, CleanupDoor, AdoptUndo, RollbackDoor, DownDoor, DestroyDoor,
      DestroyHistory, EndDoor
  <2> QED BY <1>0, <1>d, <2>1, <2>2, SameByLocal
<1>2. CASE UpVerify \/ UpReverify
  <2>1. CASE Fail(pc) BY <1>2, <1>c, <2>1 DEF UpVerify, UpReverify
  <2>2. CASE ~Fail(pc)
    <3>1. loc' = loc /\ Stays(pc, pc') /\ pc' # "u.start"
      BY <1>2, <2>2 DEF UpVerify, UpReverify
    <3> QED BY <1>0, <1>d, <3>1, SameByLocal
  <2> QED BY <2>1, <2>2
<1>3. CASE RestoreVerify
  <2>1. \/ Fail(pc) /\ pc = "r.verify"
        \/ loc' = [loc EXCEPT !.pid = 0] /\ Stays(pc, pc') /\ pc' # "u.start"
    BY <1>3 DEF RestoreVerify
  <2> QED BY <1>0, <1>c, <1>d, <2>1, SameByLocal
<1>4. CASE AdoptKeepDoor \/ AdoptNoDoor
  <2>1. \/ Fail(pc) /\ pc = "a.door"
        \/ /\ \E b: loc' = [loc EXCEPT !.pid = b]
           /\ Stays(pc, pc') /\ pc' # "u.start"
    BY <1>4 DEF AdoptKeepDoor, AdoptNoDoor, AfterAdoptDoor
  <2> QED BY <1>0, <1>c, <1>d, <2>1, SameByLocal
<1>5. CASE AdoptHistory \/ DownHistory
  BY <1>5, <1>d DEF AdoptHistory, DownHistory, Return
<1>6. CASE Recover
  BY <1>6, <1>d DEF Recover, Recovered, Return
<1>7. CASE CommitVerify
  <2>1. \/ Fail(pc) /\ pc = "m.verify"
        \/ pc' \in Loose
    BY <1>7 DEF CommitVerify
  <2> QED BY <1>c, <1>d, <2>1
<1> QED BY <1>1, <1>2, <1>3, <1>4, <1>5, <1>6, <1>7

\* startProxy and startServices of every caller.
LEMMA DoorLife ==
  ASSUME Life, Shape', NEW at \in Labels \ (PublishLabels \cup {"c.stop"}),
         NEW to \in Labels \ {"u.start"}, NEW g, Stays(at, to),
         SpawnDoor(at, to, g) \/ ReadyDoor(at, to) \/ StartServices(at, to, g)
  PROVE  Life'
<1>0. loc \in Locals BY DEF Life, Shape, TypeOK
<1>1. pc = at /\ UNCHANGED <<files, tr, img, doomed>>
  BY DEF SpawnDoor, ReadyDoor, StartServices
<1>2. Fades
  <2>1. CASE ctr' = ctr BY <2>1, QuietFades
  <2>2. CASE Running(g) /\ ctr' = [ctr EXCEPT ![g] = "serving"]
    BY <2>2 DEF Fades, Ebbs, Running, Prepared, Life, Shape, TypeOK
  <2> QED BY <2>1, <2>2 DEF SpawnDoor, ReadyDoor, StartServices
<1>3. CASE Fail(at) BY <1>1, <1>2, <1>3, FailLife
<1>4. CASE ~Fail(at)
  <2>1. /\ pc' = to
        /\ \E b: loc' = loc \/ loc' = [loc EXCEPT !.pid = b] \/ loc' = [loc EXCEPT !.doored = b]
    BY <1>4 DEF SpawnDoor, ReadyDoor, StartServices
  <2> QED BY <1>0, <1>1, <1>2, <2>1, SameByLocal, StaysLife
<1> QED BY <1>3, <1>4

\* Commands begin, crash, fail, and containers and doors end.
LEMMA FailureLife ==
  ASSUME Handled, Life, Shape', Command \/ Failure \/ WorldWrites
  PROVE  Life'
<1>0. TypeOK /\ loc \in Locals /\ Shape BY DEF Life, Shape, TypeOK
<1> USE DEF Stays, Loose
<1>1. CASE Command
  <2>1. pc' \in {"x.first", "recover"} /\ ctr' = ctr /\ UNCHANGED <<files, tr, img, doomed>>
    BY <1>1 DEF Command, Begin
  <2> QED BY <2>1, QuietFades, StaysLife
<1>2. CASE Crash
  BY <1>2, QuietFades, StaysLife DEF Crash, Return
<1>3. CASE Reboot
  <2>1. Fades BY <1>0, <1>3 DEF Reboot, Fades, Ebbs, Running, Prepared, TypeOK
  <2> QED BY <1>3, <2>1, StaysLife DEF Reboot, Return
<1>4. CASE HostFailure
  <2>1. pc \in Labels \ (PublishLabels \cup {"c.stop"}) /\ Fail(pc)
    BY <1>4, FailureConstants DEF HostFailure, Handled
  <2> QED BY <1>4, <2>1, QuietFades, FailLife DEF HostFailure
<1>5. CASE LostReply
  <2>1. /\ pc \in {"u.create", "u.stop"} /\ Fail(pc)
        /\ UNCHANGED <<files, tr, doomed>>
    BY <1>5 DEF LostReply, Handled
  <2>2. CASE pc = "u.stop"
    <3>1. StopCtr(loc.prior.gen) /\ loc.prior.gen \in Gens
      BY <1>0, <1>5, <2>2, RecordGens DEF LostReply, Shape, UpShape, InUp
    <3>2. Fades /\ img' = img BY <1>0, <3>1, CtrEffect
    <3> QED BY <2>1, <2>2, <3>2, FailLife
  <2>3. CASE pc = "u.create"
    <3>1. pc' = "idle" BY <2>1, <2>3 DEF Fail, OnError
    <3>2. /\ loc.gen \in Gens /\ tr = None /\ (state # None => loc.gen # state.gen)
          /\ ctr[loc.gen] = "absent"
      BY <1>0, <1>5, <2>3, StagedGen DEF LostReply, InUp, Shape, LabelShape
    <3>3. /\ ctr' = [ctr EXCEPT ![loc.gen] = "created"]
          /\ img' = [img EXCEPT ![loc.gen] = loc.decl]
      BY <1>5, <2>3 DEF LostReply, CreateCtr
    <3>4. Fades BY <1>0, <3>2, <3>3 DEF Fades, Ebbs, Running, Prepared, TypeOK
    <3>5. Alone' BY <2>1, <3>4, AloneKept DEF Life, Fades
    <3>6. Complete'
      <4>1. state # None => ctr'[state.gen] = ctr[state.gen] /\ img'[state.gen] = img[state.gen]
        BY <1>0, <3>2, <3>3, RecordGens DEF TypeOK
      <4> QED BY <2>1, <3>2, <4>1 DEF Life, Complete, Whole, Prepared
    <3>7. Stance' BY <1>0, <2>1, <3>1, <3>4, StaysStance DEF Life
    <3>8. Published' /\ Staged' /\ HandoffExact' BY <3>1 DEF Published, Staged, HandoffExact
    <3> QED BY <3>5, <3>6, <3>7, <3>8 DEF Life
  <2> QED BY <2>1, <2>2, <2>3
<1>6. ASSUME NEW g \in Gens, ContainerExit(g) PROVE Life'
  BY <1>0, <1>6, CtrEffect, SameByLocal, StaysLife DEF ContainerExit
<1>7. ASSUME NEW q \in Pids, DoorExit(q) PROVE Life'
  BY <1>0, <1>7, QuietFades, SameByLocal, StaysLife DEF DoorExit
<1>8. CASE WorldWrites
  <2>1. pc # "u.start"
    <3>1. PICK g \in Gens: Running(g) BY <1>8 DEF WorldWrites
    <3>2. SUFFICES ASSUME pc = "u.start" PROVE FALSE OBVIOUS
    <3>3. /\ tr # None /\ tr.phase = "rollback" /\ ~Running(tr.succ.gen)
          /\ tr.prior # None => ~Running(tr.prior.gen)
      BY <1>0, <3>2
      DEF Life, Stance, SuccessorWaits, PredecessorStopped, Still, CutOver, Shape,
          LabelShape
    <3> QED BY <3>1, <3>3 DEF Life, Alone
  <2> QED BY <1>0, <1>8, <2>1, QuietFades, SameByLocal, StaysLife DEF WorldWrites
<1> QED BY <1>1, <1>2, <1>3, <1>4, <1>5, <1>6, <1>7, <1>8 DEF Failure

-----------------------------------------------------------------------------
(* up *)

\* What holds at a label that nothing is said of.
LEMMA LooseLife ==
  ASSUME pc' \in Loose \cup PublishLabels
  PROVE  Stance' /\ Staged' /\ HandoffExact' /\ (pc' \in Loose => Published')
<1> USE DEF Loose
<1>1. Stance' BY DEF Stance, SuccessorWaits, PredecessorStopped, Removed, Still, CutOver
<1>2. Staged' /\ HandoffExact' BY DEF Staged, HandoffExact
<1>3. pc' \in Loose => Published' BY DEF Published
<1> QED BY <1>1, <1>2, <1>3

\* up until its record.
LEMMA StageLife ==
  ASSUME Life, Shape', UpRead \/ UpLoad \/ UpCreate \/ UpMaterialize
  PROVE  Life'
<1>0. /\ Shape /\ Alone /\ Stance /\ Complete /\ Published /\ Staged /\ TypeOK /\ loc \in Locals
      /\ tr = None /\ UNCHANGED <<files, tr, doomed>>
  BY DEF Life, Shape, TypeOK, LabelShape, UpRead, UpLoad, UpCreate, UpMaterialize
<1>a. pc \in {"u.create", "u.materialize"} =>
        /\ loc.gen \in Gens /\ (state # None => loc.gen # state.gen /\ state.gen \in Gens)
        /\ loc.prior # None => loc.prior.gen \in Gens
  BY <1>0, StagedGen, RecordGens DEF InUp
<1>1. CASE UpRead
  <2>1. UNCHANGED <<ctr, img>> /\ pc' \in {"a.verify", "a.start", "u.load"}
    BY <1>1 DEF UpRead
  <2>2. Alone' /\ Complete' BY <1>0, <2>1, QuietFades, AloneKept, CompleteKept DEF Fades
  <2>3. /\ loc'.prior = state
        /\ loc'.active = (state # None /\ ctr[state.gen] # "absent" /\ Running(state.gen))
        /\ pc' = "a.verify" => loc'.active
    BY <1>0, <1>1 DEF UpRead, Locals
  <2>4. Stance'
    <3>1. SuccessorWaits' /\ Removed'
      BY <1>0, <2>1 DEF SuccessorWaits, Removed, Still, CutOver
    <3>2. PredecessorStopped'
      BY <2>1, <2>3 DEF PredecessorStopped, CutOver, Running
    <3> QED BY <3>1, <3>2 DEF Stance
  <2>5. Published' /\ Staged' /\ HandoffExact' BY <2>1 DEF Published, Staged, HandoffExact
  <2> QED BY <2>2, <2>4, <2>5 DEF Life
<1>2. CASE UpLoad
  <2>1. UNCHANGED <<ctr, img>> BY <1>2 DEF UpLoad
  <2>2. Alone' /\ Complete' BY <1>0, <2>1, QuietFades, AloneKept, CompleteKept DEF Fades
  <2>3. CASE pc' = "idle" BY <2>2, <2>3, LooseLife DEF Loose, Life
  <2>4. CASE pc' # "idle"
    <3>1. /\ pc = "u.load" /\ pc' = "u.create"
          /\ loc'.prior = loc.prior /\ loc'.active = loc.active
      BY <1>0, <1>2, <2>4 DEF UpLoad, Return, Locals
    <3>2. SuccessorWaits' /\ Removed' BY <3>1 DEF SuccessorWaits, Removed, Still, CutOver
    <3>3. PredecessorStopped'
      BY <1>0, <2>1, <3>1 DEF Stance, PredecessorStopped, CutOver, Running
    <3>4. Published' /\ Staged' /\ HandoffExact' BY <3>1 DEF Published, Staged, HandoffExact
    <3> QED BY <2>2, <3>2, <3>3, <3>4 DEF Life, Stance
  <2> QED BY <2>3, <2>4
<1>3. CASE UpCreate
  <2>1. CASE Fail("u.create")
    <3>1. pc = "u.create" /\ pc' = "idle" BY <1>3, <2>1 DEF UpCreate, Fail, OnError
    <3>2. UNCHANGED <<ctr, img>> BY <1>3, <3>1 DEF UpCreate
    <3>3. Alone' /\ Complete' BY <1>0, <3>2, QuietFades, AloneKept, CompleteKept DEF Fades
    <3> QED BY <3>1, <3>3, LooseLife DEF Loose, Life
  <2>2. CASE ~Fail("u.create")
    <3>1. /\ pc = "u.create" /\ pc' = "u.materialize" /\ loc' = loc /\ ctr[loc.gen] = "absent"
          /\ ctr' = [ctr EXCEPT ![loc.gen] = "created"]
          /\ img' = [img EXCEPT ![loc.gen] = loc.decl]
      BY <1>3, <2>2 DEF UpCreate, CreateCtr
    <3>2. Ebbs BY <1>0, <1>a, <3>1 DEF Ebbs, Running, TypeOK
    <3>3. Alone' BY <1>0, <3>2, AloneKept
    <3>4. Complete'
      <4>1. state # None => ctr'[state.gen] = ctr[state.gen] /\ img'[state.gen] = img[state.gen]
        BY <1>0, <1>a, <3>1 DEF TypeOK
      <4> QED BY <1>0, <4>1 DEF Complete, Whole, Prepared
    <3>5. SuccessorWaits' /\ Removed' BY <3>1 DEF SuccessorWaits, Removed, Still, CutOver
    <3>6. PredecessorStopped'
      BY <1>0, <1>a, <3>1, <3>2 DEF Stance, PredecessorStopped, CutOver, Ebbs
    <3>7. Published' /\ HandoffExact' BY <3>1 DEF Published, HandoffExact
    <3>8. Staged' BY <1>0, <1>a, <3>1 DEF Staged, TypeOK
    <3> QED BY <3>3, <3>4, <3>5, <3>6, <3>7, <3>8 DEF Life, Stance
  <2> QED BY <2>1, <2>2
<1>4. CASE UpMaterialize
  <2>1. /\ pc = "u.materialize" /\ pc' = "u.record" /\ loc' = loc /\ img' = img
        /\ ctr' = [ctr EXCEPT ![loc.gen] = "stopped"]
    BY <1>4 DEF UpMaterialize
  <2>2. Fades BY <1>0, <1>a, <2>1 DEF Fades, Ebbs, Running, Prepared, TypeOK
  <2>3. Alone' /\ Complete' BY <1>0, <2>1, <2>2, AloneKept, CompleteKept DEF Fades
  <2>4. SuccessorWaits' /\ Removed' BY <2>1 DEF SuccessorWaits, Removed, Still, CutOver
  <2>5. PredecessorStopped'
    BY <1>0, <1>a, <2>1, <2>2 DEF Stance, PredecessorStopped, CutOver, Fades, Ebbs
  <2>6. Published' /\ HandoffExact' BY <2>1 DEF Published, HandoffExact
  <2>7. Staged' BY <1>0, <1>a, <2>1 DEF Staged, TypeOK, Prepared
  <2> QED BY <2>3, <2>4, <2>5, <2>6, <2>7 DEF Life, Stance
<1> QED BY <1>1, <1>2, <1>3, <1>4

\* The rollback record: predecessor and successor are on it, and only the former
\* can be running.
LEMMA RecordLife == ASSUME Life, Shape', UpRecord PROVE Life'
<1>0. /\ Shape /\ Alone /\ Stance /\ Complete /\ Staged /\ InUp /\ tr = None
      /\ loc \in Locals
  BY DEF Life, UpRecord, InUp, Shape, LabelShape, TypeOK
<1>1. /\ loc.gen \in Gens /\ (loc.prior # None => loc.gen # loc.prior.gen)
      /\ state # None => loc.gen # state.gen
  BY <1>0, StagedGen
<1>2. /\ pc = "u.record" /\ UNCHANGED <<files, ctr, img, doomed>>
      /\ tr'.phase = "rollback" /\ tr'.prior = loc.prior
      /\ tr'.succ.gen = loc.gen /\ tr'.succ.decl = loc.decl
      /\ pc' = IF loc.active THEN "u.stopdoor" ELSE "u.capture"
  BY DEF UpRecord
<1>3. /\ loc'.active = loc.active /\ loc'.gen = loc.gen /\ loc'.decl = loc.decl
  BY <1>0 DEF UpRecord, Locals
<1>4. /\ tr' # None
  BY <1>2 DEF Shape, LabelShape
<1>5. state # None => loc.prior # None /\ loc.prior.gen = state.gen
  <2>1. View(loc.prior) = View(state) BY <1>0 DEF Shape, UpShape
  <2> QED BY <1>0, <2>1, RecordGens, SameView
<1>6. \A g \in Gens: Running(g)' <=> Running(g) BY <1>2 DEF Running
<1>7. Alone' BY <1>0, <1>2, <1>4, <1>5, <1>6 DEF Alone, OneGeneration
<1>8. ~Running(loc.gen) BY <1>0, <1>1 DEF Alone
<1>9. SuccessorWaits' /\ Removed'
  BY <1>1, <1>2, <1>6, <1>8 DEF SuccessorWaits, Removed, Still, CutOver
<1>10. PredecessorStopped'
  BY <1>0, <1>2, <1>3 DEF Stance, PredecessorStopped, CutOver, Running
<1>11. Complete' BY <1>0, <1>2 DEF Complete, Whole, Prepared
<1>12. Published' /\ HandoffExact' BY <1>2 DEF Published, HandoffExact
<1>13. Staged' BY <1>0, <1>2, <1>3 DEF Staged, Prepared
<1> QED BY <1>7, <1>9, <1>10, <1>11, <1>12, <1>13 DEF Life, Stance

\* The cutover.
LEMMA CutOverLife == ASSUME Life, Shape', UpStop \/ UpCapture \/ UpStart PROVE Life'
<1>0. /\ Shape /\ Alone /\ Stance /\ Complete /\ Staged /\ InUp /\ TypeOK /\ loc \in Locals
      /\ tr # None /\ tr.phase = "rollback" /\ UNCHANGED <<files, img, doomed>>
  BY DEF Life, UpStop, UpCapture, UpStart, Write, StopCtr, InUp, Shape, LabelShape, TypeOK
<1>1. /\ loc.gen \in Gens /\ tr.succ.gen = loc.gen /\ tr.prior = loc.prior /\ tr \in Transition
      /\ loc.prior # None => loc.prior.gen \in Gens /\ loc.gen # loc.prior.gen
      /\ state # None => loc.gen # state.gen /\ state.gen \in Gens
  BY <1>0, StagedGen, RecordGens, PriorIsState
<1>2. CASE UpStop
  <2>1. /\ pc = "u.stop" /\ pc' = "u.capture" /\ loc' = loc /\ tr' = tr
        /\ StopCtr(loc.prior.gen) /\ loc.prior # None
    BY <1>0, <1>2 DEF UpStop, Shape, UpShape
  <2>2. Fades /\ ~Running(loc.prior.gen)' BY <1>0, <1>1, <2>1, CtrEffect
  <2>3. Alone' /\ Complete' BY <1>0, <2>1, <2>2, AloneKept, CompleteKept DEF Fades
  <2>4. SuccessorWaits' /\ Removed'
    BY <1>0, <1>1, <2>1, <2>2
    DEF Stance, SuccessorWaits, Removed, Still, CutOver, Fades, Ebbs
  <2>5. PredecessorStopped' BY <1>1, <2>1, <2>2 DEF PredecessorStopped, CutOver
  <2>6. Published' /\ HandoffExact' BY <2>1 DEF Published, HandoffExact
  <2>7. Staged' BY <1>0, <1>1, <2>1, <2>2 DEF Staged, Fades
  <2> QED BY <2>3, <2>4, <2>5, <2>6, <2>7 DEF Life, Stance
<1>3. CASE UpCapture
  <2>1. /\ pc = "u.capture" /\ pc' = "u.start" /\ loc' = loc /\ ctr' = ctr /\ ws' = ws
        /\ tr' = [tr EXCEPT !.ws = ws]
    BY <1>3 DEF UpCapture, Write
  <2>2. /\ tr'.phase = tr.phase /\ tr'.prior = tr.prior /\ tr'.succ = tr.succ /\ tr'.ws = ws
        /\ tr' # None
    BY <1>1, <2>1 DEF Transition, Shape, LabelShape
  <2>3. \A g \in Gens: Running(g)' <=> Running(g) BY <2>1 DEF Running
  <2>4. Alone' BY <1>0, <2>2, <2>3 DEF Alone, OneGeneration
  <2>5. SuccessorWaits' /\ Removed'
    BY <1>0, <1>1, <2>1, <2>2 DEF Stance, SuccessorWaits, Removed, Still, CutOver, Running
  <2>6. PredecessorStopped'
    BY <1>0, <1>1, <2>1, <2>2 DEF Stance, PredecessorStopped, CutOver, Running
  <2>7. Complete' BY <1>0, <2>1, <2>2 DEF Complete, Whole, Prepared
  <2>8. Published' /\ HandoffExact' BY <2>1, <2>2 DEF Published, HandoffExact
  <2>9. Staged' BY <1>0, <2>1, <2>2 DEF Staged, Prepared
  <2> QED BY <2>4, <2>5, <2>6, <2>7, <2>8, <2>9 DEF Life, Stance
<1>4. CASE UpStart
  <2>1. /\ pc = "u.start" /\ pc' = "u.verify" /\ tr' = tr /\ StartCtr(loc.gen)
    BY <1>4 DEF UpStart
  <2>2. loc'.started /\ loc'.gen = loc.gen /\ loc'.decl = loc.decl
    BY <1>0, <1>4 DEF UpStart, Locals
  <2>3. Prepared(loc.gen)' /\ \A h \in Gens \ {loc.gen}: ctr'[h] = ctr[h]
    <3>1. PICK g \in Gens: g = loc.gen BY <1>1
    <3>2. Prepared(g)' /\ \A h \in Gens \ {g}: ctr'[h] = ctr[h]
      BY <1>0, <2>1, <3>1, CtrEffect
    <3> QED BY <2>2, <3>1, <3>2 DEF Prepared
  <2>4. \A g \in Gens: ~Running(g)
    BY <1>0, <2>1 DEF Alone, Stance, SuccessorWaits, PredecessorStopped, Still, CutOver
  <2>5. \A g \in Gens: Running(g)' => g = loc.gen BY <2>3, <2>4 DEF Running
  <2>6. Alone' BY <1>0, <1>1, <2>1, <2>5 DEF Alone, OneGeneration
  <2>7. SuccessorWaits' /\ Removed'
    BY <2>1, <2>2 DEF SuccessorWaits, Removed, Still, CutOver
  <2>8. PredecessorStopped' BY <1>1, <2>1, <2>5 DEF PredecessorStopped, CutOver
  <2>9. Complete' BY <1>0, <1>1, <2>1, <2>3 DEF Complete, Whole, Prepared
  <2>10. Published' /\ HandoffExact' BY <2>1 DEF Published, HandoffExact
  <2>11. Staged' BY <1>0, <2>1, <2>2, <2>3 DEF Staged
  <2> QED BY <2>6, <2>7, <2>8, <2>9, <2>10, <2>11 DEF Life, Stance
<1> QED BY <1>2, <1>3, <1>4

\* The commit record: the predecessor no longer runs, and the successor is whole.
LEMMA CommitLife == ASSUME Life, Shape', UpCommit PROVE Life'
<1>0. /\ Shape /\ Alone /\ Stance /\ Staged /\ InUp /\ tr # None /\ tr.phase = "rollback"
      /\ pc = "u.commit" /\ pc' = "p.digest" /\ UNCHANGED <<ctr, img>>
  BY DEF Life, UpCommit, InUp, Shape, LabelShape
<1>1. tr.succ.gen = loc.gen /\ tr \in Transition /\ tr.succ \in State
  BY <1>0, StagedGen, RecordGens
<1>2. /\ tr'.phase = "commit" /\ tr'.succ.gen = tr.succ.gen /\ tr'.succ.decl = tr.succ.decl
      /\ tr' # None
  <2>1. tr'.phase = "commit" /\ tr'.succ = [tr.succ EXCEPT !.status = "running", !.proxy = loc.pid]
    BY <1>1 DEF UpCommit, Transition
  <2>2. tr' # None BY <1>0 DEF Shape, LabelShape
  <2> QED BY <1>1, <2>1, <2>2 DEF State
<1>3. \A g \in Gens: Running(g)' <=> Running(g) BY <1>0 DEF Running
<1>4. Alone'
  BY <1>0, <1>2, <1>3 DEF Alone, OneGeneration, Stance, PredecessorStopped, CutOver
<1>5. Complete' BY <1>0, <1>1, <1>2 DEF Complete, Staged, Prepared
<1>6. Stance' /\ Staged' /\ HandoffExact' /\ Published' BY <1>0, LooseLife DEF Loose
<1> QED BY <1>4, <1>5, <1>6 DEF Life

\* Publication: nothing but the successor is left to run.
LEMMA PublishLife ==
  ASSUME Life, Shape',
         \/ PublishDigest \/ PublishApplied \/ PublishPlan \/ PublishState
         \/ PublishHistory \/ PublishDestroy \/ PublishClear
  PROVE  Life'
<1>0. /\ Shape /\ Alone /\ Complete /\ Published /\ TypeOK
      /\ tr # None /\ tr.phase = "commit" /\ tr.ws # -1
      /\ pc \in PublishLabels /\ UNCHANGED doomed
  BY DEF Life, PublishDigest, PublishApplied, PublishPlan, PublishState, PublishHistory,
    PublishDestroy, PublishClear, Write, Shape, LabelShape, RecordShape
<1>1. /\ tr.succ \in State /\ tr.succ.gen \in Gens
      /\ tr.prior # None => tr.prior.gen \in Gens /\ tr.prior.gen # tr.succ.gen
  BY <1>0, RecordGens DEF Gens
<1>2. CASE PublishDigest \/ PublishApplied \/ PublishPlan \/ PublishState \/ PublishHistory
  <2>1. UNCHANGED <<tr, ctr, img>> /\ pc' \in PublishLabels
    BY <1>2
    DEF PublishDigest, PublishApplied, PublishPlan, PublishState, PublishHistory, Write
  <2>2. Alone'
    <3>1. \A g \in Gens: Running(g)' <=> Running(g) BY <2>1 DEF Running
    <3> QED BY <1>0, <2>1, <3>1 DEF Alone, OneGeneration
  <2>3. Complete' BY <1>0, <2>1 DEF Complete, Prepared
  <2>4. Published'
    BY <1>0, <1>1, <1>2
    DEF PublishDigest, PublishApplied, PublishPlan, PublishState, PublishHistory, Write,
        Published,
      TypeOK
  <2> QED BY <2>1, <2>2, <2>3, <2>4, LooseLife DEF Life
<1>3. CASE PublishDestroy
  <2>1. /\ pc = "p.destroy" /\ pc' = "p.clear" /\ UNCHANGED <<files, tr>>
    BY <1>3 DEF PublishDestroy
  <2>2. Ebbs /\ ctr'[tr.succ.gen] = ctr[tr.succ.gen] /\ img'[tr.succ.gen] = img[tr.succ.gen]
    <3>1. CASE tr.prior = None BY <1>3, <3>1, QuietFades DEF PublishDestroy, Fades
    <3>2. CASE tr.prior # None
      <4>1. DestroyCtr(tr.prior.gen) BY <1>3, <3>2 DEF PublishDestroy
      <4> QED BY <1>0, <1>1, <3>2, <4>1, CtrEffect
    <3> QED BY <3>1, <3>2
  <2>3. Alone' BY <1>0, <2>1, <2>2, AloneKept
  <2>4. Complete' BY <1>0, <2>1, <2>2 DEF Complete, Prepared
  <2>5. Published' BY <1>0, <2>1 DEF Published
  <2> QED BY <2>1, <2>3, <2>4, <2>5, LooseLife DEF Life
<1>4. CASE PublishClear
  <2>1. /\ pc = "p.clear" /\ tr' = None /\ UNCHANGED <<files, ctr, img>> /\ pc' \in Loose
    BY <1>4 DEF PublishClear, Return, Recovered, Loose
  <2>2. state # None /\ state.gen = tr.succ.gen /\ state.decl = tr.succ.decl
    <3>1. View(state) = View(tr.succ) /\ tr.succ # None
      BY <1>0, <1>1, <2>1, AbsentConstant DEF Shape, LabelShape
    <3>2. state \in {None} \cup State BY <1>0 DEF TypeOK
    <3> QED BY <1>1, <3>1, <3>2, SameView
  <2>3. Alone'
    <3>1. \A g \in Gens: Running(g)' <=> Running(g) BY <2>1 DEF Running
    <3> QED BY <1>0, <2>1, <2>2, <3>1 DEF Alone, OneGeneration
  <2>4. Complete' BY <1>0, <2>1, <2>2 DEF Complete, Published, Whole, Prepared
  <2> QED BY <2>1, <2>3, <2>4, LooseLife DEF Life
<1> QED BY <1>2, <1>3, <1>4

\* A record that is taken back leaves the predecessor: its successor does not run.
LEMMA RecordTakenBack ==
  ASSUME Shape, Alone, Complete, tr # None, tr.phase = "rollback", ~Running(tr.succ.gen),
         tr' = None, UNCHANGED <<files, ctr, img, doomed>>
  PROVE  Alone' /\ Complete'
<1>1. \A g \in Gens: Running(g)' <=> Running(g) BY DEF Running
<1>2. \A g \in Gens: Running(g) => state # None /\ g = state.gen BY PriorIsState DEF Alone
<1>3. Alone' BY <1>1, <1>2 DEF Alone, OneGeneration
<1>4. Complete' BY DEF Complete, Whole, Prepared
<1> QED BY <1>3, <1>4

\* The deferred cleanup of a failed up.
LEMMA CleanupLife ==
  ASSUME Life, Shape', CleanupStop \/ CleanupDestroy \/ CleanupClear
  PROVE  Life'
<1>0. /\ Shape /\ Alone /\ Stance /\ Complete /\ InUp /\ TypeOK /\ loc \in Locals
      /\ UNCHANGED <<files, doomed>>
  BY DEF Life, CleanupStop, CleanupDestroy, CleanupClear, InUp, Shape, TypeOK
<1>1. /\ loc.gen \in Gens /\ (tr # None => tr.succ.gen = loc.gen /\ tr.phase = "rollback")
      /\ state # None => loc.gen # state.gen /\ state.gen \in Gens
  <2>1. tr # None => tr.phase = "rollback"
    BY <1>0 DEF Shape, UpShape, CleanupStop, CleanupDestroy, CleanupClear
  <2> QED BY <1>0, <2>1, StagedGen, RecordGens, PriorIsState
<1>2. CASE CleanupStop
  <2>1. /\ pc = "c.stop" /\ pc' \in {"r.start", "c.destroy"} /\ loc' = loc /\ tr' = tr
    BY <1>2 DEF CleanupStop, CleanupNext
  <2>2. Fades /\ img' = img /\ (loc.started => ~Running(loc.gen)')
    <3>1. CASE loc.started BY <1>0, <1>1, <1>2, <3>1, CtrEffect DEF CleanupStop
    <3>2. CASE ~loc.started BY <1>2, <3>2, QuietFades DEF CleanupStop
    <3> QED BY <3>1, <3>2
  <2>3. Alone' /\ Complete' BY <1>0, <2>1, <2>2, AloneKept, CompleteKept DEF Fades
  <2>4. SuccessorWaits' /\ Removed'
    BY <1>0, <1>1, <2>1, <2>2
    DEF Stance, SuccessorWaits, Removed, Still, CutOver, Fades, Ebbs
  <2>5. PredecessorStopped' /\ Published' /\ Staged' /\ HandoffExact'
    BY <2>1 DEF PredecessorStopped, CutOver, Published, Staged, HandoffExact
  <2> QED BY <2>3, <2>4, <2>5 DEF Life, Stance
<1>3. CASE CleanupDestroy
  <2>1. /\ pc = "c.destroy" /\ pc' = "c.clear" /\ loc' = loc /\ tr' = tr
        /\ DestroyCtr(loc.gen)
    BY <1>3 DEF CleanupDestroy
  <2>2. /\ Ebbs /\ ~Running(loc.gen)'
        /\ \A h \in Gens \ {loc.gen}: ctr'[h] = ctr[h] /\ img'[h] = img[h]
    BY <1>0, <1>1, <2>1, CtrEffect
  <2>3. Alone' BY <1>0, <2>1, <2>2, AloneKept
  <2>4. Complete' BY <1>0, <1>1, <2>1, <2>2 DEF Complete, Whole, Prepared
  <2>5. SuccessorWaits' /\ Removed'
    BY <1>1, <2>1, <2>2 DEF SuccessorWaits, Removed, Still, CutOver
  <2>6. PredecessorStopped' /\ Published' /\ Staged' /\ HandoffExact'
    BY <2>1 DEF PredecessorStopped, CutOver, Published, Staged, HandoffExact
  <2> QED BY <2>3, <2>4, <2>5, <2>6 DEF Life, Stance
<1>4. CASE CleanupClear
  <2>1. /\ pc = "c.clear" /\ pc' \in Loose /\ UNCHANGED <<ctr, img>>
        /\ tr' = tr \/ tr' = None
    BY <1>4 DEF CleanupClear, Return, Loose
  <2>2. Alone' /\ Complete'
    <3>1. CASE tr' = tr BY <1>0, <2>1, <3>1, QuietFades, AloneKept, CompleteKept DEF Fades
    <3>2. CASE tr' = None /\ tr # None
      <4>1. ~Running(tr.succ.gen) BY <1>0, <2>1, <3>2 DEF Stance, SuccessorWaits, Still
      <4> QED BY <1>0, <1>1, <2>1, <3>2, <4>1, RecordTakenBack
    <3> QED BY <2>1, <3>1, <3>2
  <2> QED BY <2>1, <2>2, LooseLife DEF Life
<1> QED BY <1>2, <1>3, <1>4

\* restorePredecessor, beside a successor that does not run.
LEMMA RestoreLife ==
  ASSUME Life, Shape', RestoreStart \/ RestoreApplied \/ RestorePlan \/ RestoreState
  PROVE  Life'
<1>0. /\ Shape /\ Alone /\ Stance /\ Complete /\ TypeOK /\ loc \in Locals
      /\ tr # None /\ tr.phase = "rollback" /\ tr.prior # None /\ tr' = tr
      /\ pc \in RestoreLabels /\ UNCHANGED <<digest, img, doomed>>
  BY
  DEF Life, RestoreStart, RestoreApplied, RestorePlan, RestoreState, Write, Shape,
      LabelShape,
    TypeOK
<1>1. /\ tr.prior \in State /\ tr.prior.gen \in Gens /\ tr.succ.gen \in Gens /\ state # None
      /\ tr.prior.gen = state.gen /\ tr.prior.decl = state.decl /\ tr.succ.gen # state.gen
  BY <1>0, RecordGens, PriorIsState
<1>2. ~Running(tr.succ.gen) BY <1>0 DEF Stance, SuccessorWaits, Still
<1>3. CASE RestoreStart
  <2>1. CASE Fail("r.start")
    <3>1. pc = "r.start" /\ UNCHANGED <<files, ctr>>
      BY <1>3, <2>1 DEF RestoreStart, Fail, OnError
    <3> QED BY <1>0, <2>1, <3>1, QuietFades, FailLife
  <2>2. CASE ~Fail("r.start")
    <3>1. /\ pc = "r.start" /\ pc' = "r.verify" /\ loc' = loc /\ UNCHANGED files
          /\ StartCtr(tr.prior.gen)
      BY <1>3, <2>2 DEF RestoreStart
    <3>2. Prepared(tr.prior.gen)' /\ \A h \in Gens \ {tr.prior.gen}: ctr'[h] = ctr[h]
      BY <1>0, <1>1, <3>1, CtrEffect
    <3>3. \A g \in Gens: Running(g)' => g = tr.prior.gen
      BY <1>0, <1>2, <3>2 DEF Running, Alone
    <3>4. Alone' BY <1>0, <3>3 DEF Alone, OneGeneration
    <3>5. Complete' BY <1>0, <1>1, <3>1, <3>2 DEF Complete, Whole
    <3>6. SuccessorWaits' /\ Removed'
      BY <1>0, <1>1, <3>1, <3>3 DEF SuccessorWaits, Removed, Still, CutOver
    <3>7. PredecessorStopped' /\ Published' /\ Staged' /\ HandoffExact'
      BY <3>1 DEF PredecessorStopped, CutOver, Published, Staged, HandoffExact
    <3> QED BY <3>4, <3>5, <3>6, <3>7 DEF Life, Stance
  <2> QED BY <2>1, <2>2
<1>4. CASE RestoreApplied \/ RestorePlan \/ RestoreState
  <2>1. ctr' = ctr /\ loc' = loc /\ pc' \in {"r.plan", "r.state", "b.clear", "c.destroy"}
    BY <1>4 DEF RestoreApplied, RestorePlan, RestoreState, Write
  <2>2. state' # None /\ state'.gen = state.gen /\ state'.decl = state.decl
    <3>1. CASE RestoreApplied \/ RestorePlan
      BY <1>1, <3>1 DEF RestoreApplied, RestorePlan, Write
    <3>2. CASE RestoreState
      <4>1. state' = [tr.prior EXCEPT !.status = "running", !.proxy = loc.pid]
        BY <3>2 DEF RestoreState, Write
      <4>2. View(state') = View(tr.prior)
        BY <1>0 DEF Shape, RecordShape, View
      <4>3. state' \in {None} \cup State BY DEF Shape, TypeOK
      <4> QED BY <1>0, <1>1, <4>2, <4>3, SameView
    <3> QED BY <1>4, <3>1, <3>2
  <2>3. \/ UNCHANGED <<applied, plan>>
        \/ applied' = tr.prior.decl /\ plan' = plan
        \/ plan' = tr.prior.decl /\ applied' = applied
    BY <1>4 DEF RestoreApplied, RestorePlan, RestoreState, Write
  <2>4. \A g \in Gens: Running(g)' <=> Running(g) BY <2>1 DEF Running
  <2>5. Alone' BY <1>0, <2>4 DEF Alone, OneGeneration
  <2>6. Complete'
    <3>1. Complete /\ ~doomed => Whole BY <1>0 DEF Complete
    <3>2. ~doomed => Whole' BY <1>0, <1>1, <2>1, <2>2, <2>3, <3>1 DEF Whole, Prepared
    <3> QED BY <1>0, <3>2 DEF Complete
  <2>7. SuccessorWaits' /\ Removed'
    BY <1>0, <1>1, <1>2, <2>1, <2>4 DEF SuccessorWaits, Removed, Still, CutOver
  <2>8. PredecessorStopped' /\ Published' /\ Staged' /\ HandoffExact'
    BY <2>1 DEF PredecessorStopped, CutOver, Published, Staged, HandoffExact
  <2> QED BY <2>5, <2>6, <2>7, <2>8 DEF Life, Stance
<1> QED BY <1>3, <1>4

-----------------------------------------------------------------------------
(* Adoption, recovery, down and destroy *)

\* Adoption works on the generation of state.json.
LEMMA AdoptLife ==
  ASSUME Life, Shape', AdoptStart \/ AdoptVerify \/ AdoptPlan \/ AdoptState \/ AdoptUnstart
  PROVE  Life'
<1>0. /\ Shape /\ Alone /\ Stance /\ Complete /\ Staged /\ TypeOK /\ loc \in Locals
      /\ tr = None /\ tr' = None /\ pc \in AdoptLabels /\ UNCHANGED <<digest, img, doomed>>
  BY
  DEF Life, AdoptStart, AdoptVerify, AdoptPlan, AdoptState, AdoptUnstart, StopCtr, Write,
      Shape,
    LabelShape, TypeOK
<1>1. /\ loc.prior \in State /\ loc.prior.gen \in Gens /\ state # None
      /\ loc.prior.gen = state.gen /\ loc.prior.decl = state.decl
  <2>1. loc.prior # None /\ View(loc.prior) = View(state) BY <1>0 DEF Shape, LocalShape
  <2>2. loc.prior \in State /\ loc.prior.gen \in Gens /\ state \in {None} \cup State
    BY <1>0, <2>1, RecordGens DEF TypeOK
  <2> QED BY <2>1, <2>2, SameView
<1>2. ~doomed => Whole BY <1>0 DEF Complete
<1>3. CASE AdoptStart
  <2>1. /\ pc = "a.start" /\ pc' = "a.verify" /\ UNCHANGED files /\ StartCtr(loc.prior.gen)
    BY <1>3 DEF AdoptStart
  <2>2. loc'.restarted /\ loc'.prior = loc.prior BY <1>0, <1>3 DEF AdoptStart, Locals
  <2>3. /\ ctr'[state.gen] \notin {"absent", "created"}
        /\ \A h \in Gens \ {state.gen}: ctr'[h] = ctr[h]
    <3>1. PICK g \in Gens: g = loc.prior.gen BY <1>1
    <3>2. Prepared(g)' /\ \A h \in Gens \ {g}: ctr'[h] = ctr[h]
      BY <1>0, <2>1, <3>1, CtrEffect
    <3> QED BY <1>1, <3>1, <3>2 DEF Prepared
  <2>4. \A g \in Gens: Running(g)' => g = state.gen BY <1>0, <2>3 DEF Running, Alone
  <2>5. Alone' BY <1>0, <1>1, <2>1, <2>4 DEF Alone, OneGeneration
  <2>6. Complete' BY <1>0, <1>1, <1>2, <2>1, <2>3 DEF Complete, Whole, Prepared
  <2>7. SuccessorWaits' /\ Removed' BY <2>1 DEF SuccessorWaits, Removed, Still, CutOver
  <2>8. PredecessorStopped' BY <2>1, <2>2 DEF PredecessorStopped, CutOver
  <2>9. Published' /\ Staged' /\ HandoffExact' BY <2>1 DEF Published, Staged, HandoffExact
  <2> QED BY <2>5, <2>6, <2>7, <2>8, <2>9 DEF Life, Stance
<1>4. CASE AdoptVerify
  <2>0. pc = "a.verify" /\ UNCHANGED <<files, ctr>> BY <1>4 DEF AdoptVerify
  <2>1. CASE Fail("a.verify") BY <1>0, <2>0, <2>1, QuietFades, FailLife
  <2>2. CASE ~Fail("a.verify")
    <3>1. pc' = "a.door" /\ loc' = loc /\ img[loc.prior.gen] = loc.decl
      BY <1>4, <2>2 DEF AdoptVerify, Verified
    <3>2. Alone' /\ Complete' BY <1>0, <2>0, QuietFades, AloneKept, CompleteKept DEF Fades
    <3>3. SuccessorWaits' /\ Removed' BY <3>1 DEF SuccessorWaits, Removed, Still, CutOver
    <3>4. PredecessorStopped'
      BY <1>0, <2>0, <3>1 DEF Stance, PredecessorStopped, CutOver
    <3>5. Published' /\ HandoffExact' BY <3>1 DEF Published, HandoffExact
    <3>6. Staged' BY <1>0, <1>1, <1>2, <2>0, <3>1 DEF Staged, Whole
    <3> QED BY <3>2, <3>3, <3>4, <3>5, <3>6 DEF Life, Stance
  <2> QED BY <2>1, <2>2
<1>5. CASE AdoptPlan \/ AdoptState
  <2>1. /\ pc \in {"a.plan", "a.state"} /\ pc' \in {"a.state", "a.history"}
        /\ ctr' = ctr /\ loc' = loc /\ applied' = applied
        /\ plan' = plan \/ plan' = loc.decl
    BY <1>5 DEF AdoptPlan, AdoptState, Write
  <2>2. state' # None /\ state'.gen = state.gen /\ state'.decl = state.decl
    <3>1. CASE AdoptPlan BY <1>1, <3>1 DEF AdoptPlan, Write
    <3>2. CASE AdoptState
      <4>1. loc'.prior # None /\ View(loc'.prior) = View(state') /\ state' \in {None} \cup State
        BY <2>1 DEF Shape, LocalShape, TypeOK
      <4> QED BY <1>1, <2>1, <4>1, SameView
    <3> QED BY <1>5, <3>1, <3>2
  <2>3. ~doomed => loc.decl = state.decl BY <1>0, <2>1 DEF Staged
  <2>4. \A g \in Gens: Running(g)' <=> Running(g) BY <2>1 DEF Running
  <2>5. Alone' BY <1>0, <2>2, <2>4 DEF Alone, OneGeneration
  <2>6. Complete'
    <3>1. ~doomed => Whole' BY <1>0, <1>1, <1>2, <2>1, <2>2, <2>3 DEF Whole, Prepared
    <3> QED BY <1>0, <3>1 DEF Complete
  <2>7. SuccessorWaits' /\ Removed' BY <2>1 DEF SuccessorWaits, Removed, Still, CutOver
  <2>8. PredecessorStopped' BY <1>0, <2>1 DEF Stance, PredecessorStopped, CutOver
  <2>9. Published' /\ HandoffExact' BY <2>1 DEF Published, HandoffExact
  <2>10. Staged' BY <1>0, <2>1, <2>2, <2>3 DEF Staged
  <2> QED BY <2>5, <2>6, <2>7, <2>8, <2>9, <2>10 DEF Life, Stance
<1>6. CASE AdoptUnstart
  <2>1. pc = "a.unstart" /\ UNCHANGED files BY <1>6 DEF AdoptUnstart
  <2>2. Fades /\ (loc.restarted => ctr'[loc.prior.gen] \notin {"running", "serving"})
    <3>1. CASE loc.restarted
      <4>1. PICK g \in Gens: g = loc.prior.gen BY <1>1
      <4>2. Fades /\ ~Running(g)' BY <1>0, <1>6, <3>1, <4>1, CtrEffect DEF AdoptUnstart
      <4> QED BY <4>1, <4>2 DEF Running
    <3>2. CASE ~loc.restarted BY <1>6, <3>2, QuietFades DEF AdoptUnstart
    <3> QED BY <3>1, <3>2
  <2>3. Alone' /\ Complete' BY <1>0, <2>1, <2>2, AloneKept, CompleteKept DEF Fades
  <2>4. CASE pc' = "idle" BY <2>3, <2>4, LooseLife DEF Loose, Life
  <2>5. CASE pc' # "idle"
    <3>1. pc' = "u.load" /\ loc' = loc BY <1>6, <2>5 DEF AdoptUnstart, Return
    <3>2. SuccessorWaits' /\ Removed' BY <3>1 DEF SuccessorWaits, Removed, Still, CutOver
    <3>3. PredecessorStopped'
      BY <1>0, <2>1, <2>2, <3>1 DEF Stance, PredecessorStopped, CutOver, Running
    <3>4. Published' /\ Staged' /\ HandoffExact' BY <3>1 DEF Published, Staged, HandoffExact
    <3> QED BY <2>3, <3>2, <3>3, <3>4 DEF Life, Stance
  <2> QED BY <2>4, <2>5
<1> QED BY <1>3, <1>4, <1>5, <1>6

\* Recovery of a committed transition restarts its successor.
LEMMA CommitRecoveryLife == ASSUME Life, Shape', CommitStart \/ CommitRecord PROVE Life'
<1>0. /\ Shape /\ Alone /\ Complete /\ TypeOK /\ tr # None /\ tr.phase = "commit"
      /\ pc' \in Loose /\ UNCHANGED <<files, img, doomed>>
  BY DEF Life, CommitStart, CommitRecord, Write, Shape, LabelShape, Loose
<1>1. tr \in Transition /\ tr.succ \in State /\ tr.succ.gen \in Gens BY <1>0, RecordGens
<1>2. CASE CommitStart
  <2>1. tr' = tr /\ StartCtr(tr.succ.gen) BY <1>2 DEF CommitStart
  <2>2. Prepared(tr.succ.gen)' /\ \A h \in Gens \ {tr.succ.gen}: ctr'[h] = ctr[h]
    BY <1>0, <1>1, <2>1, CtrEffect
  <2>3. \A g \in Gens: Running(g)' => g = tr.succ.gen BY <1>0, <2>2 DEF Running, Alone
  <2>4. Alone' BY <1>0, <2>1, <2>3 DEF Alone, OneGeneration
  <2>5. Complete' BY <1>0, <2>1, <2>2 DEF Complete
  <2> QED BY <1>0, <2>4, <2>5, LooseLife DEF Life
<1>3. CASE CommitRecord
  <2>1. ctr' = ctr /\ tr' = [tr EXCEPT !.succ = [tr.succ EXCEPT !.proxy = loc.pid]]
    BY <1>3 DEF CommitRecord, Write
  <2>2. /\ tr'.phase = "commit" /\ tr'.succ.gen = tr.succ.gen /\ tr'.succ.decl = tr.succ.decl
        /\ tr' # None
    <3>1. tr'.phase = tr.phase /\ tr'.succ = [tr.succ EXCEPT !.proxy = loc.pid]
      BY <1>1, <2>1 DEF Transition
    <3>2. tr' # None BY <1>3 DEF CommitRecord, Write, Shape, LabelShape
    <3> QED BY <1>0, <1>1, <3>1, <3>2 DEF State
  <2>3. \A g \in Gens: Running(g)' <=> Running(g) BY <2>1 DEF Running
  <2>4. Alone' BY <1>0, <2>2, <2>3 DEF Alone, OneGeneration
  <2>5. Complete' BY <1>0, <2>1, <2>2 DEF Complete, Prepared
  <2> QED BY <1>0, <2>4, <2>5, LooseLife DEF Life
<1> QED BY <1>2, <1>3

\* Rollback removes the successor and rewrites what the files said.
LEMMA RollbackLife ==
  ASSUME Life, Shape',
         RollbackDestroy \/ RollbackState \/ RollbackApplied \/ RollbackPlan \/ RollbackClear
  PROVE  Life'
<1>0. /\ Shape /\ Alone /\ Stance /\ Complete /\ TypeOK /\ tr # None /\ tr.phase = "rollback"
      /\ pc \in {"b.destroy", "b.state", "b.applied", "b.plan", "b.clear"}
      /\ UNCHANGED <<digest, doomed>>
  BY
  DEF Life, RollbackDestroy, RollbackState, RollbackApplied, RollbackPlan, RollbackClear,
      Write,
    Shape, LabelShape
<1>1. /\ tr.succ.gen \in Gens /\ (state = None <=> tr.prior = None)
      /\ state # None => /\ tr.prior.gen = state.gen /\ tr.prior.decl = state.decl
                         /\ tr.succ.gen # state.gen /\ state.gen \in Gens
  BY <1>0, RecordGens, PriorIsState
<1>2. ~doomed => Whole BY <1>0 DEF Complete
<1>3. CASE RollbackDestroy
  <2>1. /\ pc' \in {"b.state", "r.start", "b.applied"} /\ UNCHANGED <<files, tr>>
        /\ DestroyCtr(tr.succ.gen)
    BY <1>3 DEF RollbackDestroy
  <2>2. /\ Ebbs /\ ~Running(tr.succ.gen)'
        /\ \A h \in Gens \ {tr.succ.gen}: ctr'[h] = ctr[h] /\ img'[h] = img[h]
    BY <1>0, <1>1, <2>1, CtrEffect
  <2>3. Alone' BY <1>0, <2>1, <2>2, AloneKept
  <2>4. Complete' BY <1>0, <1>1, <1>2, <2>1, <2>2 DEF Complete, Whole, Prepared
  <2>5. SuccessorWaits' /\ Removed'
    BY <2>1, <2>2 DEF SuccessorWaits, Removed, Still, CutOver
  <2>6. PredecessorStopped' /\ Published' /\ Staged' /\ HandoffExact'
    BY <2>1 DEF PredecessorStopped, CutOver, Published, Staged, HandoffExact
  <2> QED BY <2>3, <2>4, <2>5, <2>6 DEF Life, Stance
<1>4. CASE RollbackState \/ RollbackApplied \/ RollbackPlan
  <2>1. /\ pc \in Still /\ pc' \in {"b.state", "b.applied", "b.plan", "b.clear"}
        /\ UNCHANGED <<tr, ctr, img>> /\ loc' = loc
    BY <1>4 DEF RollbackState, RollbackApplied, RollbackPlan, Write, Still
  <2>2. ~doomed => Whole'
    <3>1. CASE RollbackState
      <4>1. state' = tr.prior /\ UNCHANGED <<applied, plan>>
        BY <3>1 DEF RollbackState, Write
      <4> QED BY <1>0, <1>1, <1>2, <2>1, <4>1 DEF Whole, Prepared
    <3>2. CASE RollbackApplied
      <4>1. applied' = PriorDecl /\ UNCHANGED <<state, plan>>
        BY <3>2 DEF RollbackApplied, Write
      <4> QED BY <1>0, <1>1, <1>2, <2>1, <4>1 DEF Whole, Prepared, PriorDecl
    <3>3. CASE RollbackPlan
      <4>1. plan' = PriorDecl /\ UNCHANGED <<state, applied>>
        BY <3>3 DEF RollbackPlan, Write
      <4> QED BY <1>0, <1>1, <1>2, <2>1, <4>1 DEF Whole, Prepared, PriorDecl
    <3> QED BY <1>4, <3>1, <3>2, <3>3
  <2>3. \A g \in Gens: Running(g)' <=> Running(g) BY <2>1 DEF Running
  <2>4. Alone' BY <1>0, <2>1, <2>3 DEF Alone, OneGeneration
  <2>5. Complete' BY <1>0, <2>1, <2>2 DEF Complete
  <2>6. SuccessorWaits' /\ Removed'
    BY <1>0, <1>1, <2>1, <2>3 DEF Stance, SuccessorWaits, Removed, Still, CutOver
  <2>7. PredecessorStopped' /\ Published' /\ Staged' /\ HandoffExact'
    BY <2>1 DEF PredecessorStopped, CutOver, Published, Staged, HandoffExact
  <2> QED BY <2>4, <2>5, <2>6, <2>7 DEF Life, Stance
<1>5. CASE RollbackClear
  <2>1. pc = "b.clear" /\ pc' \in Loose /\ tr' = None /\ UNCHANGED <<files, ctr, img>>
    BY <1>5 DEF RollbackClear, Recovered, Loose
  <2>2. ~Running(tr.succ.gen) BY <1>0, <2>1 DEF Stance, SuccessorWaits, Still
  <2> QED BY <1>0, <2>1, <2>2, RecordTakenBack, LooseLife DEF Life
<1> QED BY <1>3, <1>4, <1>5

\* down.
LEMMA DownLife == ASSUME Life, Shape', DownStop \/ DownState PROVE Life'
<1>0. /\ Shape /\ Alone /\ Complete /\ TypeOK /\ tr = None /\ tr' = None /\ pc' \in Loose
      /\ UNCHANGED <<img, doomed>>
  BY DEF Life, DownStop, DownState, StopCtr, Write, Shape, LabelShape, Loose, Return
<1>1. CASE DownStop
  <2>1. UNCHANGED files BY <1>1 DEF DownStop
  <2>2. Fades
    <3>1. CASE ctr' = ctr BY <3>1, QuietFades
    <3>2. CASE state # None /\ StopCtr(state.gen) BY <1>0, <3>2, RecordGens, CtrEffect
    <3> QED BY <1>1, <3>1, <3>2 DEF DownStop
  <2>3. Alone' /\ Complete' BY <1>0, <2>1, <2>2, AloneKept, CompleteKept DEF Fades
  <2> QED BY <1>0, <2>3, LooseLife DEF Life
<1>2. CASE DownState
  <2>1. /\ state # None /\ UNCHANGED <<applied, plan, digest, ctr>>
        /\ state' = [state EXCEPT !.status = "down", !.proxy = 0]
    BY <1>2 DEF DownState, Write, Life, Shape, LabelShape
  <2>2. state' # None /\ state'.gen = state.gen /\ state'.decl = state.decl
    <3>1. state' # None BY <1>2 DEF DownState, Write, Shape, LabelShape
    <3> QED BY <1>0, <2>1, <3>1, RecordGens DEF State
  <2>3. \A g \in Gens: Running(g)' <=> Running(g) BY <2>1 DEF Running
  <2>4. Alone' BY <1>0, <2>1, <2>2, <2>3 DEF Alone, OneGeneration
  <2>5. Complete' BY <1>0, <2>1, <2>2 DEF Complete, Whole, Prepared
  <2> QED BY <1>0, <2>4, <2>5, LooseLife DEF Life
<1> QED BY <1>1, <1>2

\* destroy, generation by generation and then the root.
LEMMA DestroyLife == ASSUME Life, Shape', DestroyFirst \/ DestroySecond \/ DestroyRename PROVE Life'
<1>0. Shape /\ Alone /\ Stance /\ Complete /\ TypeOK BY DEF Life, Shape
<1>1. /\ Authoritative # None => Authoritative.gen \in Gens
      /\ Candidate # None => Candidate.gen \in Gens
  BY <1>0, RecordGens DEF Authoritative, Candidate
<1>2. \A g \in Gens: Running(g) =>
        \/ Authoritative # None /\ g = Authoritative.gen
        \/ Candidate # None /\ g = Candidate.gen
  <2>1. tr # None => tr.phase \in {"rollback", "commit"} /\ tr.succ # None
    <3>1. tr # None => tr \in Transition /\ tr.succ \in State BY <1>0, RecordGens
    <3> QED BY <3>1, AbsentConstant DEF Transition
  <2> QED BY <1>0, <2>1 DEF Alone, Authoritative, Candidate
<1>3. CASE DestroyFirst
  <2>1. CASE tr = None /\ state = None
    <3>1. pc' \in Loose /\ UNCHANGED <<files, tr, ctr, img, doomed>>
      BY <1>3, <2>1 DEF DestroyFirst, Return, Loose
    <3>2. Alone' /\ Complete' BY <1>0, <3>1, QuietFades, AloneKept, CompleteKept DEF Fades
    <3> QED BY <3>1, <3>2, LooseLife DEF Life
  <2>2. CASE ~(tr = None /\ state = None)
    <3>1. pc' = "x.second" /\ doomed' = TRUE /\ UNCHANGED <<files, tr>>
      BY <1>3, <2>2 DEF DestroyFirst
    <3>2. Authoritative' = Authoritative BY <3>1 DEF Authoritative
    <3>3. Ebbs /\ (Authoritative # None => ~Running(Authoritative.gen)')
      <4>1. CASE Authoritative = None
        BY <1>3, <2>2, <4>1, QuietFades DEF DestroyFirst, Fades
      <4>2. CASE Authoritative # None
        <5>1. PICK g \in Gens: g = Authoritative.gen BY <1>1, <4>2
        <5>2. DestroyCtr(g) BY <1>3, <2>2, <4>2, <5>1 DEF DestroyFirst
        <5>3. Ebbs /\ ~Running(g)' BY <1>0, <5>2, CtrEffect
        <5> QED BY <3>2, <5>1, <5>3
      <4> QED BY <4>1, <4>2
    <3>4. Alone' BY <1>0, <3>1, <3>3, AloneKept
    <3>5. SuccessorWaits' /\ PredecessorStopped' /\ Published' /\ Staged' /\ HandoffExact'
      BY <3>1
      DEF SuccessorWaits, PredecessorStopped, Still, CutOver, Published, Staged,
          HandoffExact
    <3>6. Removed' BY <3>1, <3>2, <3>3 DEF Removed
    <3>7. Complete' BY <3>1 DEF Complete
    <3> QED BY <3>4, <3>5, <3>6, <3>7 DEF Life, Stance
  <2> QED BY <2>1, <2>2
<1>4. CASE DestroySecond
  <2>1. pc = "x.second" /\ pc' = "x.door" /\ UNCHANGED <<files, tr, doomed>> /\ doomed
    BY <1>0, <1>4 DEF DestroySecond, Stance, Removed
  <2>2. Candidate' = Candidate BY <2>1 DEF Candidate
  <2>3. Ebbs /\ (Candidate # None => ~Running(Candidate.gen)')
    <3>1. CASE Candidate = None BY <1>4, <3>1, QuietFades DEF DestroySecond, Fades
    <3>2. CASE Candidate # None
      <4>1. PICK g \in Gens: g = Candidate.gen BY <1>1, <3>2
      <4>2. DestroyCtr(g) BY <1>4, <3>2, <4>1 DEF DestroySecond
      <4>3. Ebbs /\ ~Running(g)' BY <1>0, <4>2, CtrEffect
      <4> QED BY <2>2, <4>1, <4>3
    <3> QED BY <3>1, <3>2
  <2>4. Alone' BY <1>0, <2>1, <2>3, AloneKept
  <2>5. SuccessorWaits' /\ PredecessorStopped' /\ Published' /\ Staged' /\ HandoffExact'
    BY <2>1
    DEF SuccessorWaits, PredecessorStopped, Still, CutOver, Published, Staged, HandoffExact
  <2>6. \A g \in Gens: ~Running(g)'
    BY <1>0, <1>2, <2>1, <2>2, <2>3 DEF Ebbs, Stance, Removed
  <2>7. Removed' BY <2>1, <2>6 DEF Removed
  <2>8. Complete' BY <2>1 DEF Complete
  <2> QED BY <2>4, <2>5, <2>7, <2>8 DEF Life, Stance
<1>5. CASE DestroyRename
  <2>1. /\ pc = "x.rename" /\ pc' \in Loose /\ ctr' = ctr
        /\ state' = None /\ applied' = None /\ plan' = None /\ tr' = None
    BY <1>5 DEF DestroyRename, Return, Loose
  <2>2. \A g \in Gens: ~Running(g)' BY <1>0, <2>1 DEF Stance, Removed, Running
  <2>3. Alone' BY <2>1, <2>2 DEF Alone, OneGeneration
  <2>4. Complete' BY <2>1 DEF Complete, Whole
  <2> QED BY <2>1, <2>3, <2>4, LooseLife DEF Life
<1> QED BY <1>3, <1>4, <1>5

-----------------------------------------------------------------------------
(* The invariant and what follows from it *)

\* A world that does not exist yet.
LEMMA InitLife == Init => Life
<1> SUFFICES ASSUME Init PROVE Life OBVIOUS
<1>1. \A g \in Gens: ~Running(g) BY DEF Init, Running
<1>2. Alone BY <1>1 DEF Init, Alone, OneGeneration
<1>3. Stance
  BY DEF Init, Stance, SuccessorWaits, PredecessorStopped, Removed, Still, CutOver
<1>4. Complete /\ Published /\ Staged /\ HandoffExact
  BY DEF Init, Complete, Whole, Published, Staged, HandoffExact
<1> QED BY <1>2, <1>3, <1>4, InitShape DEF Life

\* Every step of every command, and every failure that is handled, keeps it.
LEMMA StepLife == ASSUME Handled, Life, [Next]_vars PROVE Life'
<1>0. Shape /\ Shape' BY StepKeepsShape DEF Life, Handled
<1>1. CASE UNCHANGED vars
  <2>1. Stays(pc, pc') BY <1>1 DEF Stays, vars
  <2>2. SameLocals BY <1>1 DEF SameLocals, vars
  <2> QED BY <1>0, <1>1, <2>1, <2>2, QuietFades, StaysLife DEF vars
<1>2. CASE UpStep
  <2>1. CASE \/ SpawnDoor("u.door", "u.ready", loc.gen)
             \/ ReadyDoor("u.ready", "u.services")
             \/ StartServices("u.services", "u.reverify", loc.gen)
    <3>1. /\ Stays("u.door", "u.ready") /\ Stays("u.ready", "u.services")
          /\ Stays("u.services", "u.reverify")
      BY DEF Stays, CutOver
    <3> QED BY <1>0, <2>1, <3>1, DoorLife
  <2> QED BY <1>0, <1>2, <2>1, StageLife, RecordLife, CutOverLife, CommitLife, PublishLife,
        CleanupLife, QuietLife DEF UpStep
<1>3. CASE AdoptStep
  <2>1. CASE \/ AdoptSpawnDoor \/ ReadyDoor("a.ready", AfterAdoptDoor)
             \/ StartServices("a.services", "a.plan", loc.prior.gen)
    <3>1. /\ Stays("a.door", "a.ready") /\ Stays("a.services", "a.plan")
          /\ Stays("a.ready", AfterAdoptDoor) /\ AfterAdoptDoor \in {"a.services", "a.plan"}
      BY DEF Stays, AfterAdoptDoor
    <3> QED BY <1>0, <2>1, <3>1, DoorLife DEF AdoptSpawnDoor
  <2> QED BY <1>0, <1>3, <2>1, AdoptLife, QuietLife DEF AdoptStep
<1>4. CASE RecoverStep
  <2>1. CASE \/ SpawnDoor("m.door", "m.ready", tr.succ.gen)
             \/ ReadyDoor("m.ready", "m.record")
             \/ StartServices("m.services", "p.digest", tr.succ.gen)
    <3>1. /\ Stays("m.door", "m.ready") /\ Stays("m.ready", "m.record")
          /\ Stays("m.services", "p.digest")
      BY DEF Stays, Loose
    <3> QED BY <1>0, <2>1, <3>1, DoorLife
  <2>2. CASE \/ SpawnDoor("r.door", "r.ready", tr.prior.gen)
             \/ ReadyDoor("r.ready", "r.services")
             \/ StartServices("r.services", "r.applied", tr.prior.gen)
    <3>1. /\ Stays("r.door", "r.ready") /\ Stays("r.ready", "r.services")
          /\ Stays("r.services", "r.applied")
      BY DEF Stays, Still
    <3> QED BY <1>0, <2>2, <3>1, DoorLife
  <2> QED BY <1>0, <1>4, <2>1, <2>2, QuietLife, CommitRecoveryLife, RollbackLife,
             RestoreLife
      DEF RecoverStep
<1>5. CASE DownStep \/ DestroyStep
  BY <1>0, <1>5, QuietLife, DownLife, DestroyLife DEF DownStep, DestroyStep
<1>6. CASE Command \/ Failure \/ WorldWrites
  BY <1>0, <1>6, FailureLife
<1> QED BY <1>1, <1>2, <1>3, <1>4, <1>5, <1>6 DEF Next, Step

\* Life is an invariant of the lifecycle.
THEOREM LifeInvariant == ASSUME Handled PROVE Spec => []Life
<1>1. Life /\ [Next]_vars => Life' BY StepLife
<1> QED BY <1>1, InitLife, PTL DEF Spec

\* Two generations never run over one workspace, and what runs is on record:
\* after crashes at any step, reboots, exits and every failure that is handled.
THEOREM GenerationsAreRecorded == ASSUME Handled PROVE Spec => []RunsAsRecorded
<1>1. Life => RunsAsRecorded
  <2> SUFFICES ASSUME Life PROVE RunsAsRecorded OBVIOUS
  <2>1. tr # None => tr.phase \in {"rollback", "commit"} BY RecordGens DEF Life, Transition
  <2> QED BY <2>1 DEF Life, Alone, RunsAsRecorded, NoUnrecordedGeneration
<1> QED BY <1>1, LifeInvariant, PTL

\* A record that tells rollback to restart a predecessor names one.
Restartable == tr # None /\ tr.wasRunning => tr.prior # None

\* Only up writes the two fields, both from what it read; the steps to commit keep
\* them.
LEMMA StepRestartable ==
  ASSUME Shape, Restartable, [Next]_vars
  PROVE  Restartable'
<1>1. CASE UpRecord
  BY <1>1 DEF UpRecord, Restartable, Shape, UpShape, InUp
<1>2. CASE UpCapture \/ UpCommit \/ CommitRecord
  <2>1. tr # None
    BY <1>2 DEF Shape, LabelShape, UpCapture, UpCommit, CommitRecord, Write
  <2>2. tr \in Transition
    BY <2>1 DEF Shape, TypeOK
  <2>3. tr'.wasRunning = tr.wasRunning /\ tr'.prior = tr.prior
    BY <1>2, <2>2 DEF UpCapture, UpCommit, CommitRecord, Write, Transition
  <2> QED BY <2>1, <2>3 DEF Restartable
<1>3. CASE tr' = tr \/ tr' = None
  BY <1>3 DEF Restartable
<1>4. CASE UpStep
  BY <1>1, <1>2, <1>3, <1>4
  DEF UpStep, UpRead, UpLoad, UpCreate, UpMaterialize, UpStopDoor, EndDoor, UpStop,
      UpStart, UpVerify, SpawnDoor, ReadyDoor, StartServices, UpReverify,
      PublishDigest, PublishApplied, PublishPlan, PublishState, PublishHistory,
      PublishDestroy, PublishClear, CleanupDoor, CleanupStop, CleanupDestroy,
      CleanupClear, Write
<1>5. CASE AdoptStep
  BY <1>3, <1>5
  DEF AdoptStep, AdoptStart, AdoptVerify, AdoptKeepDoor, AdoptSpawnDoor, AdoptNoDoor,
      SpawnDoor, ReadyDoor, StartServices, AdoptPlan, AdoptState, AdoptHistory, AdoptUndo,
      AdoptUnstart, Write
<1>6. CASE RecoverStep
  BY <1>2, <1>3, <1>6
  DEF RecoverStep, Recover, CommitStart, CommitVerify, SpawnDoor, ReadyDoor,
      StartServices, RollbackDoor, EndDoor, RollbackDestroy, RollbackApplied,
      RollbackPlan, RollbackState, RollbackClear, RestoreStart, RestoreVerify,
      RestoreApplied, RestorePlan, RestoreState, Write
<1>7. CASE DownStep \/ DestroyStep
  BY <1>3, <1>7
  DEF DownStep, DownStop, DownDoor, EndDoor, DownState, DownHistory, DestroyStep,
      DestroyFirst, DestroySecond, DestroyDoor, DestroyHistory, DestroyRename, Write
<1>8. CASE Command \/ Failure \/ WorldWrites
  BY <1>3, <1>8
  DEF Command, Begin, Failure, Crash, Reboot, HostFailure, LostReply, ContainerExit,
      DoorExit, WorldWrites
<1>9. CASE UNCHANGED vars
  BY <1>3, <1>9 DEF vars
<1> QED BY <1>4, <1>5, <1>6, <1>7, <1>8, <1>9 DEF Next, Step

\* Recovery finds what the record names: a successor that is built, or the
\* predecessor that it must restart.
THEOREM TransitionsRecover == ASSUME Handled PROVE Spec => []Recoverable
<1>1. Life /\ Restartable => Recoverable
  <2> SUFFICES ASSUME Life, Restartable, tr # None, ~doomed PROVE Recoverable
    BY DEF Recoverable
  <2>1. tr.phase = "commit" => Prepared(tr.succ.gen) BY DEF Life, Complete
  <2>2. ASSUME tr.phase = "rollback", tr.wasRunning PROVE Prepared(tr.prior.gen)
    <3>1. Whole BY <2>2 DEF Life, Complete
    <3>2. tr.prior # None BY <2>2 DEF Restartable
    <3>3. state # None /\ tr.prior.gen = state.gen BY <2>2, <3>2, PriorIsState DEF Life
    <3> QED BY <3>1, <3>3 DEF Whole
  <2> QED BY <2>1, <2>2 DEF Recoverable, Prepared
<1>2. Init => Restartable BY DEF Init, Restartable
<1>3. Life /\ Restartable /\ [Next]_vars => Restartable' BY StepRestartable DEF Life
<1> QED BY <1>1, <1>2, <1>3, LifeInvariant, PTL DEF Spec

\* Between commands the records of a world without a transition agree with one
\* another and with its container.
THEOREM FilesAgree == ASSUME Handled PROVE Spec => []Settled
<1>1. Life => Settled BY DEF Life, Complete, Whole, Settled, Prepared
<1> QED BY <1>1, LifeInvariant, PTL

\* The successor starts from the workspace that was captured.
THEOREM HandoffIsExact == ASSUME Handled PROVE Spec => []HandoffExact
BY LifeInvariant, PTL DEF Life
=============================================================================
