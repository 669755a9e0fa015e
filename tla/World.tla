------------------------------- MODULE World -------------------------------
(***************************************************************************)
(* The lifecycle of one world: up (with adoption and crash recovery),      *)
(* down and destroy of internal/app/app.go over the durable files of       *)
(* internal/worldfs, the podman containers of internal/backend and the     *)
(* network-door process that startProxy and stopProxy manage.              *)
(*                                                                         *)
(* mutation.lock admits one command at a time, so the model has one        *)
(* program counter.  Every durable write, container call and door call is  *)
(* a step of its own: a crash may fall between any two of them, a host     *)
(* call may fail, containers and doors may die by themselves.              *)
(***************************************************************************)
EXTENDS Integers, FiniteSets

CONSTANTS
  Decls,        \* declarations an operator may apply
  Plan,         \* [Decls -> plan digests]; two declarations may share a plan
  NetDecls,     \* declarations whose plan allows some destination
  MaxGen,       \* bound on generation numbers
  MaxPid,       \* bound on live door processes
  MaxWs,        \* bound on workspace versions
  MaxCrashes,   \* bound on command crashes and reboots
  MaxFaults,    \* bound on failing host calls
  MaxExits,     \* bound on containers and doors that die by themselves
  CrashAt,      \* labels at which a command may crash
  FaultAt,      \* labels whose host call may fail without effect
  LostAt,       \* labels whose container call may take effect and then fail
  None          \* an absent file or record

ASSUME WorldConstants ==
  /\ Plan \in [Decls -> Decls]
  /\ NetDecls \subseteq Decls
  /\ \A d, e \in Decls: Plan[d] = Plan[e] => (d \in NetDecls <=> e \in NetDecls)
  /\ MaxGen \in Nat \ {0} /\ MaxPid \in Nat \ {0} /\ MaxWs \in Nat
  /\ MaxCrashes \in Nat /\ MaxFaults \in Nat /\ MaxExits \in Nat
  /\ None \notin Decls

VARIABLES
  state,      \* state.json: None or a State
  applied,    \* applied.toml: None or a declaration
  plan,       \* applied-plan.json: None or the declaration whose plan it holds
  tr,         \* transition.json: None or a Transition
  digest,     \* digests/gN.json: workspace version per generation, -1 if absent
  last,       \* the final record of history.jsonl
  logged,     \* history: "applied" records written for each generation
  ws,         \* current version of the carried workspace
  ctr,        \* podman: status of the container of each generation
  img,        \* podman: declaration-digest label of each container
  door,       \* live door processes: None or [gen, ns]
  pidfile,    \* proxy.pid: 0 if absent
  pc,         \* label of the running command, "idle" when the lock is free
  loc,        \* its local variables
  doomed,     \* history: an unfinished destroy removed a recorded container
  crashes, faults, exits    \* budgets left

files == <<state, applied, plan, digest>>
book == <<last, logged>>
host == <<ctr, img>>
doors == <<door, pidfile>>
budget == <<crashes, faults, exits>>
vars == <<state, applied, plan, tr, digest, last, logged, ws, ctr, img, door,
          pidfile, pc, loc, doomed, crashes, faults, exits>>

Gens == 1..MaxGen
Pids == 1..MaxPid

State == [gen: Gens, decl: Decls, status: {"staging", "running", "down"},
          proxy: 0..MaxPid]

Transition == [phase: {"rollback", "commit"}, prior: {None} \cup State,
               wasRunning: BOOLEAN, succ: State, ws: -1..MaxWs]

\* None is no file content.
ASSUME AbsentConstant ==
  None \notin State \cup Transition \cup [gen: Gens, decl: Decls]

Record == [what: {"applied", "adopted", "restarted", "stopped", "destroyed",
                  "failed"},
           decl: Decls, ws: 0..MaxWs]

ASSUME AbsentRecord == None \notin Record

\* "created" is a container whose root has not been materialized yet;
\* "serving" one whose autostart services have converged.
CtrStatus == {"absent", "created", "stopped", "running", "serving"}

\* A door listens in the network namespace of one container start; when that
\* container stops the namespace is gone although the process lives on.
Door == [gen: Gens, ns: {"current", "gone"}]

Locals == [op: {"none", "up", "down", "destroy"}, decl: {None} \cup Decls,
           prior: {None} \cup State, exists: BOOLEAN, active: BOOLEAN,
           gen: 0..MaxGen, cutover: BOOLEAN, started: BOOLEAN,
           doored: BOOLEAN, recorded: BOOLEAN, restarted: BOOLEAN,
           recovering: BOOLEAN, failed: BOOLEAN, pid: 0..MaxPid]

NoLocals == [op |-> "none", decl |-> None, prior |-> None, exists |-> FALSE,
             active |-> FALSE, gen |-> 0, cutover |-> FALSE,
             started |-> FALSE, doored |-> FALSE, recorded |-> FALSE,
             restarted |-> FALSE, recovering |-> FALSE, failed |-> FALSE,
             pid |-> 0]

\* Steps of up: staging, cutover, verification and commit.
UpLabels == {"u.read", "u.load", "u.create", "u.materialize", "u.record",
             "u.stopdoor", "u.stop", "u.capture", "u.start", "u.verify",
             "u.door", "u.ready", "u.services", "u.reverify", "u.commit"}
\* Steps that publish a committed successor, in up and in recovery.
PublishLabels == {"p.digest", "p.applied", "p.plan", "p.state", "p.history",
                  "p.destroy", "p.clear"}
\* Deferred cleanup of a failed up.
CleanupLabels == {"c.door", "c.stop", "c.destroy", "c.clear"}
\* Adoption of a matching generation.
AdoptLabels == {"a.start", "a.verify", "a.door", "a.ready", "a.services",
                "a.plan", "a.state", "a.history", "a.undo", "a.unstart"}
\* Recovery of an interrupted transition, and restorePredecessor.
RecoverLabels == {"recover", "m.start", "m.verify", "m.door", "m.ready",
                  "m.record", "m.services", "b.door", "b.destroy", "b.state",
                  "b.applied", "b.plan", "b.clear"}
RestoreLabels == {"r.start", "r.verify", "r.door", "r.ready", "r.services",
                  "r.applied", "r.plan", "r.state"}
DownLabels == {"d.stop", "d.door", "d.state", "d.history"}
DestroyLabels == {"x.first", "x.second", "x.door", "x.history", "x.rename"}

Labels == UpLabels \cup PublishLabels \cup CleanupLabels \cup AdoptLabels
            \cup RecoverLabels \cup RestoreLabels \cup DownLabels
            \cup DestroyLabels

ASSUME FailureConstants ==
  CrashAt \subseteq Labels /\ FaultAt \subseteq Labels /\ LostAt \subseteq Labels

TypeOK ==
  /\ state \in {None} \cup State
  /\ applied \in {None} \cup Decls
  /\ plan \in {None} \cup Decls
  /\ tr \in {None} \cup Transition
  /\ digest \in [Gens -> -1..MaxWs]
  /\ last \in {None} \cup Record
  /\ logged \in [Gens -> 0..2]
  /\ ws \in 0..MaxWs
  /\ ctr \in [Gens -> CtrStatus]
  /\ img \in [Gens -> {None} \cup Decls]
  /\ door \in [Pids -> {None} \cup Door]
  /\ pidfile \in 0..MaxPid
  /\ pc \in {"idle"} \cup Labels
  /\ loc \in Locals
  /\ doomed \in BOOLEAN
  /\ crashes \in 0..MaxCrashes
  /\ faults \in 0..MaxFaults
  /\ exits \in 0..MaxExits

Init ==
  /\ state = None /\ applied = None /\ plan = None /\ tr = None
  /\ digest = [g \in Gens |-> -1]
  /\ last = None /\ logged = [g \in Gens |-> 0]
  /\ ws = 0
  /\ ctr = [g \in Gens |-> "absent"] /\ img = [g \in Gens |-> None]
  /\ door = [p \in Pids |-> None] /\ pidfile = 0
  /\ pc = "idle" /\ loc = NoLocals
  /\ doomed = FALSE
  /\ crashes = MaxCrashes /\ faults = MaxFaults /\ exits = MaxExits

-----------------------------------------------------------------------------
(* Containers, doors and history *)

Running(g) == ctr[g] \in {"running", "serving"}

\* `podman create`, labelled with the declaration.
CreateCtr(g, d) ==
  /\ ctr' = [ctr EXCEPT ![g] = "created"]
  /\ img' = [img EXCEPT ![g] = d]

\* `podman start`: a no-op on a running container; otherwise a new network
\* namespace and no services yet.
StartCtr(g) ==
  ctr' = [ctr EXCEPT ![g] = IF Running(g) THEN @ ELSE "running"]

\* Door processes after the container of g has stopped or been removed.
Unpin(g) ==
  [p \in Pids |-> IF door[p] # None /\ door[p].gen = g
                    THEN [gen |-> g, ns |-> "gone"] ELSE door[p]]

\* `podman stop` and `podman rm --force`.
StopCtr(g) ==
  /\ ctr' = [ctr EXCEPT ![g] = IF Running(g) THEN "stopped" ELSE @]
  /\ door' = Unpin(g)
  /\ UNCHANGED <<img, pidfile>>

DestroyCtr(g) ==
  /\ ctr' = [ctr EXCEPT ![g] = "absent"]
  /\ img' = [img EXCEPT ![g] = None]
  /\ door' = Unpin(g)
  /\ UNCHANGED pidfile

\* verifyRuntimeEvidence: running, and labelled with this declaration and plan.
Verified(g, d) == Running(g) /\ img[g] = d

DoorLive == pidfile # 0 /\ door[pidfile] # None

\* The door processes that remain once stopProxy has ended the one proxy.pid
\* names; a process no pid file names is out of its reach.
Unowned == [p \in Pids |-> IF p = pidfile THEN None ELSE door[p]]

StopDoor ==
  /\ door' = Unowned
  /\ pidfile' = 0

\* 127.0.0.1:3128 in the namespace of g is taken by a door that stopProxy
\* cannot reach.
PortTaken(g) == \E p \in Pids: Unowned[p] = [gen |-> g, ns |-> "current"]

History(what, d, w) == [what |-> what, decl |-> d, ws |-> w]

AppendRecord(r) == last' = r /\ UNCHANGED logged

-----------------------------------------------------------------------------
(* Control *)

Goto(from, to) == pc = from /\ pc' = to

Keep == UNCHANGED <<loc, doomed, budget>>

\* A step that only writes durable files (atomicWrite: temp file, fsync,
\* rename, fsync of the directory) and one that only ends the owned door.
Write(from, to, s, a, p, t) ==
  /\ Goto(from, to)
  /\ state' = s /\ applied' = a /\ plan' = p /\ tr' = t
  /\ UNCHANGED <<digest, book, ws, host, doors>> /\ Keep

EndDoor(from, to) ==
  /\ Goto(from, to)
  /\ StopDoor
  /\ UNCHANGED <<files, tr, book, ws, host>> /\ Keep

\* The command returns and its deferred lock.Release runs.
Return == pc' = "idle" /\ loc' = NoLocals

\* Where control goes when the host call at label l fails, and the locals it
\* takes there.  Cleanup collects its errors and carries on; recovery and the
\* other commands return, leaving what is on disk for the next command.
CleanupNext(l) ==
  CASE l = "c.door" -> "c.stop"
    [] l = "c.stop" -> IF loc.cutover THEN "r.start" ELSE "c.destroy"
    [] l = "c.destroy" -> "c.clear"
    [] OTHER -> "idle"

OnError(l) ==
  CASE l \in {"u.read", "u.load", "u.create"} -> "idle"
    [] l \in UpLabels \ {"u.read", "u.load", "u.create"} -> "c.door"
    [] l \in PublishLabels ->
         IF loc.recovering \/ l \in {"p.destroy", "p.clear"} THEN "idle"
         ELSE "c.door"
    [] l \in CleanupLabels -> CleanupNext(l)
    [] l \in {"a.start"} -> "u.load"
    [] l \in {"a.verify"} -> "a.unstart"
    [] l \in {"a.door", "a.ready", "a.services", "a.plan", "a.state",
              "a.history"} -> "a.undo"
    [] l = "a.undo" -> "a.unstart"
    [] l \in RestoreLabels -> IF loc.recovering THEN "idle" ELSE "c.destroy"
    [] OTHER -> "idle"

\* The labels whose error sets a flag the deferred code looks at.
Failing == CleanupLabels \cup RestoreLabels \cup {"a.undo", "a.unstart"}
             \cup {"a.door", "a.ready", "a.services", "a.plan", "a.state",
                   "a.history"}

Fail(l) ==
  /\ pc' = OnError(l)
  /\ loc' = IF OnError(l) = "idle" THEN NoLocals
            ELSE [loc EXCEPT !.failed = @ \/ l \in Failing]

\* recordFailure appends "failed" for these steps of up.
RecordsFailure == {"u.create", "u.materialize", "u.stop", "u.start",
                   "u.verify", "u.door", "u.ready", "u.services",
                   "u.reverify"}

FailureRecord(l) ==
  IF l \in RecordsFailure THEN AppendRecord(History("failed", loc.decl, 0))
  ELSE UNCHANGED book

-----------------------------------------------------------------------------
(* Commands take the lock *)

Begin(op, d) ==
  /\ pc = "idle"
  /\ op = "up" <=> d # None
  /\ loc' = [NoLocals EXCEPT !.op = op, !.decl = d]
  /\ pc' = IF op = "destroy" THEN "x.first" ELSE "recover"
  /\ UNCHANGED <<files, tr, book, ws, host, doors, doomed, budget>>

Recovered == IF loc.op = "up" THEN "u.read" ELSE "d.stop"

-----------------------------------------------------------------------------
(* up: read the predecessor and stage the successor *)

\* Reads state.json, observes the predecessor's container, and offers a
\* generation of the same plan for adoption.
UpRead ==
  /\ pc = "u.read"
  /\ LET exists == state # None /\ ctr[state.gen] # "absent"
         active == exists /\ Running(state.gen) IN
     /\ loc' = [loc EXCEPT !.prior = state, !.exists = exists,
                           !.active = active]
     /\ pc' = IF exists /\ Plan[state.decl] = Plan[loc.decl]
                THEN IF active THEN "a.verify" ELSE "a.start"
                ELSE "u.load"
  /\ UNCHANGED <<files, tr, book, ws, host, doors, doomed, budget>>

\* loadPredecessor refuses intent that does not match state.json; then
\* NextGeneration numbers the successor.
UpLoad ==
  LET next == IF loc.prior = None THEN 1 ELSE loc.prior.gen + 1
      loaded == loc.prior = None
                  \/ (applied = loc.prior.decl /\ plan \in {None, applied}) IN
  /\ pc = "u.load"
  /\ IF loaded /\ next \in Gens
       THEN /\ loc' = [loc EXCEPT !.gen = next, !.restarted = FALSE]
            /\ pc' = "u.create"
       ELSE Return
  /\ UNCHANGED <<files, tr, book, ws, host, doors, doomed, budget>>

\* `podman create --name` refuses a name that is in use.
UpCreate ==
  /\ pc = "u.create"
  /\ IF ctr[loc.gen] = "absent"
       THEN /\ CreateCtr(loc.gen, loc.decl)
            /\ pc' = "u.materialize"
            /\ UNCHANGED <<book, loc>>
       ELSE /\ Fail("u.create")
            /\ FailureRecord("u.create")
            /\ UNCHANGED host
  /\ UNCHANGED <<files, tr, ws, doors, doomed, budget>>

UpMaterialize ==
  /\ Goto("u.materialize", "u.record")
  /\ ctr' = [ctr EXCEPT ![loc.gen] = "stopped"]
  /\ UNCHANGED <<files, tr, book, ws, img, doors>> /\ Keep

\* The durable rollback record, written before the first cutover mutation.
UpRecord ==
  /\ Goto("u.record", IF loc.active THEN "u.stopdoor" ELSE "u.capture")
  /\ tr' = [phase |-> "rollback", prior |-> loc.prior,
            wasRunning |-> loc.active,
            succ |-> [gen |-> loc.gen, decl |-> loc.decl,
                      status |-> "staging", proxy |-> 0],
            ws |-> -1]
  /\ loc' = [loc EXCEPT !.recorded = TRUE, !.cutover = loc.active]
  /\ UNCHANGED <<files, book, ws, host, doors, doomed, budget>>

-----------------------------------------------------------------------------
(* up: cutover, verification, commit *)

UpStopDoor == EndDoor("u.stopdoor", "u.stop")

\* Mutant: the predecessor is removed at cutover already.
UpStopRemoves ==
  /\ Goto("u.stop", "u.capture")
  /\ DestroyCtr(loc.prior.gen)
  /\ UNCHANGED <<files, tr, book, ws>> /\ Keep

UpStop ==
  /\ Goto("u.stop", "u.capture")
  /\ StopCtr(loc.prior.gen)
  /\ UNCHANGED <<files, tr, book, ws>> /\ Keep

\* Mutant: the tree recorded for the predecessor stands in for a new capture.
UpCaptureRecorded ==
  Write("u.capture", "u.start", state, applied, plan,
        [tr EXCEPT !.ws = IF loc.prior = None THEN ws ELSE digest[loc.prior.gen]])

\* Digests the workspace and fsyncs it into the rollback record.
UpCapture == Write("u.capture", "u.start", state, applied, plan,
                   [tr EXCEPT !.ws = ws])

UpStart ==
  /\ Goto("u.start", "u.verify")
  /\ StartCtr(loc.gen)
  /\ loc' = [loc EXCEPT !.started = TRUE]
  /\ UNCHANGED <<files, tr, book, ws, img, doors, doomed, budget>>

UpVerify ==
  /\ pc = "u.verify"
  /\ IF Verified(loc.gen, loc.decl)
       THEN /\ pc' = IF loc.decl \in NetDecls THEN "u.door" ELSE "u.services"
            /\ UNCHANGED <<book, loc>>
       ELSE Fail("u.verify") /\ FailureRecord("u.verify")
  /\ UNCHANGED <<files, tr, ws, host, doors, doomed, budget>>

\* startProxy: end the owned door, spawn a new one ...
SpawnDoor(at, ready, g) ==
  /\ pc = at
  /\ IF Running(g) /\ ~PortTaken(g)
       THEN /\ \E p \in Pids:
                 /\ Unowned[p] = None
                 /\ \A q \in 1..(p - 1): Unowned[q] # None
                 /\ door' = [Unowned EXCEPT ![p] = [gen |-> g, ns |-> "current"]]
                 /\ loc' = [loc EXCEPT !.pid = p]
            /\ pidfile' = 0
            /\ pc' = ready
            /\ UNCHANGED book
       ELSE StopDoor /\ Fail(at) /\ FailureRecord(at)
  /\ UNCHANGED <<files, tr, ws, host, doomed, budget>>

\* ... then record its identity in proxy.pid and wait for it to answer.
ReadyDoor(at, to) ==
  /\ pc = at
  /\ IF door[loc.pid] # None
       THEN /\ pidfile' = loc.pid
            /\ pc' = to
            /\ loc' = [loc EXCEPT !.doored = TRUE]
            /\ UNCHANGED book
       ELSE /\ pidfile' = 0
            /\ Fail(at) /\ FailureRecord(at)
  /\ UNCHANGED <<files, tr, ws, host, door, doomed, budget>>

\* startServices converges every autostart service of a running container.
StartServices(at, to, g) ==
  /\ pc = at
  /\ IF Running(g)
       THEN /\ ctr' = [ctr EXCEPT ![g] = "serving"]
            /\ pc' = to
            /\ UNCHANGED <<book, loc>>
       ELSE Fail(at) /\ FailureRecord(at) /\ UNCHANGED ctr
  /\ UNCHANGED <<files, tr, ws, img, doors, doomed, budget>>

UpReverify ==
  /\ pc = "u.reverify"
  /\ IF Verified(loc.gen, loc.decl)
       THEN pc' = "u.commit" /\ UNCHANGED <<book, loc>>
       ELSE Fail("u.reverify") /\ FailureRecord("u.reverify")
  /\ UNCHANGED <<files, tr, ws, host, doors, doomed, budget>>

\* Mutant: the successor's status is set to the phase.
UpCommitPhaseStatus ==
  /\ Goto("u.commit", "p.digest")
  /\ tr' = [tr EXCEPT !.phase = "commit", !.ws = ws,
                      !.succ = [@ EXCEPT !.status = "commit",
                                         !.proxy = loc.pid]]
  /\ doomed' = FALSE
  /\ UNCHANGED <<files, book, ws, host, doors, loc, budget>>

\* The record advances from rollback to commit.
UpCommit ==
  /\ Goto("u.commit", "p.digest")
  /\ tr' = [tr EXCEPT !.phase = "commit", !.ws = ws,
                      !.succ = [@ EXCEPT !.status = "running",
                                         !.proxy = loc.pid]]
  /\ doomed' = FALSE
  /\ UNCHANGED <<files, book, ws, host, doors, loc, budget>>

-----------------------------------------------------------------------------
(* Publishing a committed successor: the tail of up and of commit recovery *)

PublishDigest ==
  /\ Goto("p.digest", "p.applied")
  /\ digest' = [digest EXCEPT ![tr.succ.gen] = tr.ws]
  /\ UNCHANGED <<state, applied, plan, tr, book, ws, host, doors>> /\ Keep

\* Mutant: applied-plan.json is not rewritten.
PublishAppliedOnly == Write("p.applied", "p.state", state, tr.succ.decl, plan, tr)

PublishApplied == Write("p.applied", "p.plan", state, tr.succ.decl, plan, tr)

PublishPlan == Write("p.plan", "p.state", state, applied, tr.succ.decl, tr)

PublishState == Write("p.state", "p.history", tr.succ, applied, plan, tr)

\* Mutant: a plain append.
AppendAlways(r, g) ==
  /\ last' = r
  /\ logged' = [logged EXCEPT ![g] = IF @ < 2 THEN @ + 1 ELSE @]

\* history.AppendOnce suppresses an immediately repeated record.
AppendOnce(r, g) ==
  IF last = r THEN UNCHANGED book
  ELSE /\ last' = r
       /\ logged' = [logged EXCEPT ![g] = IF @ < 2 THEN @ + 1 ELSE @]

PublishHistory ==
  /\ Goto("p.history", "p.destroy")
  /\ AppendOnce(History("applied", tr.succ.decl, tr.ws), tr.succ.gen)
  /\ UNCHANGED <<files, tr, ws, host, doors>> /\ Keep

\* Mutant: an absent predecessor is an error.
PublishDestroyOnce ==
  /\ pc = "p.destroy"
  /\ IF tr.prior # None /\ ctr[tr.prior.gen] = "absent"
       THEN Return /\ UNCHANGED <<host, doors>>
       ELSE /\ pc' = "p.clear" /\ UNCHANGED loc
            /\ IF tr.prior # None THEN DestroyCtr(tr.prior.gen)
               ELSE UNCHANGED <<host, doors>>
  /\ UNCHANGED <<files, tr, book, ws, doomed, budget>>

\* Removes the displaced predecessor; `podman rm` of an absent one is skipped.
PublishDestroy ==
  /\ Goto("p.destroy", "p.clear")
  /\ IF tr.prior # None THEN DestroyCtr(tr.prior.gen) ELSE UNCHANGED <<host, doors>>
  /\ UNCHANGED <<files, tr, book, ws>> /\ Keep

PublishClear ==
  /\ pc = "p.clear"
  /\ tr' = None
  /\ IF loc.recovering
       THEN /\ pc' = Recovered
            /\ loc' = [NoLocals EXCEPT !.op = loc.op, !.decl = loc.decl]
       ELSE Return
  /\ UNCHANGED <<files, book, ws, host, doors, doomed, budget>>

-----------------------------------------------------------------------------
(* up: deferred cleanup of a failed application *)

CleanupDoor ==
  /\ Goto("c.door", "c.stop")
  /\ IF loc.doored THEN StopDoor ELSE UNCHANGED doors
  /\ UNCHANGED <<files, tr, book, ws, host>> /\ Keep

\* Mutant: only a successor that got its door is stopped.
CleanupStopDoored ==
  /\ Goto("c.stop", CleanupNext("c.stop"))
  /\ IF loc.doored THEN StopCtr(loc.gen) ELSE UNCHANGED <<host, doors>>
  /\ UNCHANGED <<files, tr, book, ws>> /\ Keep

CleanupStop ==
  /\ Goto("c.stop", CleanupNext("c.stop"))
  /\ IF loc.started THEN StopCtr(loc.gen) ELSE UNCHANGED <<host, doors>>
  /\ UNCHANGED <<files, tr, book, ws>> /\ Keep

\* Mutant: the wrong generation is removed.
CleanupDestroyPrior ==
  /\ Goto("c.destroy", "c.clear")
  /\ DestroyCtr(IF loc.cutover THEN loc.prior.gen ELSE loc.gen)
  /\ UNCHANGED <<files, tr, book, ws>> /\ Keep

CleanupDestroy ==
  /\ Goto("c.destroy", "c.clear")
  /\ DestroyCtr(loc.gen)
  /\ UNCHANGED <<files, tr, book, ws>> /\ Keep

\* The record is cleared only if no cleanup step failed.
CleanupClear ==
  /\ pc = "c.clear"
  /\ tr' = IF loc.recorded /\ ~loc.failed THEN None ELSE tr
  /\ Return
  /\ UNCHANGED <<files, book, ws, host, doors, doomed, budget>>

-----------------------------------------------------------------------------
(* restorePredecessor, called by the cleanup of up and by rollback recovery *)

\* A missing predecessor container is an error.
RestoreStart ==
  /\ pc = "r.start"
  /\ IF ctr[tr.prior.gen] # "absent"
       THEN StartCtr(tr.prior.gen) /\ pc' = "r.verify" /\ UNCHANGED loc
       ELSE Fail("r.start") /\ UNCHANGED ctr
  /\ UNCHANGED <<files, tr, book, ws, img, doors, doomed, budget>>

RestoreVerify ==
  /\ pc = "r.verify"
  /\ IF Verified(tr.prior.gen, tr.prior.decl)
       THEN /\ pc' = IF tr.prior.decl \in NetDecls THEN "r.door" ELSE "r.services"
            /\ loc' = [loc EXCEPT !.pid = 0]
       ELSE Fail("r.verify")
  /\ UNCHANGED <<files, tr, book, ws, host, doors, doomed, budget>>

RestoreApplied == Write("r.applied", "r.plan", state, tr.prior.decl, plan, tr)

RestorePlan == Write("r.plan", "r.state", state, applied, tr.prior.decl, tr)

\* Mutant: the restored state names the successor's declaration.
RestoreStateSuccessor ==
  Write("r.state", IF loc.recovering THEN "b.clear" ELSE "c.destroy",
        [tr.prior EXCEPT !.status = "running", !.proxy = loc.pid,
                         !.decl = tr.succ.decl],
        applied, plan, tr)

RestoreState ==
  Write("r.state", IF loc.recovering THEN "b.clear" ELSE "c.destroy",
        [tr.prior EXCEPT !.status = "running", !.proxy = loc.pid],
        applied, plan, tr)

-----------------------------------------------------------------------------
(* adopt: converge a surviving generation of the same plan *)

AdoptStart ==
  /\ Goto("a.start", "a.verify")
  /\ StartCtr(loc.prior.gen)
  /\ loc' = [loc EXCEPT !.restarted = TRUE]
  /\ UNCHANGED <<files, tr, book, ws, img, doors, doomed, budget>>

\* Evidence that does not verify means "not adopted", so the generation is
\* replaced; the labels compared include the declaration digest.
AdoptVerify ==
  /\ pc = "a.verify"
  /\ IF Verified(loc.prior.gen, loc.decl)
       THEN pc' = "a.door" /\ UNCHANGED loc
       ELSE Fail("a.verify")
  /\ UNCHANGED <<files, tr, book, ws, host, doors, doomed, budget>>

AfterAdoptDoor == IF loc.restarted THEN "a.services" ELSE "a.plan"

\* A live door of this generation is reconciled in place and keeps its
\* process; one of another generation is refused.
AdoptKeepDoor ==
  /\ pc = "a.door" /\ loc.decl \in NetDecls /\ DoorLive
  /\ IF door[pidfile].gen = loc.prior.gen
       THEN pc' = AfterAdoptDoor /\ loc' = [loc EXCEPT !.pid = pidfile]
       ELSE Fail("a.door")
  /\ UNCHANGED <<files, tr, book, ws, host, doors, doomed, budget>>

AdoptSpawnDoor ==
  /\ loc.decl \in NetDecls /\ ~DoorLive
  /\ SpawnDoor("a.door", "a.ready", loc.prior.gen)

AdoptNoDoor ==
  /\ loc.decl \notin NetDecls
  /\ Goto("a.door", AfterAdoptDoor)
  /\ IF DoorLive THEN StopDoor ELSE UNCHANGED doors
  /\ loc' = [loc EXCEPT !.pid = IF DoorLive THEN 0 ELSE loc.prior.proxy]
  /\ UNCHANGED <<files, tr, book, ws, host, doomed, budget>>

AdoptPlan == Write("a.plan", "a.state", state, applied, loc.decl, tr)

AdoptState ==
  Write("a.state", "a.history",
        [loc.prior EXCEPT !.status = "running", !.proxy = loc.pid],
        applied, plan, tr)

AdoptHistory ==
  /\ pc = "a.history"
  /\ AppendRecord(History(IF loc.restarted THEN "restarted" ELSE "adopted",
                          loc.decl, ws))
  /\ Return
  /\ UNCHANGED <<files, tr, ws, host, doors, doomed, budget>>

\* Deferred cleanup of an adoption that did not commit.
AdoptUndo ==
  /\ Goto("a.undo", "a.unstart")
  /\ IF loc.doored THEN StopDoor ELSE UNCHANGED doors
  /\ UNCHANGED <<files, tr, book, ws, host>> /\ Keep

AdoptUnstart ==
  /\ pc = "a.unstart"
  /\ IF loc.restarted THEN StopCtr(loc.prior.gen) ELSE UNCHANGED <<host, doors>>
  /\ IF loc.failed THEN Return ELSE pc' = "u.load" /\ UNCHANGED loc
  /\ UNCHANGED <<files, tr, book, ws, doomed, budget>>

-----------------------------------------------------------------------------
(* recoverTransition *)

\* A committed successor that is absent cannot be recovered: the record stays.
Recover ==
  /\ pc = "recover"
  /\ \/ tr = None /\ pc' = Recovered /\ UNCHANGED loc
     \/ /\ tr # None
        /\ IF tr.phase = "commit" /\ ctr[tr.succ.gen] = "absent"
             THEN Return
             ELSE /\ pc' = IF tr.phase = "commit" THEN "m.start" ELSE "b.door"
                  /\ loc' = [loc EXCEPT !.recovering = TRUE]
  /\ UNCHANGED <<files, tr, book, ws, host, doors, doomed, budget>>

CommitStart ==
  /\ Goto("m.start", "m.verify")
  /\ StartCtr(tr.succ.gen)
  /\ loc' = [loc EXCEPT !.restarted = ~Running(tr.succ.gen)]
  /\ UNCHANGED <<files, tr, book, ws, img, doors, doomed, budget>>

CommitVerify ==
  /\ pc = "m.verify"
  /\ IF Verified(tr.succ.gen, tr.succ.decl)
       THEN /\ pc' = IF tr.succ.decl \in NetDecls /\ (loc.restarted \/ ~DoorLive)
                       THEN "m.door" ELSE "m.services"
            /\ UNCHANGED loc
       ELSE Fail("m.verify")
  /\ UNCHANGED <<files, tr, book, ws, host, doors, doomed, budget>>

CommitRecord ==
  Write("m.record", "m.services", state, applied, plan,
        [tr EXCEPT !.succ = [@ EXCEPT !.proxy = loc.pid]])

RollbackDoor == EndDoor("b.door", "b.destroy")

\* Mutant: a successor is left if it must make room for a predecessor.
RollbackKeepsSuccessor ==
  /\ Goto("b.destroy", IF tr.prior = None THEN "b.state"
                       ELSE IF tr.wasRunning THEN "r.start" ELSE "b.applied")
  /\ IF tr.wasRunning THEN UNCHANGED <<host, doors>> ELSE DestroyCtr(tr.succ.gen)
  /\ UNCHANGED <<files, tr, book, ws>> /\ Keep

RollbackDestroy ==
  /\ Goto("b.destroy", IF tr.prior = None THEN "b.state"
                       ELSE IF tr.wasRunning THEN "r.start" ELSE "b.applied")
  /\ DestroyCtr(tr.succ.gen)
  /\ UNCHANGED <<files, tr, book, ws>> /\ Keep

\* Without a predecessor the files are removed, state.json first; with an
\* inactive one they are rewritten, state.json last.
RollbackState ==
  Write("b.state", IF tr.prior = None THEN "b.applied" ELSE "b.clear",
        tr.prior, applied, plan, tr)

PriorDecl == IF tr.prior = None THEN None ELSE tr.prior.decl

RollbackApplied == Write("b.applied", "b.plan", state, PriorDecl, plan, tr)

RollbackPlan ==
  Write("b.plan", IF tr.prior = None THEN "b.clear" ELSE "b.state",
        state, applied, PriorDecl, tr)

RollbackClear ==
  /\ Goto("b.clear", Recovered)
  /\ tr' = None
  /\ loc' = [NoLocals EXCEPT !.op = loc.op, !.decl = loc.decl]
  /\ UNCHANGED <<files, book, ws, host, doors, doomed, budget>>

-----------------------------------------------------------------------------
(* down *)

\* The container is stopped only if state.json says it is running; `podman
\* stop` of an absent container fails.
DownStop ==
  /\ pc = "d.stop"
  /\ IF state = None \/ (state.status = "running" /\ ctr[state.gen] = "absent")
       THEN Return /\ UNCHANGED <<host, doors>>
       ELSE /\ pc' = "d.door" /\ UNCHANGED loc
            /\ IF state.status = "running" THEN StopCtr(state.gen)
               ELSE UNCHANGED <<host, doors>>
  /\ UNCHANGED <<files, tr, book, ws, doomed, budget>>

DownDoor == EndDoor("d.door", "d.state")

DownState ==
  Write("d.state", "d.history", [state EXCEPT !.status = "down", !.proxy = 0],
        applied, plan, tr)

DownHistory ==
  /\ pc = "d.history"
  /\ AppendRecord(History("stopped", state.decl, 0))
  /\ Return
  /\ UNCHANGED <<files, tr, ws, host, doors, doomed, budget>>

-----------------------------------------------------------------------------
(* destroy: no recovery, every generation the record names goes *)

Authoritative ==
  IF tr = None THEN state ELSE IF tr.phase = "commit" THEN tr.succ ELSE tr.prior
Candidate ==
  IF tr = None THEN None ELSE IF tr.phase = "commit" THEN tr.prior ELSE tr.succ

DestroyFirst ==
  /\ pc = "x.first"
  /\ IF tr = None /\ state = None
       THEN Return /\ UNCHANGED <<host, doors, doomed>>
       ELSE /\ pc' = "x.second" /\ UNCHANGED loc
            /\ doomed' = TRUE
            /\ IF Authoritative # None THEN DestroyCtr(Authoritative.gen)
               ELSE UNCHANGED <<host, doors>>
  /\ UNCHANGED <<files, tr, book, ws, budget>>

DestroySecond ==
  /\ Goto("x.second", "x.door")
  /\ IF Candidate # None THEN DestroyCtr(Candidate.gen)
     ELSE UNCHANGED <<host, doors>>
  /\ UNCHANGED <<files, tr, book, ws>> /\ Keep

DestroyDoor == EndDoor("x.door", "x.history")

DestroyHistory ==
  /\ Goto("x.history", "x.rename")
  /\ AppendRecord(History("destroyed", IF Authoritative # None THEN Authoritative.decl
                                       ELSE tr.succ.decl, 0))
  /\ UNCHANGED <<files, tr, ws, host, doors>> /\ Keep

\* The root is renamed to a tombstone in one step; the next up starts anew.
DestroyRename ==
  /\ pc = "x.rename"
  /\ state' = None /\ applied' = None /\ plan' = None /\ tr' = None
  /\ digest' = [g \in Gens |-> -1]
  /\ last' = None /\ logged' = [g \in Gens |-> 0]
  /\ ws' = 0 /\ pidfile' = 0 /\ doomed' = FALSE
  /\ Return
  /\ UNCHANGED <<host, door, budget>>

-----------------------------------------------------------------------------
(* Failures *)

\* A crash or a signal ends the command and releases the flock.
Crash ==
  /\ pc \in CrashAt /\ crashes > 0
  /\ crashes' = crashes - 1
  /\ Return
  /\ UNCHANGED <<files, tr, book, ws, host, doors, doomed, faults, exits>>

\* The host goes down: nothing keeps running, the disk stays.
Reboot ==
  /\ pc \in CrashAt \cup {"idle"} /\ crashes > 0
  /\ crashes' = crashes - 1
  /\ ctr' = [g \in Gens |-> IF Running(g) THEN "stopped" ELSE ctr[g]]
  /\ door' = [p \in Pids |-> None]
  /\ Return
  /\ UNCHANGED <<files, tr, book, ws, img, pidfile, doomed, faults, exits>>

\* A host call fails without effect.  A door that does not become ready is
\* ended before startProxy returns its error.
HostFailure ==
  /\ pc \in FaultAt /\ faults > 0
  /\ faults' = faults - 1
  /\ Fail(pc) /\ FailureRecord(pc)
  /\ IF pc \in {"u.ready", "a.ready", "m.ready", "r.ready"}
       THEN door' = [door EXCEPT ![loc.pid] = None] /\ pidfile' = 0
       ELSE UNCHANGED doors
  /\ UNCHANGED <<files, tr, ws, host, doomed, crashes, exits>>

\* A container call takes effect but reports an error.
LostReply ==
  /\ pc \in LostAt \cap {"u.create", "u.stop", "u.start"} /\ faults > 0
  /\ faults' = faults - 1
  /\ \/ /\ pc = "u.create" /\ ctr[loc.gen] = "absent"
        /\ CreateCtr(loc.gen, loc.decl)
        /\ UNCHANGED doors
     \/ pc = "u.stop" /\ StopCtr(loc.prior.gen)
     \/ pc = "u.start" /\ StartCtr(loc.gen) /\ UNCHANGED <<img, doors>>
  /\ Fail(pc) /\ FailureRecord(pc)
  /\ UNCHANGED <<files, tr, ws, doomed, crashes, exits>>

ContainerExit(g) ==
  /\ Running(g) /\ exits > 0
  /\ exits' = exits - 1
  /\ StopCtr(g)
  /\ UNCHANGED <<files, tr, book, ws, pc, loc, doomed, crashes, faults>>

DoorExit(p) ==
  /\ door[p] # None /\ exits > 0
  /\ exits' = exits - 1
  /\ door' = [door EXCEPT ![p] = None]
  /\ UNCHANGED <<files, tr, book, ws, host, pidfile, pc, loc, doomed,
                 crashes, faults>>

\* Processes of a running generation write the carried workspace.
WorldWrites ==
  /\ \E g \in Gens: Running(g)
  /\ ws < MaxWs
  /\ ws' = ws + 1
  /\ UNCHANGED <<files, tr, book, host, doors, pc, loc, doomed, budget>>

-----------------------------------------------------------------------------
UpStep ==
  \/ UpRead \/ UpLoad \/ UpCreate \/ UpMaterialize \/ UpRecord
  \/ UpStopDoor \/ UpStop \/ UpCapture \/ UpStart \/ UpVerify
  \/ SpawnDoor("u.door", "u.ready", loc.gen)
  \/ ReadyDoor("u.ready", "u.services")
  \/ StartServices("u.services", "u.reverify", loc.gen)
  \/ UpReverify \/ UpCommit
  \/ PublishDigest \/ PublishApplied \/ PublishPlan \/ PublishState
  \/ PublishHistory \/ PublishDestroy \/ PublishClear
  \/ CleanupDoor \/ CleanupStop \/ CleanupDestroy \/ CleanupClear

AdoptStep ==
  \/ AdoptStart \/ AdoptVerify \/ AdoptKeepDoor \/ AdoptSpawnDoor
  \/ AdoptNoDoor \/ ReadyDoor("a.ready", AfterAdoptDoor)
  \/ StartServices("a.services", "a.plan", loc.prior.gen)
  \/ AdoptPlan \/ AdoptState \/ AdoptHistory \/ AdoptUndo \/ AdoptUnstart

RecoverStep ==
  \/ Recover \/ CommitStart \/ CommitVerify
  \/ SpawnDoor("m.door", "m.ready", tr.succ.gen)
  \/ ReadyDoor("m.ready", "m.record") \/ CommitRecord
  \/ StartServices("m.services", "p.digest", tr.succ.gen)
  \/ RollbackDoor \/ RollbackDestroy \/ RollbackState \/ RollbackApplied
  \/ RollbackPlan \/ RollbackClear
  \/ RestoreStart \/ RestoreVerify
  \/ SpawnDoor("r.door", "r.ready", tr.prior.gen)
  \/ ReadyDoor("r.ready", "r.services")
  \/ StartServices("r.services", "r.applied", tr.prior.gen)
  \/ RestoreApplied \/ RestorePlan \/ RestoreState

DownStep == DownStop \/ DownDoor \/ DownState \/ DownHistory

DestroyStep ==
  DestroyFirst \/ DestroySecond \/ DestroyDoor \/ DestroyHistory \/ DestroyRename

Step == UpStep \/ AdoptStep \/ RecoverStep \/ DownStep \/ DestroyStep

Command ==
  \/ \E d \in Decls: Begin("up", d)
  \/ Begin("down", None)
  \/ Begin("destroy", None)

Failure ==
  \/ Crash \/ Reboot \/ HostFailure \/ LostReply
  \/ \E g \in Gens: ContainerExit(g)
  \/ \E p \in Pids: DoorExit(p)

Next == Command \/ Step \/ Failure \/ WorldWrites

Spec == Init /\ [][Next]_vars

-----------------------------------------------------------------------------
(* Properties *)

\* Two generations never run over the one workspace: app.go stops the
\* predecessor before it starts the successor, and destroys the successor
\* before a rollback restarts the predecessor.
OneGeneration ==
  \A g, h \in Gens: Running(g) /\ Running(h) => g = h

\* What recovery needs exists: a commit record names a materialized successor,
\* a rollback record that must restart its predecessor names a surviving one.
Recoverable ==
  tr # None /\ ~doomed =>
    /\ tr.phase = "commit" => ctr[tr.succ.gen] \notin {"absent", "created"}
    /\ tr.phase = "rollback" /\ tr.wasRunning =>
         ctr[tr.prior.gen] \notin {"absent", "created"}

\* No hybrid world: between commands, without a transition record, state.json,
\* applied.toml, applied-plan.json, the recorded digest and the container all
\* speak of one generation of one declaration.
Settled ==
  pc = "idle" /\ tr = None /\ ~doomed =>
    IF state = None THEN applied = None /\ plan = None
    ELSE /\ applied = state.decl /\ plan = state.decl
         /\ ctr[state.gen] \notin {"absent", "created"}
         /\ img[state.gen] = state.decl
         /\ digest[state.gen] # -1

\* Without a record that names it, no generation but that of state.json runs.
NoUnrecordedGeneration ==
  \A g \in Gens: Running(g) /\ ~doomed =>
    \/ state # None /\ state.gen = g
    \/ tr # None /\ (tr.succ.gen = g \/ (tr.prior # None /\ tr.prior.gen = g))

\* Whatever crashes or fails, one generation runs, and a record names it.
RunsAsRecorded == OneGeneration /\ NoUnrecordedGeneration

\* The tree fsynced into the rollback record is the workspace the successor
\* starts from: nothing may write between capture and start.
HandoffExact == pc = "u.start" => tr.ws = ws

-----------------------------------------------------------------------------
(* Refinement and liveness *)

View(s) == IF s = None THEN None ELSE [gen |-> s.gen, decl |-> s.decl]

Abstract == INSTANCE Authority WITH auth <- View(Authoritative)

\* The files on disk, read through the transition record, are one register
\* that only ever moves to the next generation in a single step (the rename of
\* the commit record) or disappears (the rename of the world's root), whatever
\* crashes, reboots and recoveries happen on the way.
AtomicAuthority == Abstract!Spec

\* Commands make progress and the operator keeps issuing commands.
FairSpec == Spec /\ WF_vars(Step) /\ WF_vars(Command)

\* An interrupted transition does not stay: once failures stop, the commands
\* that follow complete it in one direction or the other (an unfinished destroy
\* is left to the next destroy).
Settles == tr # None ~> (tr = None \/ doomed)
=============================================================================
