------------------------------- MODULE Review -------------------------------
(***************************************************************************)
(* What the operator confirms and what `up` then applies: runUp compares   *)
(* the candidate with the recorded world (CompareUpContext, without the    *)
(* lock), shows the result and asks; UpReviewed compares again under       *)
(* mutation.lock, recovers, compares once more if it recovered anything,   *)
(* and looks at the predecessor and at the workspace twice more on its way *)
(* to the cutover.  Other commands run between the two, containers exit or *)
(* are started by hand, and the workspace is edited at any time.           *)
(*                                                                         *)
(* The lock, its file and the death of a command at any point are those of *)
(* module Lockfile; of the lifecycle, which World models step by step, the *)
(* steps are kept that change what a comparison reads.                     *)
(***************************************************************************)
EXTENDS Lockfile

CONSTANTS
  Plans,      \* candidate plans
  Mounts,     \* workspace paths a plan may declare
  Targets,    \* [Plans -> SUBSET Mounts]
  MaxGen,     \* bound on generations
  MaxWs,      \* bound on changes of the workspace's contents
  MaxFlips,   \* bound on containers that exit or are started by hand
  None        \* an absent file or record

ASSUME ReviewConstants ==
  /\ Targets \in [Plans -> SUBSET Mounts]
  /\ MaxGen \in Nat \ {0} /\ MaxWs \in Nat /\ MaxFlips \in Nat

VARIABLES
  state,      \* state.json
  tr,         \* transition.json
  digest,     \* digests/gN.json
  staging,    \* staging/ holds a generation's files
  booked,     \* history.jsonl holds more than failed ups
  ws,         \* the workspace: mount roots, and a version of what is in them
  ctr,        \* podman: container of each generation
  cand,       \* the plan each process prepared
  step,       \* where it is within its command
  seen,       \* transition and state as an unlocked comparison read them
  shown,      \* the comparison the operator was shown
  active,     \* priorActive of up
  base,       \* the workspace digested before staging
  out,        \* how the command ended; "unclean": its cleanup failed as well
  flips       \* budget left

durable == <<state, tr, digest, staging, booked>>
local == <<cand, step, seen, shown, active, base, out>>
rvars == <<durable, ws, ctr, local, flips>>
lockvars == <<op, pc, fd, flock, path, root, inodes>>
allvars == <<vars, rvars>>

Gens == 1..MaxGen
Trees == [mounts: SUBSET Mounts, ver: 0..MaxWs]
State == [gen: Gens, plan: Plans, status: {"staging", "running", "down"}]
Transition == [phase: {"rollback", "commit"}, prior: {None} \cup State,
               wasRunning: BOOLEAN, succ: State, ws: {None} \cup Trees]
Comparison == [cand: Plans, tr: {None} \cup Transition, prior: {None} \cup State,
               mode: {"empty", "exact", "active"}, recorded: {None} \cup Trees,
               root: {None} \cup Trees]
ASSUME AbsentRecord == None \notin Transition

Steps == {"prepare", "reading", "asked", "agreed", "recover", "reverify",
          "observe", "adopt", "before", "create", "materialize", "record",
          "stop", "capture", "start", "commit", "publish", "end"}

ReviewTypeOK ==
  /\ TypeOK
  /\ state \in {None} \cup State
  /\ tr \in {None} \cup Transition
  /\ digest \in [Gens -> {None} \cup Trees]
  /\ staging \in BOOLEAN
  /\ booked \in BOOLEAN
  /\ ws \in Trees
  /\ ctr \in [Gens -> {"absent", "stopped", "running"}]
  /\ cand \in [Procs -> Plans]
  /\ step \in [Procs -> Steps]
  /\ seen \in [Procs -> {None} \cup [tr: {None} \cup Transition, state: {None} \cup State]]
  /\ shown \in [Procs -> {None} \cup Comparison]
  /\ active \in [Procs -> BOOLEAN]
  /\ base \in [Procs -> {None} \cup Trees]
  /\ out \in [Procs -> {"none", "refused", "failed", "unclean", "applied", "adopted"}]
  /\ flips \in 0..MaxFlips

NewWorkspace == [mounts |-> {}, ver |-> 0]

\* No world, or one whose first generation runs or is down.
ReviewInit ==
  /\ Init
  /\ cand \in [Procs -> Plans]
  /\ step = [p \in Procs |-> "prepare"]
  /\ seen = [p \in Procs |-> None] /\ shown = [p \in Procs |-> None]
  /\ active = [p \in Procs |-> FALSE] /\ base = [p \in Procs |-> None]
  /\ out = [p \in Procs |-> "none"]
  /\ tr = None /\ staging = FALSE /\ booked = root /\ flips = MaxFlips
  /\ IF ~root
       THEN /\ state = None /\ ws = NewWorkspace
            /\ digest = [g \in Gens |-> None]
            /\ ctr = [g \in Gens |-> "absent"]
       ELSE \E s \in [gen: {1}, plan: Plans, status: {"running", "down"}]:
              /\ state = s
              /\ ws = [mounts |-> Targets[s.plan], ver |-> 0]
              /\ digest = [g \in Gens |-> IF g = 1 THEN ws ELSE None]
              /\ ctr = [g \in Gens |-> IF g > 1 THEN "absent"
                                       ELSE IF s.status = "down" THEN "stopped"
                                       ELSE "running"]

-----------------------------------------------------------------------------
(* Comparison *)

\* transitionAuthority, and state.json where no transition is pending.
Authority(t, s) ==
  IF t = None THEN s ELSE IF t.phase = "commit" THEN t.succ ELSE t.prior

\* workspaceHasOnlyEmptyMounts: nothing but mount roots of the candidate.
OnlyEmptyMounts(w, d) == w.ver = 0 /\ w.mounts \subseteq Targets[d]

\* workspaceMatchesScaffolding: every entry as before, and exactly the
\* candidate's missing mount roots added.
Scaffolded(before, after, d) ==
  after = [before EXCEPT !.mounts = @ \cup Targets[d]]

\* The predecessor's workspace digest: the committed transition's own, or the
\* one recorded for its generation.
Recorded(t, s) ==
  IF s = None THEN None
  ELSE IF t # None /\ t.phase = "commit" THEN t.ws ELSE digest[s.gen]

\* validateComparisonTransition.
WellFormed(t) ==
  /\ t.succ.status = IF t.phase = "commit" THEN "running" ELSE "staging"
  /\ IF t.prior = None THEN t.succ.gen = 1 /\ ~t.wasRunning
     ELSE /\ t.prior.status \in {"running", "down"}
          /\ t.succ.gen = t.prior.gen + 1
          /\ t.wasRunning => t.prior.status = "running"

\* What a generation leaves behind when neither a state nor a transition names
\* one: digests, staged files (directoryHasEntries, validateNewWorldArtifacts)
\* or a history that is not only failures.
Orphans == staging \/ booked \/ \E g \in Gens: digest[g] # None

\* verifyComparisonHistory: a settled world, or one with a predecessor, has
\* records.
HistoryMissing(t, s) == ~booked /\ IF t = None THEN s # None ELSE t.prior # None

Refuses(d, t, s) ==
  \/ t = None /\ s = None /\ (Orphans \/ ~OnlyEmptyMounts(ws, d))
  \/ t # None /\ ~WellFormed(t)
  \/ Authority(t, s) # None /\ Recorded(t, Authority(t, s)) = None
  \/ HistoryMissing(t, s)

\* comparisonPredecessorActive, asked only of a predecessor recorded running.
Active(s) == s # None /\ s.status = "running" /\ ctr[s.gen] = "running"

Mode(d, s) ==
  IF Active(s) THEN "active"
  ELSE IF s = None /\ OnlyEmptyMounts(ws, d) THEN "empty" ELSE "exact"

\* newUpComparison: everything its snapshot digests.
Compare(d, t, s) ==
  LET prior == Authority(t, s)
      mode == Mode(d, prior) IN
  [cand |-> d, tr |-> t, prior |-> prior, mode |-> mode,
   recorded |-> Recorded(t, prior), root |-> IF mode = "exact" THEN ws ELSE None]

\* What is printed of it: plan.Diff, empty without a predecessor or between
\* equal plans, and the line about the workspace.
Changes(c) ==
  IF c.prior = None \/ c.prior.plan = c.cand THEN None ELSE c.prior.plan
Text(c) ==
  <<c.mode, IF c.prior = None THEN 0 ELSE c.prior.gen, c.recorded, c.root>>

-----------------------------------------------------------------------------
(* Control *)

At(p, l) == step[p] = l
InLock(p, o, l) == pc[p] = "locked" /\ op[p] = o /\ At(p, l)
Goto(p, l) == step' = [step EXCEPT ![p] = l]

KeepLocal == UNCHANGED <<cand, seen, shown, active, base>>
KeepOut == UNCHANGED <<lockvars, out>>

\* The command returns what it returns, and its deferred Release runs.
Ends(p, how) ==
  /\ Close(p)
  /\ Goto(p, "end")
  /\ out' = [out EXCEPT ![p] = how]
  /\ UNCHANGED <<op, path, root, inodes, seen, shown, active, base, cand>>

-----------------------------------------------------------------------------
(* Review: runUp up to the confirmation, without the lock *)

CompareRead(p) ==
  /\ pc[p] = "start" /\ op[p] = "up" /\ At(p, "prepare")
  /\ Goto(p, "reading")
  /\ seen' = [seen EXCEPT ![p] = [tr |-> tr, state |-> state]]
  /\ KeepOut
  /\ UNCHANGED <<durable, ws, ctr, cand, shown, active, base, flips>>

CompareObserve(p) ==
  /\ pc[p] = "start" /\ At(p, "reading")
  /\ seen' = [seen EXCEPT ![p] = None]
  /\ IF Refuses(cand[p], seen[p].tr, seen[p].state)
       THEN /\ Close(p) /\ Goto(p, "end")
            /\ out' = [out EXCEPT ![p] = "refused"]
            /\ UNCHANGED shown
       ELSE /\ Goto(p, "asked")
            /\ shown' = [shown EXCEPT ![p] =
                           Compare(cand[p], seen[p].tr, seen[p].state)]
            /\ UNCHANGED <<fd, flock, pc, out>>
  /\ UNCHANGED <<op, path, root, inodes, durable, ws, ctr, cand, active, base, flips>>

\* The operator answers, or had said --yes; without a yes runUp returns.
Confirm(p) ==
  /\ pc[p] = "start" /\ At(p, "asked")
  /\ Goto(p, "agreed")
  /\ KeepOut /\ KeepLocal
  /\ UNCHANGED <<durable, ws, ctr, flips>>

-----------------------------------------------------------------------------
(* UpReviewed under the lock *)

\* Mutant: the reviewed comparison is trusted.
RecheckNot(p) ==
  /\ InLock(p, "up", "agreed")
  /\ Goto(p, "recover") /\ KeepOut /\ KeepLocal
  /\ UNCHANGED <<durable, ws, ctr, flips>>

Recheck(p) ==
  /\ InLock(p, "up", "agreed")
  /\ IF Refuses(cand[p], tr, state) \/ Compare(cand[p], tr, state) # shown[p]
       THEN Ends(p, "refused")
       ELSE Goto(p, "recover") /\ KeepOut /\ KeepLocal
  /\ UNCHANGED <<durable, ws, ctr, flips>>

\* recoverTransition completes a commit whose successor exists, or returns to
\* the predecessor, restarted if it had been running.
Completes ==
  /\ tr.phase = "commit" /\ ctr[tr.succ.gen] # "absent"
  /\ state' = tr.succ /\ tr' = None
  /\ digest' = [digest EXCEPT ![tr.succ.gen] = tr.ws]
  /\ booked' = TRUE
  /\ ctr' = [g \in Gens |-> IF g = tr.succ.gen THEN "running"
                            ELSE IF tr.prior # None /\ g = tr.prior.gen THEN "absent"
                            ELSE ctr[g]]

RollsBack ==
  /\ tr.phase = "rollback"
  /\ tr.wasRunning => ctr[tr.prior.gen] # "absent"
  /\ state' = tr.prior /\ tr' = None
  /\ ctr' = [g \in Gens |-> IF g = tr.succ.gen THEN "absent"
                            ELSE IF tr.wasRunning /\ g = tr.prior.gen THEN "running"
                            ELSE ctr[g]]
  /\ UNCHANGED <<digest, booked>>

AfterRecovery(p) ==
  IF op[p] = "down" THEN "stop"
  ELSE IF shown[p].tr # None THEN "reverify" ELSE "observe"

\* up and down; where recovery cannot establish one authority, a container it
\* needs being gone or a host call failing, the command returns the error and the
\* record stays.
Recover(p) ==
  /\ pc[p] = "locked"
  /\ \/ op[p] = "up" /\ At(p, "recover")
     \/ op[p] = "down" /\ At(p, "prepare")
  /\ \/ /\ tr = None
        /\ Goto(p, AfterRecovery(p)) /\ KeepOut /\ KeepLocal
        /\ UNCHANGED <<state, tr, digest, booked, ctr>>
     \/ /\ tr # None /\ (Completes \/ RollsBack)
        /\ Goto(p, AfterRecovery(p)) /\ KeepOut /\ KeepLocal
     \/ /\ tr # None /\ Ends(p, "failed")
        /\ UNCHANGED <<state, tr, digest, booked, ctr>>
  /\ UNCHANGED <<staging, ws, flips>>

\* After recovery the printed changes and workspace line must come out again.
Reverify(p) ==
  LET c == Compare(cand[p], tr, state) IN
  /\ InLock(p, "up", "reverify")
  /\ IF \/ Refuses(cand[p], tr, state)
        \/ Changes(c) # Changes(shown[p]) \/ Text(c) # Text(shown[p])
       THEN Ends(p, "refused")
       ELSE Goto(p, "observe") /\ KeepOut /\ KeepLocal
  /\ UNCHANGED <<durable, ws, ctr, flips>>

\* The predecessor as podman reports it; the same plan is adopted, a stopped
\* container being started for that first.
Observe(p) ==
  LET runs == state # None /\ ctr[state.gen] = "running"
      mode == shown[p].mode
      adopts == state # None /\ state.plan = cand[p] /\ ctr[state.gen] # "absent" IN
  /\ InLock(p, "up", "observe")
  /\ IF (mode = "active" /\ ~runs) \/ (mode = "exact" /\ runs)
       THEN Ends(p, "refused") /\ UNCHANGED ctr
       ELSE /\ active' = [active EXCEPT ![p] = runs]
            /\ Goto(p, IF adopts THEN "adopt" ELSE "before")
            /\ ctr' = IF adopts THEN [ctr EXCEPT ![state.gen] = "running"] ELSE ctr
            /\ KeepOut /\ UNCHANGED <<cand, seen, shown, base>>
  /\ UNCHANGED <<durable, ws, flips>>

\* adopt's deferred cleanup stops a container that adopt had started.
Unadopted(p) == IF active[p] THEN ctr ELSE [ctr EXCEPT ![state.gen] = "stopped"]

\* adopt records the container as running, or declines one that does not verify;
\* up then replaces it.
Adopt(p) ==
  /\ InLock(p, "up", "adopt")
  /\ \/ /\ state' = [state EXCEPT !.status = "running"] /\ booked' = TRUE
        /\ Ends(p, "adopted")
        /\ UNCHANGED ctr
     \/ /\ Goto(p, "before") /\ KeepOut /\ KeepLocal
        /\ ctr' = Unadopted(p)
        /\ UNCHANGED <<state, booked>>
  /\ UNCHANGED <<tr, digest, staging, ws, flips>>

\* A mount, the door, a service or a write of adopt fails; after WriteState that
\* is the digest's or the history's.  The stop in its cleanup may fail too.
AdoptFails(p) ==
  /\ InLock(p, "up", "adopt")
  /\ state' \in {state, [state EXCEPT !.status = "running"]}
  /\ \/ Ends(p, "failed") /\ ctr' = Unadopted(p)
     \/ Ends(p, "unclean") /\ ~active[p] /\ ctr' \in {ctr, Unadopted(p)}
  /\ UNCHANGED <<tr, digest, staging, booked, ws, flips>>

\* The workspace before staging: still empty, or still the tree reviewed.
Before(p) ==
  LET kept == CASE shown[p].mode = "empty" -> OnlyEmptyMounts(ws, cand[p])
                [] shown[p].mode = "exact" -> ws = shown[p].root
                [] OTHER -> TRUE IN
  /\ InLock(p, "up", "before")
  /\ IF ~kept THEN Ends(p, "refused")
     ELSE /\ base' = [base EXCEPT ![p] = IF shown[p].mode = "active" THEN None ELSE ws]
          /\ Goto(p, "create")
          /\ KeepOut /\ UNCHANGED <<cand, seen, shown, active>>
  /\ UNCHANGED <<durable, ws, ctr, flips>>

NextGeneration == IF state = None THEN 1 ELSE state.gen + 1

\* mounts adds the candidate's missing mount roots; podman refuses the name of
\* a container that an interrupted up left behind.
Create(p) ==
  /\ InLock(p, "up", "create")
  /\ NextGeneration \in Gens
  /\ ws' = [ws EXCEPT !.mounts = @ \cup Targets[cand[p]]]
  /\ IF ctr[NextGeneration] = "absent"
       THEN /\ ctr' = [ctr EXCEPT ![NextGeneration] = "stopped"]
            /\ Goto(p, "materialize") /\ KeepOut /\ KeepLocal
       ELSE Ends(p, "failed") /\ UNCHANGED ctr
  /\ UNCHANGED <<durable, flips>>

\* materialize fills staging/gN and copies it into the container ...
Materialize(p) ==
  /\ InLock(p, "up", "materialize")
  /\ staging' = TRUE
  /\ Goto(p, "record") /\ KeepOut /\ KeepLocal
  /\ UNCHANGED <<state, tr, digest, booked, ws, ctr, flips>>

\* ... ClearStaging empties it, and the rollback record is written.
RecordRollback(p) ==
  /\ InLock(p, "up", "record")
  /\ staging' = FALSE
  /\ tr' = [phase |-> "rollback", prior |-> state, wasRunning |-> active[p],
            succ |-> [gen |-> NextGeneration, plan |-> cand[p], status |-> "staging"],
            ws |-> None]
  /\ Goto(p, "stop") /\ KeepOut /\ KeepLocal
  /\ UNCHANGED <<state, digest, booked, ws, ctr, flips>>

StopPredecessor(p) ==
  /\ InLock(p, "up", "stop")
  /\ ctr' = IF active[p] THEN [ctr EXCEPT ![state.gen] = "stopped"] ELSE ctr
  /\ Goto(p, "capture") /\ KeepOut /\ KeepLocal
  /\ UNCHANGED <<durable, ws, flips>>

\* Mutant: the created container outlives the failed up.
CleanUpKeepsContainer(p) ==
  /\ ctr' = [g \in Gens |->
               IF g = NextGeneration THEN "stopped"
               ELSE IF active[p] /\ tr # None /\ g = state.gen THEN "running"
               ELSE ctr[g]]
  /\ tr' = None /\ staging' = FALSE
  /\ UNCHANGED <<state, booked>>

\* The deferred cleanup of up: the successor goes, a predecessor that was
\* stopped for it runs again, and the record is cleared.
CleanUp(p) ==
  /\ ctr' = [g \in Gens |->
               IF g = NextGeneration THEN "absent"
               ELSE IF active[p] /\ tr # None /\ g = state.gen THEN "running"
               ELSE ctr[g]]
  /\ tr' = None /\ staging' = FALSE
  /\ UNCHANGED <<state, booked>>

\* Calls of that cleanup fail: the others are made, their errors are joined, and
\* the record stays.
CleanUpFails(p) ==
  /\ \E left \in {"absent", "stopped", ctr[NextGeneration]}, restored \in BOOLEAN:
       ctr' = [g \in Gens |->
                 IF g = NextGeneration THEN left
                 ELSE IF restored /\ active[p] /\ tr # None /\ g = state.gen THEN "running"
                 ELSE ctr[g]]
  /\ staging' \in {staging, FALSE}
  /\ UNCHANGED <<state, tr, booked>>

\* The workspace at the cutover must be the one digested before staging plus
\* the candidate's mount roots; that of an active predecessor is what it is.
Capture(p) ==
  /\ InLock(p, "up", "capture")
  /\ IF shown[p].mode = "active" \/ Scaffolded(base[p], ws, cand[p])
       THEN /\ tr' = [tr EXCEPT !.ws = ws]
            /\ Goto(p, "start") /\ KeepOut /\ KeepLocal
            /\ UNCHANGED <<state, staging, booked, ctr>>
       ELSE \/ CleanUp(p) /\ Ends(p, "refused")
            \/ CleanUpFails(p) /\ Ends(p, "unclean")
  /\ UNCHANGED <<digest, ws, flips>>

StartSuccessor(p) ==
  /\ InLock(p, "up", "start")
  /\ ctr' = [ctr EXCEPT ![tr.succ.gen] = "running"]
  /\ Goto(p, "commit") /\ KeepOut /\ KeepLocal
  /\ UNCHANGED <<durable, ws, flips>>

\* Mutant: the record takes the outcome's name for its phase.
CommitApplied(p) ==
  /\ InLock(p, "up", "commit")
  /\ tr' = [tr EXCEPT !.phase = "applied", !.succ.status = "running", !.ws = ws]
  /\ Goto(p, "publish") /\ KeepOut /\ KeepLocal
  /\ UNCHANGED <<state, digest, staging, booked, ws, ctr, flips>>

Commit(p) ==
  /\ InLock(p, "up", "commit")
  /\ tr' = [tr EXCEPT !.phase = "commit", !.succ.status = "running", !.ws = ws]
  /\ Goto(p, "publish") /\ KeepOut /\ KeepLocal
  /\ UNCHANGED <<state, digest, staging, booked, ws, ctr, flips>>

\* The digest, the applied intent, state.json, history, the predecessor's
\* removal and ClearTransition.
Publish(p) ==
  /\ InLock(p, "up", "publish")
  /\ digest' = [digest EXCEPT ![tr.succ.gen] = tr.ws]
  /\ state' = tr.succ /\ tr' = None /\ booked' = TRUE
  /\ ctr' = IF tr.prior = None THEN ctr ELSE [ctr EXCEPT ![tr.prior.gen] = "absent"]
  /\ Ends(p, "applied")
  /\ UNCHANGED <<staging, ws, flips>>

\* A host call of up fails.  Past the commit record that is WriteDigest, or
\* WriteApplied after it; what later failures leave is World's.
UpFails(p) ==
  /\ pc[p] = "locked" /\ op[p] = "up"
  /\ step[p] \in {"materialize", "record", "stop", "capture", "start", "commit",
                 "publish"}
  /\ \/ CleanUp(p) /\ Ends(p, "failed")
     \/ CleanUpFails(p) /\ Ends(p, "unclean")
  /\ digest' \in {digest} \cup
       IF At(p, "publish") THEN {[digest EXCEPT ![tr.succ.gen] = tr.ws]} ELSE {}
  /\ UNCHANGED <<ws, flips>>

-----------------------------------------------------------------------------
(* down and destroy *)

\* down stops only what state.json calls running.
DownStops(p) ==
  /\ InLock(p, "down", "stop")
  /\ IF state = None THEN Ends(p, "failed") /\ UNCHANGED <<state, booked, ctr>>
     ELSE /\ ctr' = IF state.status = "running" /\ ctr[state.gen] = "running"
                      THEN [ctr EXCEPT ![state.gen] = "stopped"] ELSE ctr
          /\ state' = [state EXCEPT !.status = "down"] /\ booked' = TRUE
          /\ Ends(p, "applied")
  /\ UNCHANGED <<tr, digest, staging, ws, flips>>

\* destroyRuntime needs a state or a transition to know the containers.
Destroyable == tr # None \/ state # None

Doomed ==
  {s.gen : s \in (IF tr # None THEN {tr.succ, tr.prior} ELSE {state}) \ {None}}

DestroyRuntime(p) ==
  /\ InLock(p, "destroy", "prepare")
  /\ IF ~Destroyable THEN Ends(p, "failed") /\ UNCHANGED ctr
     ELSE /\ ctr' = [g \in Gens |-> IF g \in Doomed THEN "absent" ELSE ctr[g]]
          /\ Goto(p, "stop") /\ KeepOut /\ KeepLocal
  /\ UNCHANGED <<durable, ws, flips>>

\* The root goes with everything in it.
DestroyRename(p) ==
  /\ op[p] = "destroy" /\ At(p, "stop")
  /\ Rename(p)
  /\ state' = None /\ tr' = None /\ staging' = FALSE /\ booked' = FALSE
  /\ digest' = [g \in Gens |-> None] /\ ws' = NewWorkspace
  /\ UNCHANGED <<ctr, local, flips>>

-----------------------------------------------------------------------------
(* The lock file's own steps, and the surroundings *)

\* up asks for the lock once it is confirmed.
Lock(p) ==
  /\ Ensure(p) \/ Open(p) \/ Flock(p)
  /\ op[p] = "up" => step[p] = "agreed"
  /\ UNCHANGED rvars

\* The command dies, or an observation ends; the kernel drops its lock.
Dies(p) == Release(p) /\ UNCHANGED rvars

Edit ==
  /\ root /\ ws.ver < MaxWs
  /\ ws' = [ws EXCEPT !.ver = @ + 1]
  /\ UNCHANGED <<lockvars, durable, ctr, local, flips>>

Flip(g) ==
  /\ flips > 0 /\ flips' = flips - 1
  /\ \/ ctr[g] = "running" /\ ctr' = [ctr EXCEPT ![g] = "stopped"]
     \/ /\ ctr[g] = "stopped" /\ state # None /\ g = state.gen
        /\ ctr' = [ctr EXCEPT ![g] = "running"]
  /\ UNCHANGED <<lockvars, durable, ws, local>>

UpStep(p) ==
  \/ CompareRead(p) \/ CompareObserve(p) \/ Confirm(p)
  \/ Recheck(p) \/ Reverify(p) \/ Observe(p) \/ Adopt(p) \/ AdoptFails(p)
  \/ Before(p)
  \/ Create(p) \/ Materialize(p) \/ RecordRollback(p) \/ StopPredecessor(p)
  \/ Capture(p) \/ StartSuccessor(p) \/ Commit(p) \/ Publish(p) \/ UpFails(p)

ReviewNext ==
  \/ \E p \in Procs: \/ Lock(p) \/ Dies(p) \/ UpStep(p) \/ Recover(p)
                     \/ DownStops(p) \/ DestroyRuntime(p) \/ DestroyRename(p)
  \/ Edit
  \/ \E g \in Gens: Flip(g)

ReviewSpec == ReviewInit /\ [][ReviewNext]_allvars

-----------------------------------------------------------------------------
(* Properties *)

PlanOf(s) == IF s = None THEN None ELSE s.plan

\* "The reviewed predecessor evidence is revalidated under the world mutation
\* lock", "new and inactive worlds must preserve every reviewed workspace entry
\* exactly": whatever other commands, exits, edits and recoveries came between
\* the question and the cutover, the successor about to start is the candidate
\* shown, it replaces the plan it was shown against, and the workspace handed to
\* it is the one shown, unless a running predecessor was shown, which then ran
\* until this up stopped it.
AppliedAsReviewed ==
  \A p \in Procs:
    pc[p] = "locked" /\ op[p] = "up" /\ step[p] \in {"start", "commit"} =>
      /\ tr # None /\ tr.succ.plan = shown[p].cand
      /\ PlanOf(tr.prior) = PlanOf(shown[p].prior)
      /\ CASE shown[p].mode = "empty" -> OnlyEmptyMounts(tr.ws, cand[p])
           [] shown[p].mode = "exact" -> Scaffolded(shown[p].root, tr.ws, cand[p])
           [] OTHER -> tr.wasRunning

\* A refused or failed up leaves the authority that it found, also where its
\* cleanup fails; one adoption excepted, which fails behind its write of
\* state.json and leaves the generation recorded as running.  Unless the cleanup
\* fails, nothing remains of a successor, a predecessor it had stopped is
\* running, and a container that it had started to adopt is stopped.
RefusalLeavesNoTrace ==
  [][\A p \in Procs:
       out[p] = "none" /\ out'[p] \in {"refused", "failed", "unclean"} /\ op[p] = "up"
         /\ (tr # None => tr.phase = "rollback") =>
           /\ \/ Authority(tr', state') = Authority(tr, state)
              \/ /\ step[p] = "adopt"
                 /\ Authority(tr', state') = [Authority(tr, state) EXCEPT !.status = "running"]
           /\ out'[p] # "unclean" =>
                /\ step[p] = "adopt" /\ ~active[p] => ctr'[state.gen] = "stopped"
                /\ step[p] \in {"materialize", "record", "stop", "capture", "start",
                               "commit"} =>
                     /\ tr' = None /\ ~staging'
                     /\ ctr'[NextGeneration] = "absent"
                     /\ active[p] /\ tr # None => ctr'[state.gen] = "running"]_allvars

\* "After an interrupted `up`, run the same `up` again", "`destroy --yes` remains
\* available without recovery": once no command runs, an up of some plan is not
\* turned away by the evidence an earlier command left, or destroy works.
NotWedged ==
  (\A p \in Procs: pc[p] = "done") =>
    Destroyable \/ \E d \in Plans: ~Refuses(d, tr, state)
=============================================================================
