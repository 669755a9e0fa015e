----------------------------- MODULE JobRuntime -----------------------------
(***************************************************************************)
(* The podman runtime of a governed job: Runtime.Start, process.Wait,      *)
(* process.Finalize and Runtime.Cleanup, each run by a worker goroutine    *)
(* that the executor (module Job) observes but cannot stop, against one    *)
(* container, one target and the podman client attached to it.  Podman and *)
(* the target are external.                                                *)
(*                                                                         *)
(* A call under a context may fail once that context has expired, and      *)
(* before that at the cost of one of the faults the model allows; a call   *)
(* with a deadline of a few seconds of its own may fail at any time.  It   *)
(* may also never return, for no worker's step is fair.                    *)
(***************************************************************************)
EXTENDS Naturals

CONSTANTS
  Net,         \* the declaration allows some destination
  MaxOut,      \* chunks the target writes
  OutLimit,    \* chunks the capture retains
  MaxFaults    \* calls that fail for no deadline's sake

ASSUME JobConstants ==
  Net \in BOOLEAN /\ MaxOut \in Nat /\ OutLimit \in Nat /\ MaxFaults \in Nat

VARIABLES
  ctr,        \* the job's container
  target,     \* the command it was asked to run
  slot,       \* the lifecycle record the helper writes when the target ends
  client,     \* the attached `podman exec`
  clientOk,   \* attached.Wait returned nil
  door,       \* the job's proxy (its inside is module Egress)
  scratch,    \* the scratch directory exists
  named,      \* Runtime.name, scratch and ownerToken are set
  known,      \* Runtime.containerID is set, mayOwn
  proc,       \* Runtime.process: "none", one of admittedFailure, or "live"
  waited,     \* process.waited
  start, wait, fin, clean,     \* where each worker is; "done" when it returned
  waitOut, finOut, cleanOut,   \* what it returned
  dirty,      \* Cleanup has a reason to call itself incomplete
  recorded,   \* it has written the record its namespace helper acts on
  wrote, total, kept, closed,  \* written, seen and retained output; capture
  written,    \* the stream's file: "whole" while every write to it succeeded,
              \* "torn" when it holds a part of one that failed
  expired,    \* contexts that have ended
  faults

host == <<ctr, target, slot, client, clientOk, door, scratch>>
own == <<named, known, proc, waited>>
workers == <<start, wait, fin, clean>>
outcomes == <<waitOut, finOut, cleanOut, dirty, recorded>>
stream == <<wrote, total, kept, closed, written>>
rvars == <<host, own, workers, outcomes, stream, expired, faults>>

Deadlines == {"exec", "final", "clean", "work"}

StartLabels == {"none", "scratch", "stage", "create", "reconcile", "copy",
                "run", "verify", "egress", "exec", "done"}
WaitLabels == {"none", "begun", "select", "control", "late", "done"}
FinLabels == {"none", "begun", "egress", "stop", "inspect", "collect", "done"}
CleanLabels == {"none", "gate", "join", "door", "kill", "client", "adopt",
                "stop", "destroy", "absent", "scratch", "done"}

RuntimeTypeOK ==
  /\ ctr \in {"absent", "created", "running", "stopped"}
  /\ target \in {"none", "running", "ended"}
  /\ client \in {"none", "running", "killed", "ended"}
  /\ slot \in BOOLEAN /\ clientOk \in BOOLEAN /\ scratch \in BOOLEAN
  /\ door \in {"none", "open", "revoked", "joined", "faulty"}
  /\ named \in BOOLEAN /\ known \in BOOLEAN /\ waited \in BOOLEAN
  /\ proc \in {"none", "failed", "live"}
  /\ start \in StartLabels /\ wait \in WaitLabels
  /\ fin \in FinLabels /\ clean \in CleanLabels
  /\ waitOut \in {"none", "exited", "unknown"}
  /\ finOut \in [ok: BOOLEAN, after: BOOLEAN,
                 egress: {"none", "complete", "incomplete"}]
  /\ cleanOut \in {"none", "complete", "incomplete", "present"}
  /\ written \in {"whole", "short", "torn"}
  /\ dirty \in BOOLEAN /\ recorded \in BOOLEAN /\ closed \in BOOLEAN
  /\ wrote \in 0..MaxOut /\ total \in 0..wrote
  /\ kept \in 0..total /\ kept <= OutLimit
  /\ expired \subseteq Deadlines
  /\ faults \in 0..MaxFaults

RuntimeInit ==
  /\ ctr = "absent" /\ target = "none" /\ client = "none" /\ door = "none"
  /\ slot = FALSE /\ clientOk = FALSE /\ scratch = FALSE
  /\ named = FALSE /\ known = FALSE /\ proc = "none" /\ waited = FALSE
  /\ start = "none" /\ wait = "none" /\ fin = "none" /\ clean = "none"
  /\ waitOut = "none"
  /\ finOut = [ok |-> FALSE, after |-> FALSE, egress |-> "none"]
  /\ cleanOut = "none" /\ dirty = FALSE /\ recorded = FALSE
  /\ wrote = 0 /\ total = 0 /\ kept = 0 /\ closed = FALSE
  /\ written = "whole"
  /\ expired = {} /\ faults = MaxFaults

-----------------------------------------------------------------------------
Fault == faults > 0 /\ faults' = faults - 1

\* A call under the context d fails.
Fails(d) == \/ d \in expired /\ UNCHANGED faults
            \/ Fault

\* Stopping the container ends what runs in it.
StopCtr ==
  /\ ctr' = "stopped"
  /\ target' = IF target = "running" THEN "ended" ELSE target

RevokedDoor == IF door = "open" THEN "revoked" ELSE door

KilledClient == IF client = "running" THEN "killed" ELSE client

-----------------------------------------------------------------------------
(* Container, target and client *)

TargetBegin ==
  /\ client \in {"running", "killed"} /\ ctr = "running" /\ target = "none"
  /\ target' = "running"
  /\ UNCHANGED <<ctr, slot, client, clientOk, door, scratch, own, workers,
                 outcomes, stream, expired, faults>>

TargetWrite ==
  /\ target = "running" /\ wrote < MaxOut
  /\ wrote' = wrote + 1
  /\ UNCHANGED <<host, own, workers, outcomes, total, kept, closed, written, expired,
                 faults>>

\* The helper waits for the target and then fills the lifecycle slot.
TargetEnd ==
  /\ target = "running"
  /\ target' = "ended"
  /\ \/ slot' = TRUE /\ UNCHANGED faults
     \/ slot' = FALSE /\ Fault
  /\ UNCHANGED <<ctr, client, clientOk, door, scratch, own, workers, outcomes,
                 stream, expired>>

\* Mutant: the limit is not applied.
CaptureUnlimited ==
  /\ client \in {"running", "killed"} /\ ~closed /\ total < wrote
  /\ total' = total + 1 /\ kept' = kept + 1
  /\ UNCHANGED <<host, own, workers, outcomes, wrote, closed, written, expired,
                 faults>>

\* capture.Write.  A write that fails is counted in the total only, whatever of
\* it reached the file, and it ends the copying.
Capture ==
  /\ client \in {"running", "killed"} /\ ~closed /\ total < wrote
  /\ written = "whole"
  /\ total' = total + 1
  /\ \/ /\ kept' = IF kept < OutLimit THEN kept + 1 ELSE kept
        /\ UNCHANGED <<written, faults>>
     \/ /\ kept < OutLimit /\ Fault
        /\ written' \in {"short", "torn"} /\ UNCHANGED kept
  /\ UNCHANGED <<host, own, workers, outcomes, wrote, closed, expired>>

\* The client ends with the target it is attached to, when its output has been
\* copied; with an error when there is no target to run, when it was killed, when
\* nobody takes its output any more, or for a reason of its own.
ClientEnd ==
  /\ client \in {"running", "killed"} /\ client' = "ended"
  /\ \/ /\ client = "running" /\ target = "ended" /\ total = wrote
        /\ written = "whole"
        /\ clientOk' = slot /\ UNCHANGED faults
     \/ /\ \/ client = "killed" \/ target = "none" \/ written # "whole"
           \/ target = "ended" /\ closed
        /\ clientOk' = FALSE /\ UNCHANGED faults
     \/ clientOk' = FALSE /\ Fault
  /\ UNCHANGED <<ctr, target, slot, door, scratch, own, workers, outcomes,
                 stream, expired>>

External == TargetBegin \/ TargetWrite \/ TargetEnd \/ ClientEnd

-----------------------------------------------------------------------------
(* Runtime.Start *)

\* Arguments, mount paths and the host are refused before anything exists;
\* otherwise a name and a scratch directory are made.
StartScratch ==
  /\ start = "scratch"
  /\ \/ start' = "done" /\ UNCHANGED <<named, scratch>>
     \/ start' = "stage" /\ named' = TRUE /\ scratch' = TRUE
  /\ UNCHANGED <<ctr, target, slot, client, clientOk, door, known, proc, waited,
                 wait, fin, clean, outcomes, stream, expired, faults>>

\* Snapshots, helper, mounts, preflight; refuseBeforeAdmission forgets the name
\* and removes the scratch directory, whose removal may fail.
StartStage ==
  /\ start = "stage"
  /\ \/ start' = "create" /\ UNCHANGED <<named, scratch, faults>>
     \/ /\ start' = "done" /\ named' = FALSE
        /\ \/ scratch' = FALSE /\ UNCHANGED faults
           \/ Fault /\ UNCHANGED scratch
  /\ UNCHANGED <<ctr, target, slot, client, clientOk, door, known, proc, waited,
                 wait, fin, clean, outcomes, stream, expired>>

\* An error leaves it open whether the container was created; an answer that is
\* no container ID leaves a container nobody owns yet.
StartCreate ==
  /\ start = "create"
  /\ \/ /\ start' = "copy" /\ ctr' = "created" /\ known' = TRUE
        /\ UNCHANGED <<proc, waited, faults>>
     \/ /\ start' = "reconcile" /\ ctr' \in {ctr, "created"}
        /\ Fails("exec") /\ UNCHANGED <<known, proc, waited>>
     \/ /\ start' = "done" /\ ctr' = "created" /\ proc' = "failed" /\ waited' = TRUE
        /\ Fault /\ UNCHANGED known
  /\ UNCHANGED <<target, slot, client, clientOk, door, scratch, named, wait, fin,
                 clean, outcomes, stream, expired>>

\* Found under its name and token it is owned, and Start's error is that of an
\* admitted job; otherwise, or when the two seconds of this look pass, Start
\* returns no process.
StartReconcile ==
  /\ start = "reconcile"
  /\ start' = "done"
  /\ \/ ctr # "absent" /\ known' = TRUE /\ proc' = "failed" /\ waited' = TRUE
     \/ UNCHANGED <<known, proc, waited>>
  /\ UNCHANGED <<host, named, wait, fin, clean, outcomes, stream, expired, faults>>

\* admittedFailure
AdmittedFailure ==
  /\ start' = "done" /\ proc' = "failed" /\ waited' = TRUE
  /\ Fails("exec")

Admitted(from, to) ==
  /\ start = from
  /\ start' = to
  /\ UNCHANGED <<proc, waited, faults>>

StartCopy ==
  /\ \/ Admitted("copy", "run")
     \/ start = "copy" /\ AdmittedFailure
  /\ UNCHANGED <<host, named, known, wait, fin, clean, outcomes, stream, expired>>

StartRun ==
  /\ \/ Admitted("run", "verify") /\ ctr' = "running"
     \/ start = "run" /\ AdmittedFailure /\ ctr' \in {ctr, "running"}
  /\ UNCHANGED <<target, slot, client, clientOk, door, scratch, named, known,
                 wait, fin, clean, outcomes, stream, expired>>

StartVerify ==
  /\ \/ Admitted("verify", IF Net THEN "egress" ELSE "exec")
     \/ start = "verify" /\ AdmittedFailure
  /\ UNCHANGED <<host, named, known, wait, fin, clean, outcomes, stream, expired>>

\* startEgress keeps a proxy whose Serve has returned already.
StartEgress ==
  /\ \/ Admitted("egress", "exec") /\ door' = "open"
     \/ start = "egress" /\ AdmittedFailure /\ door' \in {"none", "open"}
  /\ UNCHANGED <<ctr, target, slot, client, clientOk, scratch, named, known,
                 wait, fin, clean, outcomes, stream, expired>>

\* The client is started without the context: an expired deadline does not stop
\* it.
StartExec ==
  /\ \/ /\ start = "exec" /\ start' = "done"
        /\ client' = "running" /\ proc' = "live"
        /\ UNCHANGED <<waited, faults>>
     \/ start = "exec" /\ AdmittedFailure /\ UNCHANGED client
  /\ UNCHANGED <<ctr, target, slot, clientOk, door, scratch, named, known,
                 wait, fin, clean, outcomes, stream, expired>>

Start ==
  \/ StartScratch \/ StartStage \/ StartCreate \/ StartReconcile \/ StartCopy
  \/ StartRun \/ StartVerify \/ StartEgress \/ StartExec

-----------------------------------------------------------------------------
(* process.Wait *)

WaitEnter ==
  /\ wait = "begun" /\ wait' = "select"
  /\ UNCHANGED <<host, own, start, fin, clean, outcomes, stream, expired, faults>>

\* Mutant: a record in the slot is enough, however the client ended.
WaitTerminalSlotOnly ==
  /\ wait = "select" /\ client = "ended"
  /\ wait' = "done" /\ waited' = TRUE /\ door' = RevokedDoor
  /\ \/ waitOut' = (IF slot THEN "exited" ELSE "unknown") /\ UNCHANGED faults
     \/ waitOut' = "unknown" /\ Fault
  /\ UNCHANGED <<ctr, target, slot, client, clientOk, scratch, named, known,
                 proc, start, fin, clean, finOut, cleanOut, dirty, recorded, stream, expired>>

\* recordTerminal: the door is revoked; a client that ended well and a record in
\* the slot prove the end, and nothing else does.
WaitTerminal ==
  /\ wait = "select" /\ client = "ended"
  /\ wait' = "done" /\ waited' = TRUE /\ door' = RevokedDoor
  /\ \/ waitOut' = (IF clientOk /\ slot THEN "exited" ELSE "unknown") /\ UNCHANGED faults
     \/ waitOut' = "unknown" /\ Fault
  /\ UNCHANGED <<ctr, target, slot, client, clientOk, scratch, named, known,
                 proc, start, fin, clean, finOut, cleanOut, dirty, recorded, stream, expired>>

WaitExpired ==
  /\ wait = "select" /\ "exec" \in expired
  /\ wait' = "control" /\ door' = RevokedDoor
  /\ UNCHANGED <<ctr, target, slot, client, clientOk, scratch, own, start, fin,
                 clean, outcomes, stream, expired, faults>>

\* Stop, or kill, a container that is proved to be the job's, within two seconds.
WaitControl ==
  /\ wait = "control" /\ wait' = "late"
  /\ \/ known /\ StopCtr
     \/ UNCHANGED <<ctr, target>>
  /\ UNCHANGED <<slot, client, clientOk, door, scratch, own, start, fin, clean,
                 outcomes, stream, expired, faults>>

\* Two more seconds for the client, which is killed after that.
WaitLate ==
  /\ wait = "late" /\ wait' = "done"
  /\ waited' = TRUE /\ waitOut' = "unknown"
  /\ \/ client = "ended" /\ UNCHANGED client
     \/ client' = KilledClient
  /\ UNCHANGED <<ctr, target, slot, clientOk, door, scratch, named, known, proc,
                 start, fin, clean, finOut, cleanOut, dirty, recorded, stream, expired,
                 faults>>

Wait == WaitEnter \/ WaitTerminal \/ WaitExpired \/ WaitControl \/ WaitLate

-----------------------------------------------------------------------------
(* process.Finalize *)

\* An error with the evidence of egress, if any, that is returned with it.
Failed(e) == [ok |-> FALSE, after |-> FALSE, egress |-> e]

Unproved == Failed("none")

\* Finalize goes on, or returns what it has; nobody receives what it returns past
\* its deadline.
FinTo(from, to, out) ==
  /\ fin = from /\ fin' = to
  /\ finOut' = IF "final" \in expired THEN Unproved ELSE out
  /\ UNCHANGED <<own, start, wait, clean, waitOut, cleanOut, dirty, recorded, stream, expired>>

FinEnter ==
  /\ wait \in {"none", "done"}
  /\ FinTo("begun", IF waited THEN "egress" ELSE "done", Unproved)
  /\ UNCHANGED <<host, faults>>

\* stopEgress revokes and joins; a join cut short is not remembered, and its
\* evidence, itself incomplete, may be returned with the error.
FinEgress ==
  /\ \/ /\ FinTo("egress", "stop", Unproved)
        /\ door' = IF door = "none" THEN door ELSE "joined"
        /\ UNCHANGED faults
     \/ /\ \E e \in {"none", "incomplete"}: FinTo("egress", "done", Failed(e))
        /\ door # "none" /\ Fails("final") /\ door' \in {RevokedDoor, "faulty"}
  /\ UNCHANGED <<ctr, target, slot, client, clientOk, scratch>>

\* The evidence of a door that is joined.
Closing == IF Net THEN "complete" ELSE "none"

\* proveOwned, StopWithin or Kill; the evidence of egress is returned with an
\* ownership that is not proved, and with no other error.
FinStop ==
  /\ \/ FinTo("stop", "inspect", Unproved) /\ known /\ StopCtr /\ UNCHANGED faults
     \/ /\ \E e \in {"none", Closing}: FinTo("stop", "done", Failed(e))
        /\ Fails("final")
        /\ UNCHANGED <<ctr, target>> \/ (known /\ StopCtr)
  /\ UNCHANGED <<slot, client, clientOk, door, scratch>>

\* Stopped, identity, mounts and lifecycle slot as they were.
FinInspect ==
  /\ \/ FinTo("inspect", "collect", Unproved) /\ UNCHANGED faults
     \/ FinTo("inspect", "done", Unproved) /\ Fails("final")
  /\ UNCHANGED host

\* extractArtifacts; its failure keeps the observation and loses the evidence of
\* egress.
FinCollect ==
  /\ \/ /\ FinTo("collect", "done", [ok |-> TRUE, after |-> TRUE, egress |-> Closing])
        /\ UNCHANGED faults
     \/ FinTo("collect", "done", [Unproved EXCEPT !.after = TRUE]) /\ Fails("final")
  /\ UNCHANGED host

Finalize == FinEnter \/ FinEgress \/ FinStop \/ FinInspect \/ FinCollect

-----------------------------------------------------------------------------
(* Runtime.Cleanup, after the gate of cleanupRuntimeAfterStartBounded *)

\* An early return before the door is joined does not claim that it is absent.
\* The locals dirty and recorded end with the call.
CleanTo(from, to, d) ==
  /\ clean = from /\ clean' = to /\ dirty' = (d /\ to # "done")
  /\ cleanOut' = CASE to # "done" -> cleanOut
                   [] to = "done" /\ from \in {"join", "door"} -> "present"
                   [] OTHER -> IF d THEN "incomplete" ELSE "complete"
  /\ UNCHANGED <<named, proc, waited, start, wait, fin, waitOut, finOut, stream,
                 expired>>

\* startDone is closed when Start has returned, or was never called.
CleanGate ==
  /\ start \in {"none", "done"}
  /\ CleanTo("gate", "join", FALSE)
  /\ UNCHANGED <<host, known, recorded, faults>>

\* A worker that was begun and has not returned.
Active(w) == w \notin {"none", "done"}

\* Mutant: Cleanup goes on when the workers do not join.
CleanJoinIgnored ==
  /\ \/ ~Active(wait) /\ ~Active(fin) /\ CleanTo("join", "door", dirty)
     \/ (Active(wait) \/ Active(fin)) /\ "work" \in expired /\ CleanTo("join", "door", TRUE)
  /\ UNCHANGED <<host, known, recorded, faults>>

\* JoinWait and JoinFinalization
CleanJoin ==
  /\ \/ ~Active(wait) /\ ~Active(fin) /\ CleanTo("join", "door", dirty)
     \/ (Active(wait) \/ Active(fin)) /\ "work" \in expired /\ CleanTo("join", "done", TRUE)
  /\ UNCHANGED <<host, known, recorded, faults>>

CleanDoor ==
  /\ \/ /\ door # "faulty" /\ CleanTo("door", "kill", dirty)
        /\ door' = IF door = "none" THEN door ELSE "joined"
        /\ UNCHANGED faults
     \/ /\ door # "none" /\ CleanTo("door", "kill", TRUE) /\ door' = "faulty"
        /\ IF door = "faulty" THEN UNCHANGED faults ELSE Fault
     \/ /\ door \notin {"none", "joined", "faulty"}
        /\ CleanTo("door", "done", TRUE)
        /\ Fails("work") /\ door' = "revoked"
  /\ UNCHANGED <<ctr, target, slot, client, clientOk, scratch, known, recorded>>

\* workspaceCleanupAuthority and persistWorkspaceCleanupAuthority, in the scratch
\* directory: without a container ID or past the deadline there is no record, and
\* the container that is taken over by name below comes too late for it.  The
\* reason is given later, if it is not one of several.
RecordAuthority ==
  \/ recorded' = (known /\ "work" \notin expired) /\ UNCHANGED faults
  \/ recorded' = FALSE /\ known /\ Fault

\* A client nobody has waited for is killed.
CleanKill ==
  /\ \/ /\ RecordAuthority
        /\ CleanTo("kill", "client", dirty \/ (named /\ ~recorded'))
        /\ client' = IF proc = "live" /\ ~waited THEN KilledClient ELSE client
     \/ /\ proc = "live" /\ ~waited /\ client = "running"
        /\ CleanTo("kill", "client", TRUE) /\ Fault /\ UNCHANGED client
        /\ recorded' = (known /\ "work" \notin expired)
  /\ UNCHANGED <<ctr, target, slot, clientOk, door, scratch, known>>

\* Mutant: a client that was killed counts as gone.
CleanClientKilled ==
  /\ CleanTo("client", "adopt", dirty)
  /\ UNCHANGED <<host, known, recorded, faults>>

\* Two seconds for the client to end.
CleanClient ==
  /\ \/ client \in {"none", "ended"} /\ CleanTo("client", "adopt", dirty)
     \/ client \notin {"none", "ended"} /\ CleanTo("client", "adopt", TRUE)
  /\ UNCHANGED <<host, known, recorded, faults>>

\* A container that an unanswered create left behind is taken over by name.
CleanAdopt ==
  /\ CleanTo("adopt", "stop", dirty)
  /\ \/ known' = (known \/ (named /\ ctr # "absent")) /\ UNCHANGED faults
     \/ ~known /\ named /\ ctr # "absent" /\ Fails("work") /\ UNCHANGED known
  /\ UNCHANGED <<host, recorded>>

CleanStop ==
  /\ \/ (~known \/ ctr = "absent") /\ CleanTo("stop", "absent", dirty)
          /\ UNCHANGED <<ctr, target, faults>>
     \/ known /\ ctr \in {"created", "stopped"} /\ CleanTo("stop", "destroy", dirty)
          /\ UNCHANGED <<ctr, target, faults>>
     \/ known /\ ctr = "running" /\ CleanTo("stop", "destroy", dirty)
          /\ StopCtr /\ UNCHANGED faults
     \/ known /\ ctr = "running" /\ CleanTo("stop", "destroy", TRUE)
          /\ StopCtr /\ Fails("work")
     \/ known /\ ctr # "absent" /\ CleanTo("stop", "absent", TRUE) /\ Fails("work")
          /\ UNCHANGED <<ctr, target>>
  /\ UNCHANGED <<slot, client, clientOk, door, scratch, known, recorded>>

\* The record counts only if the stopped container has the mounts it names.
CleanDestroy ==
  /\ \/ /\ CleanTo("destroy", "absent", dirty) /\ ctr' = "absent"
        /\ UNCHANGED <<recorded, faults>>
     \/ /\ CleanTo("destroy", "absent", TRUE) /\ ctr' = "absent"
        /\ recorded' = FALSE /\ Fault
     \/ /\ CleanTo("destroy", "absent", TRUE) /\ ctr' \in {ctr, "absent"}
        /\ Fails("work") /\ UNCHANGED recorded
  /\ UNCHANGED <<target, slot, client, clientOk, door, scratch, known>>

\* Absence is proved by identity; a name without one proves nothing.
CleanAbsent ==
  /\ \/ (~named \/ (known /\ ctr = "absent")) /\ CleanTo("absent", "scratch", dirty)
          /\ UNCHANGED faults
     \/ named /\ (~known \/ ctr # "absent") /\ CleanTo("absent", "done", TRUE)
          /\ UNCHANGED faults
     \/ known /\ CleanTo("absent", "done", TRUE) /\ Fails("work")
  /\ recorded' = (recorded /\ clean' # "done")
  /\ UNCHANGED <<host, known>>

\* PrepareWorkspaceRemovalAfterContainer: once the container is absent the helper
\* empties the workspaces from inside the user namespace, on the word of the
\* record.
Emptied == named => recorded /\ ctr = "absent"

\* Then snapshots, scratch and its root go.
CleanScratch ==
  /\ \/ /\ Emptied /\ CleanTo("scratch", "done", dirty)
        /\ scratch' = (scratch /\ ~named) /\ UNCHANGED faults
     \/ /\ named /\ CleanTo("scratch", "done", TRUE) /\ UNCHANGED scratch
        /\ IF recorded THEN Fails("work") ELSE UNCHANGED faults
  /\ recorded' = FALSE
  /\ UNCHANGED <<ctr, target, slot, client, clientOk, door, known>>

Cleanup ==
  \/ CleanGate \/ CleanJoin \/ CleanDoor \/ CleanKill \/ CleanClient
  \/ CleanAdopt \/ CleanStop \/ CleanDestroy \/ CleanAbsent \/ CleanScratch

Workers == Capture \/ Start \/ Wait \/ Finalize \/ Cleanup
=============================================================================
