-------------------------------- MODULE Job --------------------------------
(***************************************************************************)
(* Executor.Run of internal/job: one governed job from its request to its  *)
(* sealed evidence.  The executor calls the runtime through workers it     *)
(* observes under deadlines of its own, so every step below is either an   *)
(* observation of a worker or the expiry of the deadline it is bounded by; *)
(* the workers (module JobRuntime) go on regardless, also when Run has     *)
(* returned.  That the command's exit stops them is the behaviour in which *)
(* they take no further step.                                              *)
(***************************************************************************)
EXTENDS JobRuntime

VARIABLES
  pc,       \* where Run is
  loc,      \* its locals: process # nil, startErr # nil, admitted, what
            \* finalization yielded, runtimeBefore and runtimeAfter # nil,
            \* egressRaw, cleanupOwned, workers that did not join
  res,      \* the result that is being built
  files,    \* the evidence directory
  entries,  \* the manifest's entries so far
  sealed    \* manifest.json is published

evars == <<pc, loc, res, files, entries, sealed>>
vars == <<rvars, evars>>

Labels == {"prepare", "start", "starting", "identity", "wait", "waiting",
           "joinwait", "finalizing", "collect", "inventory", "cleanjoin",
           "cleaning", "judge", "publish", "close", "seal", "abort",
           "aborting", "returned"}

Reasons == {"RUNTIME_START_FAILED", "RUNTIME_START_OBSERVATION_FAILED",
            "TARGET_OBSERVATION_FAILED", "RUNTIME_OBSERVATION_INVALID",
            "FINALIZATION_FAILED", "ARTIFACT_COLLECTION_FAILED",
            "CLEANUP_INCOMPLETE", "EGRESS_EVIDENCE_MISSING",
            "EGRESS_EVIDENCE_INVALID", "OUTPUT_TRUNCATED"}

Files == {"authority", "inventory", "artifacts", "runtime", "egress",
          "streams", "result"}

TypeOK ==
  /\ RuntimeTypeOK
  /\ pc \in Labels
  /\ loc \in [process: BOOLEAN, startErr: BOOLEAN, admitted: BOOLEAN,
              finalOk: BOOLEAN, before: BOOLEAN, after: BOOLEAN,
              egress: {"none", "complete", "incomplete"}, owned: BOOLEAN,
              unjoined: BOOLEAN]
  /\ res \in [status: {"complete", "incomplete", "refused"},
              target: {"not_started", "unknown", "exited"},
              cleanup: {"none", "complete", "incomplete"},
              proxyAbsent: BOOLEAN,
              reasons: SUBSET Reasons]
  /\ files \subseteq Files /\ entries \subseteq Files
  /\ sealed \in BOOLEAN

Init ==
  /\ RuntimeInit
  /\ pc = "prepare"
  /\ loc = [process |-> FALSE, startErr |-> FALSE, admitted |-> FALSE,
            finalOk |-> FALSE, before |-> FALSE, after |-> FALSE,
            egress |-> "none", owned |-> FALSE, unjoined |-> FALSE]
  /\ res = [status |-> "refused", target |-> "not_started", cleanup |-> "none",
            proxyAbsent |-> FALSE, reasons |-> {"RUNTIME_START_FAILED"}]
  /\ files = {} /\ entries = {} /\ sealed = FALSE

-----------------------------------------------------------------------------
Goto(from, to) == pc = from /\ pc' = to

Incomplete(r, why) ==
  [r EXCEPT !.status = "incomplete", !.reasons = @ \cup why]

\* The result with another word on the target, and on the cleanup.
Decided(r, status, tgt, why) ==
  [r EXCEPT !.status = status, !.target = tgt, !.reasons = why]
Swept(r, cleanup, absent) ==
  [r EXCEPT !.cleanup = cleanup, !.proxyAbsent = absent]

\* evidence.Write: the file may be there although the call failed.
Written(S) == files' = files \cup S /\ entries' = entries \cup S
Unwritten(S) == Fault /\ files' \in {files, files \cup S} /\ UNCHANGED entries

-----------------------------------------------------------------------------
(* Admission *)

\* createEvidence makes a new directory or none; Write and Stream fill it.
Directory == {{}, {"authority"}, {"authority", "streams"}}

\* Until the streams exist an error returns without any cleanup to own.
Prepare ==
  /\ \/ Goto("prepare", "start") /\ files' = {"authority", "streams"}
        /\ entries' = {"authority"} /\ UNCHANGED faults
     \/ Goto("prepare", "returned") /\ Fails("exec") /\ UNCHANGED entries
        /\ files' \in Directory
  /\ UNCHANGED <<host, own, workers, outcomes, stream, expired, loc, res, sealed>>

\* A start that failed: nobody may say any more that the target never ran once
\* the job may have been admitted.
StartFailed(got, adm) ==
  /\ pc' = "inventory"
  /\ loc' = [loc EXCEPT !.process = got, !.startErr = TRUE, !.admitted = adm]
  /\ res' = IF ~adm THEN res
            ELSE Decided(res, "incomplete", "unknown", {"RUNTIME_START_OBSERVATION_FAILED"})

\* startRuntimeBounded; executionStarted is read before it reads the context.
BeginStart ==
  /\ pc = "start"
  /\ \/ /\ "exec" \in expired /\ \E a \in BOOLEAN: StartFailed(FALSE, a)
        /\ UNCHANGED start
     \/ /\ "exec" \notin expired /\ pc' = "starting" /\ start' = "scratch"
        /\ UNCHANGED <<loc, res>>
  /\ UNCHANGED <<host, own, wait, fin, clean, outcomes, stream, expired, faults,
                 files, entries, sealed>>

\* Mutant: a deadline of the caller's is taken for a refusal.
ObserveStartRefused ==
  /\ pc = "starting"
  /\ \/ /\ start = "done"
        /\ IF proc = "live" /\ "exec" \notin expired
             THEN pc' = "identity" /\ loc' = [loc EXCEPT !.process = TRUE]
                  /\ UNCHANGED res
             ELSE StartFailed(proc # "none", proc # "none")
     \/ "exec" \in expired /\ StartFailed(FALSE, FALSE)
  /\ UNCHANGED <<rvars, files, entries, sealed>>

\* Start has returned, or the execution deadline comes first and the process,
\* if there will be one, is nobody's but the cleaner's.  An error of Start's that
\* wraps a timeout of its own also counts as an admission.
ObserveStart ==
  /\ pc = "starting"
  /\ \/ /\ start = "done"
        /\ IF proc = "live" /\ "exec" \notin expired
             THEN pc' = "identity" /\ loc' = [loc EXCEPT !.process = TRUE]
                  /\ UNCHANGED res
             ELSE \E adm \in {proc # "none" \/ "exec" \in expired, TRUE}:
                    StartFailed(proc # "none", adm)
     \/ "exec" \in expired /\ StartFailed(FALSE, TRUE)
  /\ UNCHANGED <<rvars, files, entries, sealed>>

\* identityProcessBounded and validateRuntimeIdentity: the identity comes in time
\* and is that of the declaration, or it counts for nothing.
Identified == "exec" \notin expired /\ UNCHANGED faults

Identity ==
  /\ pc = "identity"
  /\ \/ /\ Identified /\ pc' = "wait"
        /\ loc' = [loc EXCEPT !.before = TRUE] /\ UNCHANGED res
     \/ Fails("exec") /\ StartFailed(TRUE, TRUE)
  /\ UNCHANGED <<host, own, workers, outcomes, stream, expired, files, entries,
                 sealed>>

-----------------------------------------------------------------------------
(* Terminal observation and finalization *)

BeginWait ==
  /\ Goto("wait", "waiting")
  /\ wait' = "begun"
  /\ UNCHANGED <<host, own, start, fin, clean, outcomes, stream, expired, faults,
                 loc, res, files, entries, sealed>>

\* waitProcessBounded, then cancelExecution.
ObserveWait ==
  /\ Goto("waiting", "joinwait")
  /\ \/ /\ wait = "done" /\ waitOut = "exited" /\ "exec" \notin expired
        /\ res' = Decided(res, "complete", "exited", {})
     \/ /\ "exec" \in expired \/ (wait = "done" /\ waitOut = "unknown")
        /\ res' = Decided(res, "incomplete", "unknown", {"TARGET_OBSERVATION_FAILED"})
  /\ expired' = expired \cup {"exec"}
  /\ UNCHANGED <<host, own, workers, outcomes, stream, faults, loc, files,
                 entries, sealed>>

\* Mutant: the executor waits for Wait as long as it takes.
JoinWaitForever ==
  /\ pc = "joinwait" /\ wait = "done" /\ pc' = "finalizing" /\ fin' = "begun"
  /\ UNCHANGED <<host, own, start, wait, clean, outcomes, stream, expired, faults,
                 loc, res, files, entries, sealed>>

JoinWait ==
  /\ pc = "joinwait"
  /\ \/ wait = "done" /\ pc' = "finalizing" /\ fin' = "begun"
     \/ wait # "done" /\ "final" \in expired /\ pc' = "collect" /\ UNCHANGED fin
  /\ UNCHANGED <<host, own, start, wait, clean, outcomes, stream, expired, faults,
                 loc, res, files, entries, sealed>>

\* finalizeProcessBounded: what comes after the deadline is dropped, and what is
\* received is in the locals from here on.
ObserveFinal ==
  /\ Goto("finalizing", "collect")
  /\ \/ /\ fin = "done" /\ "final" \notin expired
        /\ loc' = [loc EXCEPT !.finalOk = finOut.ok, !.after = finOut.after,
                             !.egress = finOut.egress]
     \/ "final" \in expired /\ UNCHANGED loc
  /\ finOut' = Unproved
  /\ UNCHANGED <<host, own, workers, waitOut, cleanOut, dirty, recorded, stream,
                 expired, faults, res, files, entries, sealed>>

\* WriteArtifacts failed: the artifacts' entries are dropped and their files
\* removed, which may fail too.
DropArtifacts ==
  /\ entries' = entries \cup {"inventory"}
  /\ \E left \in {{}, {"artifacts"}}: files' = files \cup {"inventory"} \cup left

\* The observations are held against the declaration, and one that does not hold
\* takes both; artifacts are copied if finalization succeeded, the inventory is
\* written; then cancelFinalize.
Collect ==
  /\ pc = "collect"
  /\ expired' = expired \cup {"final"}
  /\ \/ /\ loc.finalOk /\ pc' = "cleanjoin"
        /\ Written({"artifacts", "inventory"}) /\ UNCHANGED <<loc, res, faults>>
     \/ /\ loc.finalOk /\ pc' = "cleanjoin" /\ Fails("final")
        /\ res' = Incomplete(res, {"ARTIFACT_COLLECTION_FAILED"})
        /\ DropArtifacts /\ UNCHANGED loc
     \/ /\ ~loc.finalOk /\ pc' = "cleanjoin"
        /\ res' = Incomplete(res, {"FINALIZATION_FAILED"})
        /\ Written({"inventory"}) /\ UNCHANGED <<loc, faults>>
     \/ /\ Fault /\ pc' = "cleanjoin"
        /\ res' = Incomplete(res, {"RUNTIME_OBSERVATION_INVALID", "FINALIZATION_FAILED"})
        /\ loc' = [loc EXCEPT !.before = FALSE, !.after = FALSE]
        /\ Written({"inventory"})
     \/ pc' = "abort" /\ Unwritten({"inventory"}) /\ UNCHANGED <<loc, res>>
  /\ UNCHANGED <<host, own, workers, outcomes, stream, sealed>>

\* After a failed start: cancelExecution, and an empty inventory.
Inventory ==
  /\ expired' = expired \cup {"exec"}
  /\ \/ Goto("inventory", "cleanjoin") /\ Written({"inventory"}) /\ UNCHANGED faults
     \/ Goto("inventory", "abort") /\ Unwritten({"inventory"})
  /\ UNCHANGED <<host, own, workers, outcomes, stream, loc, res, sealed>>

-----------------------------------------------------------------------------
(* Cleanup *)

Joined == ~Active(wait) /\ ~Active(fin)

\* cleanupRuntimeAfterStartBounded spawns the one cleaner.
SpawnCleaner(from, to) ==
  /\ Goto(from, to)
  /\ clean' = "gate"
  /\ loc' = [loc EXCEPT !.owned = TRUE]
  /\ UNCHANGED <<host, own, start, wait, fin, outcomes, stream, expired, faults,
                 res, files, entries, sealed>>

\* A worker that does not join in time is left alone, and so is the container.
BeginCleanup ==
  \/ (loc.process => Joined) /\ SpawnCleaner("cleanjoin", "cleaning")
  \/ /\ Goto("cleanjoin", "judge")
     /\ loc.process /\ ~Joined /\ "clean" \in expired
     /\ loc' = [loc EXCEPT !.owned = TRUE, !.unjoined = TRUE]
     /\ res' = Swept(Incomplete(res, {"CLEANUP_INCOMPLETE"}), "incomplete", FALSE)
     /\ UNCHANGED <<rvars, files, entries, sealed>>

\* The cleaner reports within its own deadline, or the observer's passes and with
\* it what the cleaner had proved; then cancelCleanup.
ObserveCleanup ==
  /\ Goto("cleaning", "judge")
  /\ \/ /\ clean = "done" /\ "work" \notin expired /\ cleanOut = "complete"
        /\ res' = Swept(res, "complete", TRUE)
     \/ /\ clean = "done" /\ "work" \notin expired /\ cleanOut # "complete"
        /\ res' = Swept(Incomplete(res, {"CLEANUP_INCOMPLETE"}), "incomplete",
                        cleanOut = "incomplete")
     \/ /\ expired \cap {"work", "clean"} # {}
        /\ res' = Swept(Incomplete(res, {"CLEANUP_INCOMPLETE"}), "incomplete", FALSE)
  /\ expired' = expired \cup {"clean"}
  /\ UNCHANGED <<host, own, workers, outcomes, stream, faults, loc, files, entries,
                 sealed>>

\* Mutant: an error return leaves what was started.
AbortAtOnce ==
  /\ Goto("abort", "returned")
  /\ UNCHANGED <<rvars, loc, res, files, entries, sealed>>

\* Deferred: an error return before cleanup was begun still begins it.
Abort ==
  \/ loc.owned /\ Goto("abort", "returned")
     /\ UNCHANGED <<rvars, loc, res, files, entries, sealed>>
  \/ ~loc.owned /\ SpawnCleaner("abort", "aborting")

Aborting ==
  /\ Goto("aborting", "returned")
  /\ clean = "done" \/ expired \cap {"work", "clean"} # {}
  /\ expired' = expired \cup {"clean"}
  /\ UNCHANGED <<host, own, workers, outcomes, stream, faults, loc, res, files,
                 entries, sealed>>

-----------------------------------------------------------------------------
(* Judgement and publication *)

\* A failed start has the last word if nothing is left.
Judged(r) ==
  IF ~loc.startErr \/ r.cleanup # "complete" THEN r
  ELSE IF loc.admitted
    THEN Decided(r, "incomplete", "unknown", {"RUNTIME_START_OBSERVATION_FAILED"})
    ELSE Decided(r, "refused", r.target, {"RUNTIME_START_FAILED"})

\* verifyEgressEvidence, for the evidence of egress e and a result r: what the two
\* say of each other, next to identities and times that agree.
EgressHolds(e, r) ==
  /\ loc.before
  /\ r.status = "complete" => e = "complete"
  /\ e = "complete" => r.proxyAbsent

\* Mutant: evidence of egress is not held against the cleanup.
JudgeEgressAlone ==
  /\ Goto("judge", "publish")
  /\ \/ /\ Net => loc.egress # "none"
        /\ res' = Judged(res) /\ UNCHANGED <<loc, faults>>
     \/ /\ Net /\ loc.egress = "none"
        /\ res' = Judged(Incomplete(res, {"EGRESS_EVIDENCE_MISSING"}))
        /\ UNCHANGED <<loc, faults>>
  /\ UNCHANGED <<host, own, workers, outcomes, stream, expired, files, entries,
                 sealed>>

\* Egress evidence that is missing or does not hold; what does not hold is not
\* published.
Judge ==
  /\ Goto("judge", "publish")
  /\ \/ /\ Net => loc.egress # "none" /\ EgressHolds(loc.egress, res)
        /\ res' = Judged(res) /\ UNCHANGED <<loc, faults>>
     \/ /\ Net /\ loc.egress = "none"
        /\ res' = Judged(Incomplete(res, {"EGRESS_EVIDENCE_MISSING"}))
        /\ UNCHANGED <<loc, faults>>
     \/ /\ Net /\ loc.egress # "none"
        /\ IF EgressHolds(loc.egress, res) THEN Fault ELSE UNCHANGED faults
        /\ res' = Judged(Incomplete(res, {"EGRESS_EVIDENCE_INVALID"}))
        /\ loc' = [loc EXCEPT !.egress = "none"]
  /\ UNCHANGED <<host, own, workers, outcomes, stream, expired, files, entries,
                 sealed>>

Observations == {"runtime"} \cup (IF loc.egress # "none" THEN {"egress"} ELSE {})

Publish ==
  /\ \/ Goto("publish", "close") /\ Written(Observations) /\ UNCHANGED faults
     \/ Goto("publish", "abort") /\ Unwritten(Observations)
  /\ UNCHANGED <<host, own, workers, outcomes, stream, expired, loc, res, sealed>>

\* capture.CloseResult: whatever is written from here on is refused.
CloseResult == closed' = TRUE /\ entries' = entries \cup {"streams"}

CloseStreams ==
  /\ \/ /\ Goto("close", "seal") /\ CloseResult
        /\ res' = IF kept < total THEN Incomplete(res, {"OUTPUT_TRUNCATED"}) ELSE res
        /\ UNCHANGED faults
     \/ Goto("close", "abort") /\ Fault /\ closed' = TRUE /\ UNCHANGED <<entries, res>>
  /\ UNCHANGED <<host, own, workers, outcomes, wrote, total, kept, written, expired, loc,
                 files, sealed>>

\* validateExecutionIdentity: only a job that was observed before it ran has one.
ValidIdentity(r) == r.status = "complete" => loc.before

\* validateStream: what was cut off is the difference of what was seen and kept.
ValidStream(r) == r.status = "complete" => kept = total

\* validateCleanup
ValidCleanup(r) ==
  r.cleanup # "none" /\ (r.cleanup = "complete" => r.proxyAbsent)

\* ValidateResult
Valid(r) ==
  /\ ValidIdentity(r) /\ ValidStream(r) /\ ValidCleanup(r)
  /\ CASE r.status = "complete" ->
            r.reasons = {} /\ r.target = "exited" /\ r.cleanup = "complete"
       [] r.status = "incomplete" -> r.reasons # {}
       [] OTHER ->
            r.reasons # {} /\ r.target = "not_started" /\ r.cleanup = "complete"

\* The files a manifest may not omit, the streams and the two observations taken
\* as one file each.
Required == {"authority", "streams", "runtime", "result"}

\* ValidateManifest
ValidManifest(E) == Required \subseteq E

\* evidenceWriter.Seal: manifest.json is the last file and an error may come after
\* it is there; the directories are synced before it.
Published ==
  /\ Valid(res) /\ ValidManifest(entries \cup {"result"})
  /\ Written({"result"}) /\ sealed' = TRUE

Unpublished ==
  /\ IF Valid(res) THEN Fault ELSE UNCHANGED faults
  /\ files' \in {files, files \cup {"result"}} /\ UNCHANGED <<entries, sealed>>

Seal ==
  /\ \/ Goto("seal", "returned") /\ Published /\ UNCHANGED faults
     \/ Goto("seal", "abort") /\ Published /\ Fault
     \/ Goto("seal", "abort") /\ Unpublished
  /\ UNCHANGED <<host, own, workers, outcomes, stream, expired, loc, res>>

Run ==
  \/ Prepare \/ BeginStart \/ ObserveStart \/ Identity \/ BeginWait
  \/ ObserveWait \/ JoinWait \/ ObserveFinal \/ Collect \/ Inventory
  \/ BeginCleanup \/ ObserveCleanup \/ Judge \/ Publish \/ CloseStreams \/ Seal
  \/ Abort \/ Aborting

-----------------------------------------------------------------------------
\* The contexts that exist and have not ended.
Pending ==
  (IF pc # "returned" THEN {"exec"} ELSE {})
    \cup (IF pc \in {"joinwait", "finalizing", "collect"} THEN {"final"} ELSE {})
    \cup (IF pc \in {"cleanjoin", "cleaning", "aborting"} THEN {"clean"} ELSE {})
    \cup (IF clean \notin {"none", "gate", "done"} THEN {"work"} ELSE {})

\* A deadline passes; that of execution also when the caller cancels.
Expire(d) ==
  /\ d \in Pending \ expired
  /\ expired' = expired \cup {d}
  /\ UNCHANGED <<host, own, workers, outcomes, stream, faults, evars>>

Next ==
  \/ Run
  \/ (Workers \/ External) /\ UNCHANGED evars
  \/ \E d \in Deadlines: Expire(d)

Spec == Init /\ [][Next]_vars

\* Run goes on when it can and time passes; no worker, no container and no
\* target owes anything.
FairSpec == Spec /\ WF_vars(Run) /\ WF_vars(\E d \in Deadlines: Expire(d))

-----------------------------------------------------------------------------
(* Properties *)

\* A sealed "complete" is the truth and stays it: the target ran and ended by
\* itself, everything it wrote is in the evidence, no worker is left, and
\* container, proxy, client and scratch are gone.
CompleteIsTrue ==
  sealed /\ res.status = "complete" =>
    /\ target = "ended" /\ slot /\ kept = wrote
    /\ {start, wait, fin, clean} = {"done"}
    /\ ctr = "absent" /\ client = "ended" /\ ~scratch
    /\ door = IF Net THEN "joined" ELSE "none"

\* "not_started" is the truth and stays it: no late Start brings the target to
\* life behind a sealed result.
NotStartedIsTrue ==
  sealed /\ res.target = "not_started" =>
    target = "none" /\ client = "none" /\ start \in {"none", "done"}

\* A cleanup that is sealed as complete has left nothing of the job, whatever
\* became of the job itself and however late its workers were; a scratch
\* directory only where a refused Start could not remove it.
CleanupIsTrue ==
  sealed /\ res.cleanup = "complete" =>
    /\ ctr = "absent" /\ target # "running" /\ client \in {"none", "ended"}
    /\ door \in {"none", "joined"} /\ (scratch => ~named)

\* Cleanup works alone: from its first change on Start, Wait and Finalize have
\* returned.
CleanupIsExclusive ==
  clean \notin {"none", "gate", "join", "done"} =>
    ~Active(start) /\ ~Active(wait) /\ ~Active(fin)

\* "not skipped by later publication or artifact failures": once Start has been
\* called Run does not return without a cleaner, unless a worker of the job did
\* not join.
CleanupNotSkipped ==
  pc = "returned" /\ start # "none" => clean # "none" \/ loc.unjoined

\* "A provider that ignores its context cannot make the caller wait without
\* bound."
RunReturns == <>(pc = "returned")
=============================================================================
