----------------------------- MODULE JobProofs -----------------------------
(***************************************************************************)
(* For any limit on output, with and without a network, and for any number *)
(* of failing calls and deadlines: what Executor.Run seals is the truth,   *)
(* and is what the offline verifier accepts.                               *)
(*                                                                         *)
(* The invariant follows Run's program counter.  Its first part says what  *)
(* the workers may be doing and what exists on the host at each point, the *)
(* second what the result and the evidence say by then.  The counter only  *)
(* moves forward, and no label holds it once every context has ended.      *)
(***************************************************************************)
EXTENDS Verify, TLAPS

Early == {"prepare", "start", "starting", "identity", "wait", "waiting"}
Observing == {"joinwait", "finalizing", "collect"}
Ending == {"cleanjoin", "cleaning", "judge", "publish", "close", "seal"}

\* Which workers Run has begun, and who owns the cleanup.
Phases ==
  /\ pc \in {"prepare", "start"} => start = "none"
  /\ pc \in {"prepare", "start", "starting", "identity", "wait"} => wait = "none"
  /\ pc \in Early \cup {"joinwait"} => fin = "none"
  /\ pc \in Early \cup Observing \cup {"inventory", "cleanjoin"} => clean = "none"
  /\ pc \in {"identity", "wait", "waiting"} \cup Observing => proc = "live" /\ start = "done"
  /\ clean # "none" \/ loc.unjoined <=> loc.owned
  /\ pc \in Ending \ {"cleanjoin"} => loc.owned
  /\ pc = "aborting" => loc.owned
  /\ pc = "returned" => loc.owned \/ start = "none"

\* Workers that need one another: Wait a started process, Finalize what Wait has
\* left, and Cleanup that Start, Wait and Finalize have returned.
Exclusive ==
  /\ wait # "none" \/ fin # "none" => start = "done" /\ proc = "live"
  /\ clean \notin {"none", "gate"} => ~Active(start)
  /\ CleanupIsExclusive

\* How far Start has come, in what exists and in what Runtime knows of it.
Started ==
  /\ start \in {"none", "scratch"} => ~named /\ ~scratch
  /\ start \in {"none", "scratch", "stage", "create"} => ctr = "absent"
  /\ Active(start) /\ start # "scratch" => named
  /\ start \in {"copy", "run", "verify", "egress", "exec"} => known
  /\ ctr # "absent" => named
  /\ start # "done" => proc = "none" /\ client = "none"
  /\ proc = "live" => named /\ known /\ (Net => door # "none")
  /\ client # "none" => proc = "live"
  /\ start \notin {"exec", "done"} => door = "none"
  /\ start = "exec" /\ Net => door # "none"
  /\ start = "egress" \/ door # "none" => Net

\* The target's end is proved by its record and by a client that ended well.
Observed ==
  /\ target # "none" => client # "none"
  /\ target = "running" => ctr = "running"
  /\ slot => target = "ended"
  /\ clientOk => client = "ended" /\ target = "ended" /\ slot /\ total = wrote
  /\ waitOut = "exited" => clientOk /\ wait = "done"
  /\ finOut.ok => finOut.after
  /\ finOut.egress # "none" => Net
  /\ finOut.ok \/ finOut.after => fin = "done"

\* How far Cleanup has come, while it has no reason to call itself incomplete.
Cleaned ==
  /\ clean = "destroy" => ctr # "running"
  /\ clean \in {"kill", "client", "adopt", "stop", "destroy", "absent", "scratch"} /\ ~dirty =>
       door \in {"none", "joined"}
  /\ clean \in {"adopt", "stop", "destroy", "absent", "scratch"} /\ ~dirty =>
       client \in {"none", "ended"}
  /\ clean = "scratch" => ctr = "absent"
  /\ cleanOut # "none" => clean = "done"
  /\ cleanOut = "complete" =>
       /\ ~Active(wait) /\ ~Active(fin)
       /\ ctr = "absent" /\ client \in {"none", "ended"}
       /\ door \in {"none", "joined"} /\ (scratch => ~named)

RuntimeInv == Phases /\ Exclusive /\ Started /\ Observed /\ Cleaned

-----------------------------------------------------------------------------
StartFailures == {"RUNTIME_START_FAILED", "RUNTIME_START_OBSERVATION_FAILED"}

\* What Run's locals say once it has got so far.
Locals ==
  /\ pc \in Early \cup {"joinwait", "finalizing"} =>
       ~loc.startErr /\ ~loc.after /\ ~loc.finalOk /\ loc.egress = "none"
  /\ pc \in {"prepare", "start", "starting", "identity"} => ~loc.before
  /\ pc \in {"wait", "waiting"} \cup Observing => loc.before /\ ~loc.startErr
  /\ loc.startErr => /\ ~loc.before /\ ~loc.after /\ ~loc.finalOk /\ loc.egress = "none"
                     /\ res.reasons \cap StartFailures # {}
                     /\ ~loc.admitted => res.target = "not_started"
  /\ pc = "inventory" => loc.startErr
  /\ pc = "collect" /\ loc.finalOk => loc.after /\ fin = "done"
  /\ loc.egress # "none" => Net
  /\ pc \in Ending /\ ~loc.startErr =>
       /\ loc.before \/ (~loc.after /\ "RUNTIME_OBSERVATION_INVALID" \in res.reasons)
       /\ loc.after \/ "FINALIZATION_FAILED" \in res.reasons \/ ~loc.before

\* The result that is being built.
Building ==
  /\ pc \in Early => res.status = "refused" /\ res.reasons = {"RUNTIME_START_FAILED"}
  /\ res.target = "not_started" /\ pc \notin Early => ~Active(start) /\ proc = "none"
  /\ res.status = "refused" => res.target = "not_started" /\ res.reasons # {}
  /\ res.status = "incomplete" => res.reasons # {}
  /\ res.status = "complete" =>
       /\ res.reasons = {} /\ res.target = "exited" /\ waitOut = "exited"
       /\ loc.before /\ ~loc.startErr /\ start = "done" /\ proc = "live"
       /\ pc \in Ending => loc.after /\ fin = "done"
  /\ res.cleanup = "complete" => cleanOut = "complete" /\ res.proxyAbsent
  /\ pc \in {"judge", "publish", "close", "seal"} =>
       /\ res.cleanup # "none"
       /\ res.status = "complete" => res.cleanup = "complete"
       /\ res.status = "refused" => res.cleanup = "complete"
  /\ pc \in {"publish", "close", "seal"} =>
       IF loc.egress = "none" THEN Net => res.status # "complete"
       ELSE EgressHolds(loc.egress, res)
  /\ pc = "seal" /\ res.status = "complete" => kept = total

\* The evidence directory and the manifest; artifacts of a failed collection may
\* be left in the first.
Filed ==
  /\ pc \in {"start", "starting", "identity", "wait", "waiting", "inventory"} \cup Observing =>
       files = {"authority", "streams"} /\ entries = {"authority"}
  /\ pc \in Ending =>
       /\ {"authority", "inventory"} \subseteq entries
       /\ \/ files = entries \cup {"streams"}
          \/ /\ files = entries \cup {"streams", "artifacts"}
             /\ "ARTIFACT_COLLECTION_FAILED" \in res.reasons /\ ~loc.startErr
  /\ pc \in {"cleanjoin", "cleaning", "judge", "publish"} => "egress" \notin entries
  /\ pc \in {"close", "seal"} => "runtime" \in entries
       /\ ("egress" \in entries <=> loc.egress # "none")
  /\ pc = "seal" => "streams" \in entries /\ closed

\* What is sealed is what the verifier accepts, and Run is done with it.
SealedInv ==
  sealed =>
    /\ pc \in {"abort", "returned"} /\ closed /\ loc.owned
    /\ Valid(res) /\ ValidManifest(entries) /\ "inventory" \in entries
    /\ files = entries \/ Leftover
    /\ VerifyRetainedRuntimeEvidence /\ VerifyEgress
    /\ res.status = "complete" => fin = "done"

ResultInv == Locals /\ Building /\ Filed /\ SealedInv

JobInv == TypeOK /\ RuntimeInv /\ ResultInv

-----------------------------------------------------------------------------
(* Types *)

Counts ==
  /\ wrote \in 0..MaxOut /\ total \in 0..wrote
  /\ kept \in 0..total /\ kept <= OutLimit
  /\ faults \in 0..MaxFaults

Flags ==
  /\ slot \in BOOLEAN /\ clientOk \in BOOLEAN /\ scratch \in BOOLEAN
  /\ named \in BOOLEAN /\ known \in BOOLEAN /\ waited \in BOOLEAN
  /\ dirty \in BOOLEAN /\ recorded \in BOOLEAN /\ closed \in BOOLEAN

FinOuts == [ok: BOOLEAN, after: BOOLEAN, egress: {"none", "complete", "incomplete"}]

Marks ==
  /\ ctr \in {"absent", "created", "running", "stopped"}
  /\ target \in {"none", "running", "ended"}
  /\ client \in {"none", "running", "killed", "ended"}
  /\ door \in {"none", "open", "revoked", "joined", "faulty"}
  /\ proc \in {"none", "failed", "live"}
  /\ start \in StartLabels /\ wait \in WaitLabels
  /\ fin \in FinLabels /\ clean \in CleanLabels
  /\ waitOut \in {"none", "exited", "unknown"}
  /\ finOut \in FinOuts
  /\ cleanOut \in {"none", "complete", "incomplete", "present"}
  /\ written \in {"whole", "short", "torn"}
  /\ expired \subseteq Deadlines

\* The type invariant of the runtime has these three parts.
LEMMA TypeParts == ASSUME Marks', Flags', Counts' PROVE RuntimeTypeOK'
BY DEF RuntimeTypeOK, Marks, Flags, Counts, FinOuts

\* Container, target and client keeps every type.
LEMMA ExternalType == ASSUME RuntimeTypeOK, External PROVE RuntimeTypeOK'
<1> USE DEF External, TargetBegin, TargetWrite, TargetEnd, ClientEnd,
            Fault, host, own, workers, outcomes, stream
<1>1. Flags'
  <2>1. CASE TargetBegin BY <2>1 DEF RuntimeTypeOK, Flags
  <2>2. CASE TargetWrite BY <2>2 DEF RuntimeTypeOK, Flags
  <2>3. CASE TargetEnd BY <2>3 DEF RuntimeTypeOK, Flags
  <2>4. CASE ClientEnd BY <2>4 DEF RuntimeTypeOK, Flags
  <2> QED BY <2>1, <2>2, <2>3, <2>4
<1>2. Marks' BY DEF RuntimeTypeOK, Marks, FinOuts
<1>3. Counts' BY JobConstants DEF RuntimeTypeOK, Counts
<1> QED BY <1>1, <1>2, <1>3, TypeParts

\* Start keeps every type.
LEMMA StartType == ASSUME RuntimeTypeOK, Start PROVE RuntimeTypeOK'
<1> USE DEF Start, StartScratch, StartStage, StartCreate, StartReconcile, StartCopy,
            StartRun, StartVerify, StartEgress, StartExec,
            Admitted, AdmittedFailure, Fails, Fault, StartLabels, host, own, workers,
            outcomes, stream
<1>1. Flags' BY DEF RuntimeTypeOK, Flags
<1>2. Marks' BY DEF RuntimeTypeOK, Marks, FinOuts
<1>3. Counts' BY JobConstants DEF RuntimeTypeOK, Counts
<1> QED BY <1>1, <1>2, <1>3, TypeParts

\* Wait keeps every type.
LEMMA WaitType == ASSUME RuntimeTypeOK, Wait PROVE RuntimeTypeOK'
<1> USE DEF Wait, WaitEnter, WaitTerminal, WaitExpired, WaitControl, WaitLate,
            Fault, RevokedDoor, StopCtr, KilledClient, WaitLabels, host, own, workers,
            outcomes, stream
<1>1. Flags' BY DEF RuntimeTypeOK, Flags
<1>2. Marks' BY DEF RuntimeTypeOK, Marks, FinOuts
<1>3. Counts' BY JobConstants DEF RuntimeTypeOK, Counts
<1> QED BY <1>1, <1>2, <1>3, TypeParts

\* Finalize keeps every type.
LEMMA FinalizeType == ASSUME RuntimeTypeOK, Finalize PROVE RuntimeTypeOK'
<1> USE DEF Finalize, FinEnter, FinEgress, FinStop, FinInspect, FinCollect,
            FinTo, Unproved, Failed, Closing, Fails, Fault, RevokedDoor, StopCtr,
            FinLabels, host, own, workers, outcomes, stream
<1>1. Flags' BY DEF RuntimeTypeOK, Flags
<1>a. finOut' \in FinOuts
  <2>1. ASSUME NEW from, NEW to, NEW out \in FinOuts, FinTo(from, to, out)
        PROVE  finOut' \in FinOuts
    BY <2>1 DEF FinOuts
  <2>2. \A e \in {"none", "incomplete", Closing}: Failed(e) \in FinOuts BY DEF FinOuts
  <2>3. /\ Unproved \in FinOuts
        /\ [ok |-> TRUE, after |-> TRUE, egress |-> Closing] \in FinOuts
        /\ [Unproved EXCEPT !.after = TRUE] \in FinOuts
    BY DEF FinOuts
  <2> HIDE DEF FinTo, Failed, Unproved, Closing, Fails
  <2> QED BY <2>1, <2>2, <2>3
<1>b. finOut' \in FinOuts => Marks'
  <2> HIDE DEF Closing, Unproved, Failed
  <2>1. CASE FinEnter BY <2>1 DEF RuntimeTypeOK, Marks, FinOuts
  <2>2. CASE FinEgress BY <2>2 DEF RuntimeTypeOK, Marks, FinOuts
  <2>3. CASE FinStop BY <2>3 DEF RuntimeTypeOK, Marks, FinOuts
  <2>4. CASE FinInspect BY <2>4 DEF RuntimeTypeOK, Marks, FinOuts
  <2>5. CASE FinCollect BY <2>5 DEF RuntimeTypeOK, Marks, FinOuts
  <2> QED BY <2>1, <2>2, <2>3, <2>4, <2>5
<1>2. Marks' BY <1>a, <1>b
<1>3. Counts' BY JobConstants DEF RuntimeTypeOK, Counts
<1> QED BY <1>1, <1>2, <1>3, TypeParts

\* Cleanup keeps every type.
LEMMA CleanupType == ASSUME RuntimeTypeOK, Cleanup PROVE RuntimeTypeOK'
<1> USE DEF Cleanup, CleanGate, CleanJoin, CleanDoor, CleanKill, CleanClient, CleanAdopt,
            CleanStop, CleanDestroy, CleanAbsent, CleanScratch,
            CleanTo, RecordAuthority, KilledClient, StopCtr, Fails, Fault, CleanLabels,
            host, own, workers, outcomes, stream
<1>1. Flags'
  <2>1. CASE CleanGate BY <2>1 DEF RuntimeTypeOK, Flags
  <2>2. CASE CleanJoin BY <2>2 DEF RuntimeTypeOK, Flags
  <2>3. CASE CleanDoor BY <2>3 DEF RuntimeTypeOK, Flags
  <2>4. CASE CleanKill BY <2>4 DEF RuntimeTypeOK, Flags
  <2>5. CASE CleanClient BY <2>5 DEF RuntimeTypeOK, Flags
  <2>6. CASE CleanAdopt BY <2>6 DEF RuntimeTypeOK, Flags
  <2>7. CASE CleanStop BY <2>7 DEF RuntimeTypeOK, Flags
  <2>8. CASE CleanDestroy BY <2>8 DEF RuntimeTypeOK, Flags
  <2>9. CASE CleanAbsent BY <2>9 DEF RuntimeTypeOK, Flags
  <2>10. CASE CleanScratch
    <3>1. dirty' \in BOOLEAN /\ recorded' \in BOOLEAN BY <2>10 DEF RuntimeTypeOK
    <3>2. scratch' \in BOOLEAN BY <2>10 DEF RuntimeTypeOK
    <3> QED BY <2>10, <3>1, <3>2 DEF RuntimeTypeOK, Flags
  <2> QED BY <2>1, <2>2, <2>3, <2>4, <2>5, <2>6, <2>7, <2>8, <2>9, <2>10
<1>2. Marks' BY DEF RuntimeTypeOK, Marks, FinOuts
<1>3. Counts' BY JobConstants DEF RuntimeTypeOK, Counts
<1> QED BY <1>1, <1>2, <1>3, TypeParts

\* So does the capture.
LEMMA CaptureType == ASSUME RuntimeTypeOK, Capture PROVE RuntimeTypeOK'
<1> USE DEF Capture, Fault, host, own, workers, outcomes, stream
<1>1. Flags' BY DEF RuntimeTypeOK, Flags
<1>2. Marks' BY DEF RuntimeTypeOK, Marks, FinOuts
<1>3. Counts' BY JobConstants DEF RuntimeTypeOK, Counts
<1> QED BY <1>1, <1>2, <1>3, TypeParts

(* The types of Run *)

Locs == [process: BOOLEAN, startErr: BOOLEAN, admitted: BOOLEAN,
         finalOk: BOOLEAN, before: BOOLEAN, after: BOOLEAN,
         egress: {"none", "complete", "incomplete"}, owned: BOOLEAN,
         unjoined: BOOLEAN]

Results == [status: {"complete", "incomplete", "refused"},
            target: {"not_started", "unknown", "exited"},
            cleanup: {"none", "complete", "incomplete"},
            proxyAbsent: BOOLEAN,
            reasons: SUBSET Reasons]

ResultTypeOK ==
  /\ pc \in Labels /\ loc \in Locs /\ res \in Results
  /\ files \subseteq Files /\ entries \subseteq Files /\ sealed \in BOOLEAN

\* What the three ways to change a result do to its fields.
LEMMA IncompleteFields ==
  ASSUME NEW r \in Results, NEW why \in SUBSET Reasons
  PROVE  /\ Incomplete(r, why) \in Results
         /\ Incomplete(r, why).status = "incomplete"
         /\ Incomplete(r, why).target = r.target
         /\ Incomplete(r, why).cleanup = r.cleanup
         /\ Incomplete(r, why).proxyAbsent = r.proxyAbsent
         /\ Incomplete(r, why).reasons = r.reasons \cup why
BY DEF Incomplete, Results

\* The fields of a result that was decided.
LEMMA DecidedFields ==
  ASSUME NEW r \in Results, NEW why \in SUBSET Reasons,
         NEW s \in {"complete", "incomplete", "refused"},
         NEW t \in {"not_started", "unknown", "exited"}
  PROVE  /\ Decided(r, s, t, why) \in Results
         /\ Decided(r, s, t, why).status = s
         /\ Decided(r, s, t, why).target = t
         /\ Decided(r, s, t, why).cleanup = r.cleanup
         /\ Decided(r, s, t, why).proxyAbsent = r.proxyAbsent
         /\ Decided(r, s, t, why).reasons = why
BY DEF Decided, Results

\* The fields of a result whose cleanup was observed.
LEMMA SweptFields ==
  ASSUME NEW r \in Results, NEW c \in {"none", "complete", "incomplete"},
         NEW b \in BOOLEAN
  PROVE  /\ Swept(r, c, b) \in Results
         /\ Swept(r, c, b).status = r.status
         /\ Swept(r, c, b).target = r.target
         /\ Swept(r, c, b).cleanup = c
         /\ Swept(r, c, b).proxyAbsent = b
         /\ Swept(r, c, b).reasons = r.reasons
BY DEF Swept, Results

\* A start that failed leaves locals and a result of their types.
LEMMA StartFailedType ==
  ASSUME loc \in Locs, res \in Results, NEW got \in BOOLEAN, NEW adm \in BOOLEAN,
         StartFailed(got, adm)
  PROVE  loc' \in Locs /\ res' \in Results
<1>1. loc' \in Locs BY DEF StartFailed, Locs
<1>2. res' \in Results BY DecidedFields DEF StartFailed, Reasons
<1> QED BY <1>1, <1>2

\* Run keeps the types of the runtime it shares.
LEMMA RunRuntimeType == ASSUME TypeOK, Run PROVE RuntimeTypeOK'
<1> USE DEF Prepare, BeginStart, ObserveStart, Identity, BeginWait, ObserveWait, JoinWait,
            ObserveFinal, Collect, Inventory, BeginCleanup, ObserveCleanup, Judge, Publish,
            CloseStreams, Seal, Abort, Aborting,
            Goto, StartFailed, Fails, Fault, Identified, Written, Unwritten, DropArtifacts,
            SpawnCleaner, Published, Unpublished, CloseResult,
            host, own, workers, outcomes, stream, rvars
<1>1. Flags' BY DEF Run, TypeOK, RuntimeTypeOK, Flags
<1>2. Marks'
  <2> USE DEF TypeOK, RuntimeTypeOK, Marks, FinOuts, StartLabels, WaitLabels, FinLabels,
              CleanLabels, Deadlines, Unproved, Failed
  <2>1. CASE Prepare BY <2>1
  <2>2. CASE BeginStart
    <3> HIDE DEF StartFailed, Marks, FinOuts, WaitLabels, FinLabels, Deadlines, Unproved, Failed
    <3>1. UNCHANGED <<ctr, target, client, door, proc, wait, fin, waitOut, finOut, cleanOut,
          written, expired>>
      BY <2>2
    <3>2. start' \in StartLabels /\ clean' \in CleanLabels
      BY <2>2 DEF TypeOK, RuntimeTypeOK, StartLabels, CleanLabels
    <3> QED BY <3>1, <3>2 DEF TypeOK, RuntimeTypeOK, Marks, FinOuts
  <2>3. CASE ObserveStart BY <2>3
  <2>4. CASE Identity BY <2>4
  <2>5. CASE BeginWait BY <2>5
  <2>6. CASE ObserveWait BY <2>6
  <2>7. CASE JoinWait BY <2>7
  <2>8. CASE ObserveFinal BY <2>8
  <2>9. CASE Collect BY <2>9
  <2>10. CASE Inventory BY <2>10
  <2>11. CASE BeginCleanup
    <3> HIDE DEF StartFailed, Marks, FinOuts, WaitLabels, FinLabels, Deadlines, Unproved, Failed
    <3>1. UNCHANGED <<ctr, target, client, door, proc, wait, fin, waitOut, finOut, cleanOut,
          written, expired>>
      BY <2>11
    <3>2. start' \in StartLabels /\ clean' \in CleanLabels
      BY <2>11 DEF TypeOK, RuntimeTypeOK, StartLabels, CleanLabels
    <3> QED BY <3>1, <3>2 DEF TypeOK, RuntimeTypeOK, Marks, FinOuts
  <2>12. CASE ObserveCleanup BY <2>12
  <2>13. CASE Judge BY <2>13
  <2>14. CASE Publish BY <2>14
  <2>15. CASE CloseStreams BY <2>15
  <2>16. CASE Seal BY <2>16
  <2>17. CASE Abort BY <2>17
  <2>18. CASE Aborting BY <2>18
  <2> QED BY <2>1, <2>2, <2>3, <2>4, <2>5, <2>6, <2>7, <2>8, <2>9, <2>10, <2>11, <2>12,
             <2>13, <2>14, <2>15, <2>16, <2>17, <2>18 DEF Run
<1>3. Counts'
  <2>1. CASE Prepare BY <2>1, JobConstants DEF TypeOK, RuntimeTypeOK, Counts
  <2>2. CASE BeginStart BY <2>2, JobConstants DEF TypeOK, RuntimeTypeOK, Counts
  <2>3. CASE ObserveStart BY <2>3, JobConstants DEF TypeOK, RuntimeTypeOK, Counts
  <2>4. CASE Identity BY <2>4, JobConstants DEF TypeOK, RuntimeTypeOK, Counts
  <2>5. CASE BeginWait BY <2>5, JobConstants DEF TypeOK, RuntimeTypeOK, Counts
  <2>6. CASE ObserveWait BY <2>6, JobConstants DEF TypeOK, RuntimeTypeOK, Counts
  <2>7. CASE JoinWait BY <2>7, JobConstants DEF TypeOK, RuntimeTypeOK, Counts
  <2>8. CASE ObserveFinal BY <2>8, JobConstants DEF TypeOK, RuntimeTypeOK, Counts
  <2>9. CASE Collect BY <2>9, JobConstants DEF TypeOK, RuntimeTypeOK, Counts
  <2>10. CASE Inventory BY <2>10, JobConstants DEF TypeOK, RuntimeTypeOK, Counts
  <2>11. CASE BeginCleanup BY <2>11, JobConstants DEF TypeOK, RuntimeTypeOK, Counts
  <2>12. CASE ObserveCleanup BY <2>12, JobConstants DEF TypeOK, RuntimeTypeOK, Counts
  <2>13. CASE Judge BY <2>13, JobConstants DEF TypeOK, RuntimeTypeOK, Counts
  <2>14. CASE Publish BY <2>14, JobConstants DEF TypeOK, RuntimeTypeOK, Counts
  <2>15. CASE CloseStreams BY <2>15, JobConstants DEF TypeOK, RuntimeTypeOK, Counts
  <2>16. CASE Seal BY <2>16, JobConstants DEF TypeOK, RuntimeTypeOK, Counts
  <2>17. CASE Abort BY <2>17, JobConstants DEF TypeOK, RuntimeTypeOK, Counts
  <2>18. CASE Aborting BY <2>18, JobConstants DEF TypeOK, RuntimeTypeOK, Counts
  <2> QED BY <2>1, <2>2, <2>3, <2>4, <2>5, <2>6, <2>7, <2>8, <2>9, <2>10, <2>11, <2>12,
             <2>13, <2>14, <2>15, <2>16, <2>17, <2>18 DEF Run
<1> QED BY <1>1, <1>2, <1>3, TypeParts

\* And those of its own state.
LEMMA RunResultType == ASSUME TypeOK, Run PROVE ResultTypeOK'
<1> USE DEF Prepare, BeginStart, ObserveStart, Identity, BeginWait, ObserveWait, JoinWait,
            ObserveFinal, Collect, Inventory, BeginCleanup, ObserveCleanup, Judge, Publish,
            CloseStreams, Seal, Abort, Aborting,
            Goto, StartFailed, Fails, Fault, Identified, Written, Unwritten, DropArtifacts,
            SpawnCleaner, Published, Unpublished, CloseResult
<1>1. pc' \in Labels
  BY DEF Run, TypeOK, Labels, evars
<1>2. sealed' \in BOOLEAN
  BY DEF Run, TypeOK, Labels, evars
<1>3. files' \subseteq Files
  <2>1. CASE Prepare BY <2>1 DEF TypeOK, Files, Directory
  <2>2. CASE BeginStart BY <2>2 DEF TypeOK, Files
  <2>3. CASE ObserveStart BY <2>3 DEF TypeOK, Files
  <2>4. CASE Identity BY <2>4 DEF TypeOK, Files
  <2>5. CASE BeginWait BY <2>5 DEF TypeOK, Files
  <2>6. CASE ObserveWait BY <2>6 DEF TypeOK, Files
  <2>7. CASE JoinWait BY <2>7 DEF TypeOK, Files
  <2>8. CASE ObserveFinal BY <2>8 DEF TypeOK, Files
  <2>9. CASE Collect BY <2>9 DEF TypeOK, Files
  <2>10. CASE Inventory BY <2>10 DEF TypeOK, Files
  <2>11. CASE BeginCleanup BY <2>11 DEF TypeOK, Files
  <2>12. CASE ObserveCleanup BY <2>12 DEF TypeOK, Files
  <2>13. CASE Judge BY <2>13 DEF TypeOK, Files, Judged
  <2>14. CASE Publish BY <2>14 DEF TypeOK, Files, Observations
  <2>15. CASE CloseStreams BY <2>15 DEF TypeOK, Files
  <2>16. CASE Seal BY <2>16 DEF TypeOK, Files
  <2>17. CASE Abort BY <2>17 DEF TypeOK, Files
  <2>18. CASE Aborting BY <2>18 DEF TypeOK, Files
  <2> QED BY <2>1, <2>2, <2>3, <2>4, <2>5, <2>6, <2>7, <2>8, <2>9, <2>10, <2>11, <2>12,
             <2>13, <2>14, <2>15, <2>16, <2>17, <2>18 DEF Run
<1>4. entries' \subseteq Files
  <2>1. CASE Prepare BY <2>1 DEF TypeOK, Files, Directory
  <2>2. CASE BeginStart BY <2>2 DEF TypeOK, Files
  <2>3. CASE ObserveStart BY <2>3 DEF TypeOK, Files
  <2>4. CASE Identity BY <2>4 DEF TypeOK, Files
  <2>5. CASE BeginWait BY <2>5 DEF TypeOK, Files
  <2>6. CASE ObserveWait BY <2>6 DEF TypeOK, Files
  <2>7. CASE JoinWait BY <2>7 DEF TypeOK, Files
  <2>8. CASE ObserveFinal BY <2>8 DEF TypeOK, Files
  <2>9. CASE Collect BY <2>9 DEF TypeOK, Files
  <2>10. CASE Inventory BY <2>10 DEF TypeOK, Files
  <2>11. CASE BeginCleanup BY <2>11 DEF TypeOK, Files
  <2>12. CASE ObserveCleanup BY <2>12 DEF TypeOK, Files
  <2>13. CASE Judge BY <2>13 DEF TypeOK, Files, Judged
  <2>14. CASE Publish BY <2>14 DEF TypeOK, Files, Observations
  <2>15. CASE CloseStreams BY <2>15 DEF TypeOK, Files
  <2>16. CASE Seal BY <2>16 DEF TypeOK, Files
  <2>17. CASE Abort BY <2>17 DEF TypeOK, Files
  <2>18. CASE Aborting BY <2>18 DEF TypeOK, Files
  <2> QED BY <2>1, <2>2, <2>3, <2>4, <2>5, <2>6, <2>7, <2>8, <2>9, <2>10, <2>11, <2>12,
             <2>13, <2>14, <2>15, <2>16, <2>17, <2>18 DEF Run
<1>5. loc' \in Locs
  <2>1. CASE Prepare BY <2>1 DEF TypeOK, RuntimeTypeOK, Locs
  <2>2. CASE BeginStart BY <2>2 DEF TypeOK, RuntimeTypeOK, Locs
  <2>3. CASE ObserveStart
    <3>1. CASE loc' = [loc EXCEPT !.process = TRUE] BY <3>1 DEF TypeOK, Locs
    <3>2. ASSUME NEW got \in BOOLEAN, NEW adm \in BOOLEAN, StartFailed(got, adm) PROVE loc' \in Locs
      BY <3>2 DEF TypeOK, Locs
    <3> HIDE DEF StartFailed
    <3> QED BY <2>3, <3>1, <3>2
  <2>4. CASE Identity BY <2>4 DEF TypeOK, RuntimeTypeOK, Locs
  <2>5. CASE BeginWait BY <2>5 DEF TypeOK, RuntimeTypeOK, Locs
  <2>6. CASE ObserveWait BY <2>6 DEF TypeOK, RuntimeTypeOK, Locs
  <2>7. CASE JoinWait BY <2>7 DEF TypeOK, RuntimeTypeOK, Locs
  <2>8. CASE ObserveFinal BY <2>8 DEF TypeOK, RuntimeTypeOK, Locs
  <2>9. CASE Collect BY <2>9 DEF TypeOK, RuntimeTypeOK, Locs
  <2>10. CASE Inventory BY <2>10 DEF TypeOK, RuntimeTypeOK, Locs
  <2>11. CASE BeginCleanup
    <3>1. \/ loc' = [loc EXCEPT !.owned = TRUE]
          \/ loc' = [loc EXCEPT !.owned = TRUE, !.unjoined = TRUE]
      BY <2>11
    <3>2. loc \in Locs BY DEF TypeOK, Locs
    <3> QED BY <3>1, <3>2 DEF Locs
  <2>12. CASE ObserveCleanup BY <2>12 DEF TypeOK, RuntimeTypeOK, Locs
  <2>13. CASE Judge BY <2>13 DEF TypeOK, RuntimeTypeOK, Locs
  <2>14. CASE Publish BY <2>14 DEF TypeOK, RuntimeTypeOK, Locs
  <2>15. CASE CloseStreams BY <2>15 DEF TypeOK, RuntimeTypeOK, Locs
  <2>16. CASE Seal BY <2>16 DEF TypeOK, RuntimeTypeOK, Locs
  <2>17. CASE Abort BY <2>17 DEF TypeOK, RuntimeTypeOK, Locs
  <2>18. CASE Aborting BY <2>18 DEF TypeOK, RuntimeTypeOK, Locs
  <2> QED BY <2>1, <2>2, <2>3, <2>4, <2>5, <2>6, <2>7, <2>8, <2>9, <2>10, <2>11, <2>12,
             <2>13, <2>14, <2>15, <2>16, <2>17, <2>18 DEF Run
<1>0. res \in Results /\ res.target \in {"not_started", "unknown", "exited"}
  BY DEF TypeOK, Results
<1>6. res' \in Results
  <2>1. CASE Prepare
    BY <2>1, <1>0, IncompleteFields, DecidedFields, SweptFields DEF Reasons, Directory
  <2>2. CASE BeginStart
    <3> HIDE DEF StartFailed
    <3>1. loc \in Locs BY DEF TypeOK, Locs
    <3> QED BY <2>2, <3>1, <1>0, StartFailedType
  <2>3. CASE ObserveStart
    BY <2>3, <1>0, IncompleteFields, DecidedFields, SweptFields DEF Reasons
  <2>4. CASE Identity
    BY <2>4, <1>0, IncompleteFields, DecidedFields, SweptFields DEF Reasons
  <2>5. CASE BeginWait
    BY <2>5, <1>0, IncompleteFields, DecidedFields, SweptFields DEF Reasons
  <2>6. CASE ObserveWait
    BY <2>6, <1>0, IncompleteFields, DecidedFields, SweptFields DEF Reasons
  <2>7. CASE JoinWait
    BY <2>7, <1>0, IncompleteFields, DecidedFields, SweptFields DEF Reasons
  <2>8. CASE ObserveFinal
    BY <2>8, <1>0, IncompleteFields, DecidedFields, SweptFields DEF Reasons
  <2>9. CASE Collect BY <2>9, <1>0, IncompleteFields, DecidedFields, SweptFields DEF Reasons
  <2>10. CASE Inventory
    BY <2>10, <1>0, IncompleteFields, DecidedFields, SweptFields DEF Reasons
  <2>11. CASE BeginCleanup
    <3>1. Incomplete(res, {"CLEANUP_INCOMPLETE"}) \in Results
      BY <1>0, IncompleteFields, <1>0, IncompleteFields, DecidedFields, SweptFields
      DEF Reasons
    <3> QED BY <2>11, <3>1, <1>0, SweptFields
  <2>12. CASE ObserveCleanup
    <3>1. Incomplete(res, {"CLEANUP_INCOMPLETE"}) \in Results
      BY <1>0, IncompleteFields, <1>0, IncompleteFields, DecidedFields, SweptFields
      DEF Reasons
    <3>2. \A b \in BOOLEAN:
            Swept(Incomplete(res, {"CLEANUP_INCOMPLETE"}), "incomplete", b) \in Results
      BY <3>1, SweptFields
    <3>3. Swept(res, "complete", TRUE) \in Results BY <1>0, SweptFields
    <3>4. (cleanOut = "incomplete") \in BOOLEAN OBVIOUS
    <3> QED BY <2>12, <3>2, <3>3, <3>4
  <2>13. CASE Judge
    BY <2>13, <1>0, IncompleteFields, DecidedFields, SweptFields DEF Reasons, Judged
  <2>14. CASE Publish
    BY <2>14, <1>0, IncompleteFields, DecidedFields, SweptFields DEF Reasons, Observations
  <2>15. CASE CloseStreams
    BY <2>15, <1>0, IncompleteFields, DecidedFields, SweptFields DEF Reasons
  <2>16. CASE Seal BY <2>16, <1>0, IncompleteFields, DecidedFields, SweptFields DEF Reasons
  <2>17. CASE Abort BY <2>17, <1>0, IncompleteFields, DecidedFields, SweptFields DEF Reasons
  <2>18. CASE Aborting
    BY <2>18, <1>0, IncompleteFields, DecidedFields, SweptFields DEF Reasons
  <2> QED BY <2>1, <2>2, <2>3, <2>4, <2>5, <2>6, <2>7, <2>8, <2>9, <2>10, <2>11, <2>12,
             <2>13, <2>14, <2>15, <2>16, <2>17, <2>18 DEF Run
<1> QED BY <1>1, <1>2, <1>3, <1>4, <1>5, <1>6 DEF ResultTypeOK

(* The workers and the invariant of the runtime *)

\* Container, target and client keeps the invariant of the runtime.
LEMMA ExternalInv == ASSUME TypeOK, RuntimeInv, External, UNCHANGED evars PROVE RuntimeInv'
<1> USE DEF External, TargetBegin, TargetWrite, TargetEnd, ClientEnd,
            Fault, host, own, workers, outcomes, stream, evars, Active
<1>0. TypeOK /\ Phases /\ Exclusive /\ Started /\ Observed /\ Cleaned
  BY DEF RuntimeInv
<1> USE DEF TypeOK, RuntimeTypeOK, Phases, Exclusive, CleanupIsExclusive, Started, Observed,
            Cleaned, Early, Observing, Ending
<1>1. Phases' BY <1>0
<1>2. Exclusive' BY <1>0
<1>3. Started' BY <1>0
<1>4. Observed' BY <1>0
<1>5. Cleaned' BY <1>0
<1> QED BY <1>1, <1>2, <1>3, <1>4, <1>5 DEF RuntimeInv

\* capture.Write keeps the invariant of the runtime.
LEMMA CaptureInv == ASSUME TypeOK, RuntimeInv, Capture, UNCHANGED evars PROVE RuntimeInv'
<1> USE DEF Capture,
            Fault, host, own, workers, outcomes, stream, evars, Active
<1>0. TypeOK /\ Phases /\ Exclusive /\ Started /\ Observed /\ Cleaned
  BY DEF RuntimeInv
<1> USE DEF TypeOK, RuntimeTypeOK, Phases, Exclusive, CleanupIsExclusive, Started, Observed,
            Cleaned, Early, Observing, Ending
<1>1. Phases' BY <1>0
<1>2. Exclusive' BY <1>0
<1>3. Started' BY <1>0
<1>4. Observed' BY <1>0
<1>5. Cleaned' BY <1>0
<1> QED BY <1>1, <1>2, <1>3, <1>4, <1>5 DEF RuntimeInv

\* Start keeps the invariant of the runtime.
LEMMA StartInv == ASSUME TypeOK, RuntimeInv, Start, UNCHANGED evars PROVE RuntimeInv'
<1> USE DEF Start, StartScratch, StartStage, StartCreate, StartReconcile, StartCopy,
            StartRun, StartVerify, StartEgress, StartExec,
            Admitted, AdmittedFailure, Fails, Fault, host, own, workers, outcomes, stream,
            evars, Active
<1>0. TypeOK /\ Phases /\ Exclusive /\ Started /\ Observed /\ Cleaned
  BY DEF RuntimeInv
<1> USE DEF TypeOK, RuntimeTypeOK, Phases, Exclusive, CleanupIsExclusive, Started, Observed,
            Cleaned, Early, Observing, Ending
<1>1. Phases' BY <1>0
<1>2. Exclusive' BY <1>0
<1>3. Started' BY <1>0
<1>4. Observed' BY <1>0
<1>5. Cleaned' BY <1>0
<1> QED BY <1>1, <1>2, <1>3, <1>4, <1>5 DEF RuntimeInv

\* Wait keeps the invariant of the runtime.
LEMMA WaitInv == ASSUME TypeOK, RuntimeInv, Wait, UNCHANGED evars PROVE RuntimeInv'
<1> USE DEF Wait, WaitEnter, WaitTerminal, WaitExpired, WaitControl, WaitLate,
            Fault, RevokedDoor, StopCtr, KilledClient, host, own, workers, outcomes,
            stream, evars, Active
<1>0. TypeOK /\ Phases /\ Exclusive /\ Started /\ Observed /\ Cleaned
  BY DEF RuntimeInv
<1> USE DEF TypeOK, RuntimeTypeOK, Phases, Exclusive, CleanupIsExclusive, Started, Observed,
            Cleaned, Early, Observing, Ending
<1>1. Phases' BY <1>0
<1>2. Exclusive' BY <1>0
<1>3. Started' BY <1>0
<1>4. Observed' BY <1>0
<1>5. Cleaned' BY <1>0
<1> QED BY <1>1, <1>2, <1>3, <1>4, <1>5 DEF RuntimeInv

\* Finalize keeps the invariant of the runtime.
LEMMA FinalizeInv == ASSUME TypeOK, RuntimeInv, Finalize, UNCHANGED evars PROVE RuntimeInv'
<1> USE DEF Finalize, FinEnter, FinEgress, FinStop, FinInspect, FinCollect,
            FinTo, Unproved, Failed, Closing, Fails, Fault, RevokedDoor, StopCtr, host,
            own, workers, outcomes, stream, evars, Active
<1>0. TypeOK /\ Phases /\ Exclusive /\ Started /\ Observed /\ Cleaned
  BY DEF RuntimeInv
<1> USE DEF TypeOK, RuntimeTypeOK, Phases, Exclusive, CleanupIsExclusive, Started, Observed,
            Cleaned, Early, Observing, Ending
<1>1. Phases' BY <1>0
<1>2. Exclusive' BY <1>0
<1>3. Started' BY <1>0
<1>4. Observed' BY <1>0
<1>5. Cleaned' BY <1>0
<1> QED BY <1>1, <1>2, <1>3, <1>4, <1>5 DEF RuntimeInv

\* Cleanup keeps the invariant of the runtime.
LEMMA CleanupInv == ASSUME TypeOK, RuntimeInv, Cleanup, UNCHANGED evars PROVE RuntimeInv'
<1> USE DEF Cleanup, CleanGate, CleanJoin, CleanDoor, CleanKill, CleanClient, CleanAdopt,
            CleanStop, CleanDestroy, CleanAbsent, CleanScratch,
            CleanTo, RecordAuthority, KilledClient, StopCtr, Fails, Fault, host, own,
            workers, outcomes, stream, evars, Active
<1>0. TypeOK /\ Phases /\ Exclusive /\ Started /\ Observed /\ Cleaned
  BY DEF RuntimeInv
<1> USE DEF TypeOK, RuntimeTypeOK, Phases, Exclusive, CleanupIsExclusive, Started, Observed,
            Cleaned, Early, Observing, Ending
<1>1. Phases' BY <1>0
<1>2. Exclusive' BY <1>0
<1>3. Started' BY <1>0
<1>4. Observed' BY <1>0
<1>5. Cleaned' BY <1>0
<1> QED BY <1>1, <1>2, <1>3, <1>4, <1>5 DEF RuntimeInv


(* Run and the invariant of the runtime *)

\* Run keeps the invariant of the runtime.
LEMMA RunRuntimeInv == ASSUME TypeOK, RuntimeInv, ResultInv, Run PROVE RuntimeInv'
<1> USE DEF Prepare, BeginStart, ObserveStart, Identity, BeginWait, ObserveWait, JoinWait,
            ObserveFinal, Collect, Inventory, BeginCleanup, ObserveCleanup, Judge, Publish,
            CloseStreams, Seal, Abort, Aborting,
            Goto, StartFailed, Fails, Fault, Identified, Written, Unwritten, DropArtifacts,
            SpawnCleaner, Published, Unpublished, CloseResult, Joined, Unproved, Failed,
            host, own, workers, outcomes, stream, rvars, Active
<1>0. TypeOK /\ Phases /\ Exclusive /\ Started /\ Observed /\ Cleaned
  BY DEF RuntimeInv
<1>1. Phases'
  <2> USE DEF TypeOK, RuntimeTypeOK, Phases, Exclusive, CleanupIsExclusive, Started,
              Observed, Cleaned, Early, Observing, Ending, Labels
  <2>1. CASE Prepare BY <1>0, <2>1
  <2>2. CASE BeginStart BY <1>0, <2>2
  <2>3. CASE ObserveStart
    <3>1. loc'.owned = loc.owned /\ loc'.unjoined = loc.unjoined BY <2>3 DEF TypeOK
    <3> QED BY <1>0, <2>3, <3>1
      DEF TypeOK, RuntimeTypeOK, Phases, Exclusive, CleanupIsExclusive, Started, Observed,
          Cleaned, Early, Observing, Ending, Labels
  <2>4. CASE Identity BY <1>0, <2>4
  <2>5. CASE BeginWait BY <1>0, <2>5
  <2>6. CASE ObserveWait BY <1>0, <2>6
  <2>7. CASE JoinWait BY <1>0, <2>7
  <2>8. CASE ObserveFinal
    <3>1. loc'.owned = loc.owned /\ loc'.unjoined = loc.unjoined BY <2>8 DEF TypeOK
    <3> QED BY <1>0, <2>8, <3>1
      DEF TypeOK, RuntimeTypeOK, Phases, Exclusive, CleanupIsExclusive, Started, Observed,
          Cleaned, Early, Observing, Ending, Labels
  <2>9. CASE Collect BY <1>0, <2>9
  <2>10. CASE Inventory BY <1>0, <2>10
  <2>11. CASE BeginCleanup BY <1>0, <2>11
  <2>12. CASE ObserveCleanup BY <1>0, <2>12
  <2>13. CASE Judge BY <1>0, <2>13
  <2>14. CASE Publish BY <1>0, <2>14
  <2>15. CASE CloseStreams BY <1>0, <2>15
  <2>16. CASE Seal BY <1>0, <2>16
  <2>17. CASE Abort BY <1>0, <2>17
  <2>18. CASE Aborting BY <1>0, <2>18
  <2> QED BY <2>1, <2>2, <2>3, <2>4, <2>5, <2>6, <2>7, <2>8, <2>9, <2>10, <2>11, <2>12,
             <2>13, <2>14, <2>15, <2>16, <2>17, <2>18 DEF Run
<1>a. /\ UNCHANGED <<ctr, target, slot, client, clientOk, door, scratch, named, known, proc,
           waited>>
      /\ UNCHANGED <<waitOut, cleanOut, dirty, recorded, wrote, total>>
      /\ start' = start \/ (pc = "start" /\ start' = "scratch")
      /\ wait' = wait \/ (pc = "wait" /\ wait' = "begun")
      /\ fin' = fin \/ (pc = "joinwait" /\ wait = "done" /\ fin' = "begun")
      /\ clean' = clean \/ (clean = "none" /\ clean' = "gate")
      /\ finOut' = finOut \/ finOut' = [ok |-> FALSE, after |-> FALSE, egress |-> "none"]
  BY <1>0 DEF Run, Phases, Early, Observing
<1> HIDE DEF Prepare, BeginStart, ObserveStart, Identity, BeginWait, ObserveWait, JoinWait,
             ObserveFinal, Collect, Inventory, BeginCleanup, ObserveCleanup, Judge, Publish,
             CloseStreams, Seal, Abort, Aborting
<1> USE DEF TypeOK, RuntimeTypeOK, Phases, Exclusive, CleanupIsExclusive, Started, Observed,
            Cleaned, Early, Observing, Ending, Labels
<1>2. Exclusive' BY <1>0, <1>a
<1>3. Started' BY <1>0, <1>a
<1>4. Observed' BY <1>0, <1>a
<1>5. Cleaned' BY <1>0, <1>a
<1> QED BY <1>1, <1>2, <1>3, <1>4, <1>5 DEF RuntimeInv


(* The workers and the invariant of the result *)

\* What the result says of the workers stays so: what has returned has returned,
\* and a capture that is closed takes nothing any more.
Lasting ==
  /\ ~Active(start) => start' = start /\ proc' = proc
  /\ waitOut = "exited" => waitOut' = "exited"
  /\ fin = "done" => fin' = "done"
  /\ cleanOut = "complete" => cleanOut' = "complete"
  /\ closed => closed' /\ kept' = kept /\ total' = total

\* Every step of a worker and of the host is of this kind.
LEMMA WorkersLast == ASSUME TypeOK, RuntimeInv, Workers \/ External PROVE Lasting
<1> USE DEF Lasting, Active, host, own, workers, outcomes, stream, Fails, Fault
<1>0. (waitOut = "exited" => wait = "done") /\ (cleanOut # "none" => clean = "done")
  BY DEF RuntimeInv, Observed, Cleaned
<1>1. CASE External BY <1>1 DEF External, TargetBegin, TargetWrite, TargetEnd, ClientEnd
<1>2. CASE Capture BY <1>2 DEF Capture
<1>3. CASE Start
  BY <1>3 DEF Start, StartScratch, StartStage, StartCreate, StartReconcile, StartCopy,
    StartRun, StartVerify, StartEgress, StartExec, Admitted, AdmittedFailure
<1>4. CASE Wait
  BY <1>4, <1>0 DEF Wait, WaitEnter, WaitTerminal, WaitExpired, WaitControl, WaitLate
<1>5. CASE Finalize
  BY <1>5 DEF Finalize, FinEnter, FinEgress, FinStop, FinInspect, FinCollect, FinTo
<1>6. CASE Cleanup
  BY <1>6, <1>0 DEF Cleanup, CleanGate, CleanJoin, CleanDoor, CleanKill, CleanClient,
    CleanAdopt, CleanStop, CleanDestroy, CleanAbsent, CleanScratch, CleanTo
<1> QED BY <1>1, <1>2, <1>3, <1>4, <1>5, <1>6 DEF Workers

\* So it leaves what Run holds in its hands as true as it was.
LEMMA LastingKeeps ==
  ASSUME TypeOK, RuntimeInv, ResultInv, Lasting, UNCHANGED evars
  PROVE  ResultInv'
<1> USE DEF Lasting, evars, Active
<1>0. Locals /\ Building /\ Filed /\ SealedInv BY DEF ResultInv
<1>1. Locals' BY <1>0 DEF Locals
<1>2. Building' BY <1>0 DEF Building, EgressHolds, Filed
<1>3. Filed' BY <1>0 DEF Filed
<1>4. SealedInv'
  BY <1>0 DEF SealedInv, Valid, ValidIdentity, ValidStream, ValidCleanup, ValidManifest,
    Leftover, VerifyRetainedRuntimeEvidence, VerifyEgress, EgressHolds
<1> QED BY <1>1, <1>2, <1>3, <1>4 DEF ResultInv

(* Run and the invariant of the result *)

\* What a start that failed does to the locals and to the result.
LEMMA StartFailedFields ==
  ASSUME loc \in Locs, res \in Results, NEW got \in BOOLEAN, NEW adm \in BOOLEAN,
         StartFailed(got, adm)
  PROVE  /\ pc' = "inventory"
         /\ loc'.startErr /\ loc'.admitted = adm /\ loc'.finalOk = loc.finalOk
         /\ loc'.before = loc.before /\ loc'.after = loc.after
         /\ loc'.egress = loc.egress /\ loc'.owned = loc.owned
         /\ ~adm => res' = res
         /\ adm => /\ res'.status = "incomplete" /\ res'.target = "unknown"
                   /\ res'.reasons = {"RUNTIME_START_OBSERVATION_FAILED"}
                   /\ res'.cleanup = res.cleanup /\ res'.proxyAbsent = res.proxyAbsent
<1>1. /\ pc' = "inventory"
      /\ loc'.startErr /\ loc'.admitted = adm /\ loc'.finalOk = loc.finalOk
      /\ loc'.before = loc.before /\ loc'.after = loc.after
      /\ loc'.egress = loc.egress /\ loc'.owned = loc.owned
  BY DEF StartFailed, Locs
<1>2. /\ ~adm => res' = res
      /\ adm => res' = Decided(res, "incomplete", "unknown", {"RUNTIME_START_OBSERVATION_FAILED"})
  BY DEF StartFailed
<1>3. {"RUNTIME_START_OBSERVATION_FAILED"} \in SUBSET Reasons BY DEF Reasons
<1> QED BY <1>1, <1>2, <1>3, DecidedFields

\* A failed start keeps the invariant of the result.
LEMMA StartFailedKeeps ==
  ASSUME TypeOK, RuntimeInv, ResultInv, pc \in {"start", "starting", "identity"},
         NEW got \in BOOLEAN, NEW adm \in BOOLEAN, StartFailed(got, adm),
         ~adm => ~Active(start) /\ proc = "none",
         UNCHANGED <<start, proc, waitOut, fin, cleanOut, files, entries, sealed>>
  PROVE  ResultInv'
<1>0. /\ Phases /\ Locals /\ Building /\ Filed /\ SealedInv
      /\ loc \in Locs /\ res \in Results
  BY DEF RuntimeInv, ResultInv, TypeOK, Locs, Results
<1>a. /\ pc' = "inventory"
      /\ loc'.startErr /\ loc'.admitted = adm /\ loc'.finalOk = loc.finalOk
      /\ loc'.before = loc.before /\ loc'.after = loc.after
      /\ loc'.egress = loc.egress /\ loc'.owned = loc.owned
      /\ ~adm => res' = res
      /\ adm => /\ res'.status = "incomplete" /\ res'.target = "unknown"
                /\ res'.reasons = {"RUNTIME_START_OBSERVATION_FAILED"}
                /\ res'.cleanup = res.cleanup /\ res'.proxyAbsent = res.proxyAbsent
  BY <1>0, StartFailedFields
<1>1. Locals' BY <1>0, <1>a DEF Locals, Building, Early, Observing, Ending, StartFailures
<1>2. Building' BY <1>0, <1>a DEF Locals, Building, Early, Observing, Ending, Active
<1>3. Filed' BY <1>0, <1>a DEF Filed, Ending
<1>4. SealedInv' BY <1>0, <1>a DEF SealedInv
<1> QED BY <1>1, <1>2, <1>3, <1>4 DEF ResultInv

\* From here on one lemma per step.

\* Those that leave locals and result as they are.
LEMMA PrepareKeeps == ASSUME TypeOK, RuntimeInv, ResultInv, Prepare PROVE ResultInv'
<1>0. /\ Phases /\ Exclusive /\ Started /\ Observed /\ Cleaned
      /\ Locals /\ Building /\ Filed /\ SealedInv
      /\ loc \in Locs /\ res \in Results
  BY DEF RuntimeInv, ResultInv, TypeOK, Locs, Results
<1>a. /\ UNCHANGED <<loc, res, sealed, start, proc, waitOut, fin, cleanOut, kept, total>>
      /\ pc = "prepare"
      /\ \/ pc' = "start" /\ files' = {"authority", "streams"} /\ entries' = {"authority"}
         \/ pc' = "returned"
  BY <1>0 DEF Prepare, Goto, host, own, workers, outcomes, stream, rvars
<1>1. Locals' BY <1>0, <1>a DEF Locals, Building, Early, Observing, Ending, StartFailures
<1>2. Building'
  BY <1>0, <1>a
  DEF Phases, Started, Locals, Building, Filed, Early, Observing, Ending, Active,
      EgressHolds
<1>3. Filed' BY <1>0, <1>a DEF Filed, Observing, Ending
<1>4. SealedInv' BY <1>0, <1>a DEF SealedInv
<1> QED BY <1>1, <1>2, <1>3, <1>4 DEF ResultInv

\* Spawning Wait leaves the result alone.
LEMMA BeginWaitKeeps == ASSUME TypeOK, RuntimeInv, ResultInv, BeginWait PROVE ResultInv'
<1>0. /\ Phases /\ Exclusive /\ Started /\ Observed /\ Cleaned
      /\ Locals /\ Building /\ Filed /\ SealedInv
      /\ loc \in Locs /\ res \in Results
  BY DEF RuntimeInv, ResultInv, TypeOK, Locs, Results
<1>a. /\ UNCHANGED <<loc, res, sealed, start, proc, waitOut, fin, cleanOut, files, entries>>
      /\ pc = "wait" /\ pc' = "waiting"
  BY <1>0 DEF BeginWait, Goto, host, own, workers, outcomes, stream, rvars
<1>1. Locals' BY <1>0, <1>a DEF Locals, Building, Early, Observing, Ending, StartFailures
<1>2. Building'
  BY <1>0, <1>a
  DEF Phases, Started, Locals, Building, Filed, Early, Observing, Ending, Active,
      EgressHolds
<1>3. Filed' BY <1>0, <1>a DEF Filed, Observing, Ending
<1>4. SealedInv' BY <1>0, <1>a DEF SealedInv
<1> QED BY <1>1, <1>2, <1>3, <1>4 DEF ResultInv

\* Joining Wait leaves the result alone.
LEMMA JoinWaitKeeps == ASSUME TypeOK, RuntimeInv, ResultInv, JoinWait PROVE ResultInv'
<1>0. /\ Phases /\ Exclusive /\ Started /\ Observed /\ Cleaned
      /\ Locals /\ Building /\ Filed /\ SealedInv
      /\ loc \in Locs /\ res \in Results
  BY DEF RuntimeInv, ResultInv, TypeOK, Locs, Results
<1>a. /\ UNCHANGED <<loc, res, sealed, start, proc, waitOut, cleanOut, files, entries>>
      /\ pc = "joinwait" /\ pc' \in {"finalizing", "collect"}
  BY <1>0 DEF JoinWait, Goto, host, own, workers, outcomes, stream, rvars
<1>1. Locals' BY <1>0, <1>a DEF Locals, Building, Early, Observing, Ending, StartFailures
<1>2. Building'
  BY <1>0, <1>a
  DEF Phases, Started, Locals, Building, Filed, Early, Observing, Ending, Active,
      EgressHolds
<1>3. Filed' BY <1>0, <1>a DEF Filed, Observing, Ending
<1>4. SealedInv' BY <1>0, <1>a DEF SealedInv
<1> QED BY <1>1, <1>2, <1>3, <1>4 DEF ResultInv

\* The inventory adds its file and entry.
LEMMA InventoryKeeps == ASSUME TypeOK, RuntimeInv, ResultInv, Inventory PROVE ResultInv'
<1>0. /\ Phases /\ Exclusive /\ Started /\ Observed /\ Cleaned
      /\ Locals /\ Building /\ Filed /\ SealedInv
      /\ loc \in Locs /\ res \in Results
  BY DEF RuntimeInv, ResultInv, TypeOK, Locs, Results
<1>a. /\ UNCHANGED <<loc, res, sealed, start, proc, waitOut, fin, cleanOut>>
      /\ pc = "inventory"
      /\ \/ pc' = "cleanjoin" /\ files' = files \cup {"inventory"}
              /\ entries' = entries \cup {"inventory"}
         \/ pc' = "abort"
  BY <1>0
  DEF Inventory, Goto, Written, Unwritten, host, own, workers, outcomes, stream, rvars
<1>1. Locals' BY <1>0, <1>a DEF Locals, Building, Early, Observing, Ending, StartFailures
<1>2. Building'
  BY <1>0, <1>a
  DEF Phases, Started, Locals, Building, Filed, Early, Observing, Ending, Active,
      EgressHolds
<1>3. Filed' BY <1>0, <1>a DEF Filed, Observing, Ending
<1>4. SealedInv' BY <1>0, <1>a DEF SealedInv
<1> QED BY <1>1, <1>2, <1>3, <1>4 DEF ResultInv

\* The observations add their files and entries.
LEMMA PublishKeeps == ASSUME TypeOK, RuntimeInv, ResultInv, Publish PROVE ResultInv'
<1>0. /\ Phases /\ Exclusive /\ Started /\ Observed /\ Cleaned
      /\ Locals /\ Building /\ Filed /\ SealedInv
      /\ loc \in Locs /\ res \in Results
  BY DEF RuntimeInv, ResultInv, TypeOK, Locs, Results
<1>a. /\ UNCHANGED <<loc, res, sealed, start, proc, waitOut, fin, cleanOut>>
      /\ pc = "publish"
      /\ \/ pc' = "close" /\ files' = files \cup Observations
              /\ entries' = entries \cup Observations
         \/ pc' = "abort"
  BY <1>0 DEF Publish, Goto, Written, Unwritten, host, own, workers, outcomes, stream, rvars
<1>1. Locals' BY <1>0, <1>a DEF Locals, Building, Early, Observing, Ending, StartFailures
<1>2. Building'
  BY <1>0, <1>a
  DEF Phases, Started, Locals, Building, Filed, Early, Observing, Ending, Active,
      EgressHolds
<1>3. Filed' BY <1>0, <1>a DEF Filed, Observing, Ending, Observations
<1>4. SealedInv' BY <1>0, <1>a DEF SealedInv
<1> QED BY <1>1, <1>2, <1>3, <1>4 DEF ResultInv

\* Observing the deferred cleanup leaves what was written alone.
LEMMA AbortingKeeps == ASSUME TypeOK, RuntimeInv, ResultInv, Aborting PROVE ResultInv'
<1>0. /\ Phases /\ Exclusive /\ Started /\ Observed /\ Cleaned
      /\ Locals /\ Building /\ Filed /\ SealedInv
      /\ loc \in Locs /\ res \in Results
  BY DEF RuntimeInv, ResultInv, TypeOK, Locs, Results
<1>a. /\ UNCHANGED <<loc, res, sealed, start, proc, waitOut, fin, cleanOut, files, entries>>
      /\ pc = "aborting" /\ pc' = "returned"
  BY <1>0 DEF Aborting, Goto, host, own, workers, outcomes, stream, rvars
<1>1. Locals' BY <1>0, <1>a DEF Locals, Building, Early, Observing, Ending, StartFailures
<1>2. Building'
  BY <1>0, <1>a
  DEF Phases, Started, Locals, Building, Filed, Early, Observing, Ending, Active,
      EgressHolds
<1>3. Filed' BY <1>0, <1>a DEF Filed, Observing, Ending
<1>4. SealedInv' BY <1>0, <1>a DEF SealedInv
<1> QED BY <1>1, <1>2, <1>3, <1>4 DEF ResultInv

\* Sealing publishes a manifest that verification accepts.
LEMMA SealKeeps == ASSUME TypeOK, RuntimeInv, ResultInv, Seal PROVE ResultInv'
<1>0. /\ Phases /\ Exclusive /\ Started /\ Observed /\ Cleaned
      /\ Locals /\ Building /\ Filed /\ SealedInv
      /\ loc \in Locs /\ res \in Results
  BY DEF RuntimeInv, ResultInv, TypeOK, Locs, Results
<1>a. /\ UNCHANGED <<loc, res, start, proc, waitOut, fin, cleanOut, kept, total, closed>>
      /\ pc = "seal" /\ pc' \in {"returned", "abort"}
      /\ \/ /\ files' = files \cup {"result"} /\ entries' = entries \cup {"result"}
            /\ Valid(res) /\ ValidManifest(entries') /\ sealed'
         \/ entries' = entries /\ sealed' = sealed
  BY <1>0
  DEF Seal, Goto, Published, Unpublished, Written, host, own, workers, outcomes, stream,
      rvars
<1>1. Locals' BY <1>0, <1>a DEF Locals, Building, Early, Observing, Ending, StartFailures
<1>2. Building'
  BY <1>0, <1>a
  DEF Phases, Started, Locals, Building, Filed, Early, Observing, Ending, Active,
      EgressHolds
<1>3. Filed' BY <1>0, <1>a DEF Filed, Observing, Ending
<1>4. SealedInv'
  <2> SUFFICES ASSUME sealed' PROVE SealedInv' BY DEF SealedInv
  <2>1. ~sealed BY <1>0, <1>a DEF SealedInv
  <2>2. /\ files' = files \cup {"result"} /\ entries' = entries \cup {"result"}
        /\ Valid(res) /\ ValidManifest(entries')
    BY <2>1, <1>a
  <2>3. Valid(res)' BY <2>2, <1>a DEF Valid, ValidIdentity, ValidStream, ValidCleanup
  <2>4. VerifyRetainedRuntimeEvidence'
    BY <1>0, <1>a
    DEF Locals, Building, Ending, VerifyRetainedRuntimeEvidence, StartFailures, StartReasons
  <2>5. VerifyEgress'
    BY <1>0, <1>a, <2>2 DEF Locals, Building, Filed, Ending, VerifyEgress, EgressHolds
  <2>6. files' = entries' \/ Leftover' BY <1>0, <1>a, <2>2 DEF Filed, Ending, Leftover
  <2>7. closed' /\ loc'.owned /\ "inventory" \in entries'
        /\ (res'.status = "complete" => fin' = "done")
    BY <1>0, <1>a, <2>2 DEF Filed, Building, Phases, Ending
  <2> QED BY <1>a, <2>2, <2>3, <2>4, <2>5, <2>6, <2>7 DEF SealedInv, ValidManifest
<1> QED BY <1>1, <1>2, <1>3, <1>4 DEF ResultInv

\* A start that is observed, or fails.
LEMMA StartKeeps ==
  ASSUME TypeOK, RuntimeInv, ResultInv, BeginStart \/ ObserveStart \/ Identity
  PROVE  ResultInv'
<1>0. /\ Phases /\ Exclusive /\ Started /\ Observed /\ Cleaned
      /\ Locals /\ Building /\ Filed /\ SealedInv
      /\ loc \in Locs /\ res \in Results
  BY DEF RuntimeInv, ResultInv, TypeOK, Locs, Results
<1>a. UNCHANGED <<proc, waitOut, fin, cleanOut, files, entries, sealed>>
  BY DEF BeginStart, ObserveStart, Identity, host, own, workers, outcomes, stream, rvars
<1>b. ASSUME NEW got \in BOOLEAN, NEW adm \in BOOLEAN, StartFailed(got, adm),
             UNCHANGED start, ~adm => ~Active(start) /\ proc = "none",
             pc \in {"start", "starting", "identity"}
      PROVE  ResultInv'
  BY <1>a, <1>b, StartFailedKeeps
<1>c. ASSUME UNCHANGED <<res>>, pc \in {"start", "starting", "identity"},
             \/ pc' = "starting" /\ UNCHANGED loc
             \/ pc' = "identity" /\ loc' = [loc EXCEPT !.process = TRUE] /\ start' = start
             \/ pc' = "wait" /\ loc' = [loc EXCEPT !.before = TRUE] /\ start' = start
      PROVE  ResultInv'
  <2>1. /\ loc'.startErr = loc.startErr /\ loc'.after = loc.after /\ loc'.finalOk = loc.finalOk
        /\ loc'.egress = loc.egress /\ loc'.owned = loc.owned
        /\ \/ pc' # "wait" /\ loc'.before = loc.before
           \/ pc' = "wait" /\ loc'.before
    BY <1>0, <1>c DEF Locs
  <2>2. pc' \in {"starting", "identity", "wait"} BY <1>c
  <2> HIDE <1>c
  <2>3. pc \in {"start", "starting", "identity"} /\ res' = res BY <1>c
  <2>4. Locals'
    BY <1>0, <1>a, <2>1, <2>2, <2>3
    DEF Locals, Building, Early, Observing, Ending, StartFailures
  <2>5. Building'
    BY <1>0, <1>a, <2>1, <2>2, <2>3 DEF Locals, Building, Early, Observing, Ending
  <2>6. Filed' BY <1>0, <1>a, <2>2, <2>3 DEF Filed, Ending
  <2>7. SealedInv' BY <1>0, <1>a, <2>3 DEF SealedInv
  <2> QED BY <2>4, <2>5, <2>6, <2>7 DEF ResultInv
<1>1. CASE BeginStart
  <2>1. pc = "start" /\ start = "none" /\ proc = "none"
    BY <1>0, <1>1 DEF BeginStart, Phases, Started
  <2>2. CASE pc' = "starting" /\ UNCHANGED <<loc, res>> BY <2>1, <2>2, <1>c
  <2>3. ASSUME NEW a \in BOOLEAN, StartFailed(FALSE, a), UNCHANGED start PROVE ResultInv'
    BY <2>1, <2>3, <1>b DEF Active
  <2> QED BY <1>1, <2>2, <2>3 DEF BeginStart
<1>2. CASE ObserveStart
  <2>1. pc = "starting" /\ UNCHANGED start
    BY <1>2 DEF ObserveStart, host, own, workers, outcomes, stream, rvars
  <2>2. CASE /\ pc' = "identity" /\ loc' = [loc EXCEPT !.process = TRUE] /\ UNCHANGED res
    BY <2>1, <2>2, <1>c
  <2>3. ASSUME NEW adm \in {proc # "none" \/ "exec" \in expired, TRUE}, start = "done",
               StartFailed(proc # "none", adm)
        PROVE  ResultInv'
    <3>1. adm \in BOOLEAN /\ (proc # "none") \in BOOLEAN BY <2>3
    <3>2. ~adm => ~Active(start) /\ proc = "none" BY <2>3 DEF Active
    <3> QED BY <2>1, <2>3, <3>1, <3>2, <1>b
  <2>4. CASE StartFailed(FALSE, TRUE) BY <2>1, <2>4, <1>b
  <2> QED BY <1>2, <2>2, <2>3, <2>4 DEF ObserveStart
<1>3. CASE Identity
  <2>1. pc = "identity" /\ UNCHANGED start
    BY <1>3 DEF Identity, host, own, workers, outcomes, stream, rvars
  <2>2. CASE pc' = "wait" /\ loc' = [loc EXCEPT !.before = TRUE] /\ UNCHANGED res
    BY <2>1, <2>2, <1>c
  <2>3. CASE StartFailed(TRUE, TRUE) BY <2>1, <2>3, <1>b
  <2> QED BY <1>3, <2>2, <2>3 DEF Identity
<1> QED BY <1>1, <1>2, <1>3

\* What Wait yielded, and what Finalize did.
LEMMA ObserveWaitKeeps == ASSUME TypeOK, RuntimeInv, ResultInv, ObserveWait PROVE ResultInv'
<1>0. /\ Phases /\ Exclusive /\ Started /\ Observed /\ Cleaned
      /\ Locals /\ Building /\ Filed /\ SealedInv
      /\ loc \in Locs /\ res \in Results
  BY DEF RuntimeInv, ResultInv, TypeOK, Locs, Results
<1>a. /\ UNCHANGED <<loc, sealed, start, proc, fin, waitOut, cleanOut, files, entries>>
      /\ pc = "waiting" /\ pc' = "joinwait"
      /\ \/ waitOut = "exited" /\ res' = Decided(res, "complete", "exited", {})
         \/ res' = Decided(res, "incomplete", "unknown", {"TARGET_OBSERVATION_FAILED"})
  BY DEF ObserveWait, Goto, host, own, workers, outcomes, stream, rvars
<1>b. /\ res'.cleanup = res.cleanup /\ res'.proxyAbsent = res.proxyAbsent
      /\ \/ waitOut = "exited" /\ res'.status = "complete" /\ res'.target = "exited"
              /\ res'.reasons = {}
         \/ res'.status = "incomplete" /\ res'.target = "unknown" /\ res'.reasons # {}
  <2>1. {} \in SUBSET Reasons /\ {"TARGET_OBSERVATION_FAILED"} \in SUBSET Reasons
    BY DEF Reasons
  <2> QED BY <1>0, <1>a, <2>1, DecidedFields
<1>1. Locals'
  BY <1>0, <1>a, <1>b DEF Locals, Building, Early, Observing, Ending, StartFailures
<1>2. Building'
  BY <1>0, <1>a, <1>b
  DEF Phases, Started, Locals, Building, Filed, Early, Observing, Ending, Active,
      EgressHolds
<1>3. Filed' BY <1>0, <1>a, <1>b DEF Filed, Observing, Ending
<1>4. SealedInv' BY <1>0, <1>a, <1>b DEF SealedInv
<1> QED BY <1>1, <1>2, <1>3, <1>4 DEF ResultInv

\* A finalization that is not proved makes the result incomplete.
LEMMA ObserveFinalKeeps == ASSUME TypeOK, RuntimeInv, ResultInv, ObserveFinal PROVE ResultInv'
<1>0. /\ Phases /\ Exclusive /\ Started /\ Observed /\ Cleaned
      /\ Locals /\ Building /\ Filed /\ SealedInv
      /\ loc \in Locs /\ res \in Results
  BY DEF RuntimeInv, ResultInv, TypeOK, Locs, Results
<1>a. /\ UNCHANGED <<res, sealed, start, proc, fin, waitOut, cleanOut, files, entries>>
      /\ pc = "finalizing" /\ pc' = "collect"
  BY DEF ObserveFinal, Goto, host, own, workers, outcomes, stream, rvars
<1>b. /\ loc'.startErr = loc.startErr /\ loc'.before = loc.before /\ loc'.admitted = loc.admitted
      /\ loc'.owned = loc.owned
      /\ loc'.finalOk => loc'.after /\ fin = "done"
      /\ loc'.egress # "none" => Net
  <2>1. CASE UNCHANGED loc BY <1>0, <1>a, <2>1 DEF Locals
  <2>2. CASE /\ fin = "done"
             /\ loc' = [loc EXCEPT !.finalOk = finOut.ok, !.after = finOut.after,
                                  !.egress = finOut.egress]
    <3>1. /\ loc'.startErr = loc.startErr /\ loc'.before = loc.before
          /\ loc'.admitted = loc.admitted /\ loc'.owned = loc.owned
          /\ loc'.finalOk = finOut.ok /\ loc'.after = finOut.after /\ loc'.egress = finOut.egress
      BY <1>0, <2>2 DEF Locs
    <3> QED BY <1>0, <2>2, <3>1 DEF Observed
  <2> QED BY <2>1, <2>2 DEF ObserveFinal
<1>1. Locals'
  BY <1>0, <1>a, <1>b DEF Locals, Building, Early, Observing, Ending, StartFailures
<1>2. Building'
  BY <1>0, <1>a, <1>b
  DEF Phases, Started, Locals, Building, Filed, Early, Observing, Ending, Active,
      EgressHolds
<1>3. Filed' BY <1>0, <1>a, <1>b DEF Filed, Observing, Ending
<1>4. SealedInv' BY <1>0, <1>a, <1>b DEF SealedInv
<1> QED BY <1>1, <1>2, <1>3, <1>4 DEF ResultInv

\* Artifacts and inventory.
LEMMA CollectKeeps == ASSUME TypeOK, RuntimeInv, ResultInv, Collect PROVE ResultInv'
<1>0. /\ Phases /\ Exclusive /\ Started /\ Observed /\ Cleaned
      /\ Locals /\ Building /\ Filed /\ SealedInv
      /\ loc \in Locs /\ res \in Results
  BY DEF RuntimeInv, ResultInv, TypeOK, Locs, Results
<1>a. /\ UNCHANGED <<sealed, start, proc, fin, waitOut, cleanOut>>
      /\ pc = "collect" /\ pc' \in {"cleanjoin", "abort"}
  BY DEF Collect, host, own, workers, outcomes, stream, rvars
<1>b. /\ Incomplete(res, {"ARTIFACT_COLLECTION_FAILED"}).reasons =
           res.reasons \cup {"ARTIFACT_COLLECTION_FAILED"}
      /\ Incomplete(res, {"FINALIZATION_FAILED"}).reasons = res.reasons \cup {"FINALIZATION_FAILED"}
      /\ Incomplete(res, {"RUNTIME_OBSERVATION_INVALID", "FINALIZATION_FAILED"}).reasons =
           res.reasons \cup {"RUNTIME_OBSERVATION_INVALID", "FINALIZATION_FAILED"}
      /\ \A why \in SUBSET Reasons:
           /\ Incomplete(res, why).status = "incomplete"
           /\ Incomplete(res, why).target = res.target
           /\ Incomplete(res, why).cleanup = res.cleanup
           /\ Incomplete(res, why).proxyAbsent = res.proxyAbsent
  BY <1>0, IncompleteFields DEF Reasons
<1>c. /\ {"ARTIFACT_COLLECTION_FAILED"} \in SUBSET Reasons
           /\ {"FINALIZATION_FAILED"} \in SUBSET Reasons
      /\ {"RUNTIME_OBSERVATION_INVALID", "FINALIZATION_FAILED"} \in SUBSET Reasons
  BY DEF Reasons
<1>d. /\ loc.before /\ ~loc.startErr /\ (loc.finalOk => loc.after /\ fin = "done") /\ ~sealed
      /\ files = {"authority", "streams"} /\ entries = {"authority"} /\ (loc.egress # "none" => Net)
  BY <1>0, <1>a DEF Locals, Filed, SealedInv, Observing
<1>5. CASE pc' = "abort" /\ UNCHANGED <<loc, res>>
  <2> HIDE DEF Incomplete
  <2>1. Locals'
    BY <1>0, <1>a, <1>5 DEF Locals, Building, Early, Observing, Ending, StartFailures
  <2>2. Building'
    BY <1>0, <1>a, <1>5
    DEF Phases, Started, Locals, Building, Filed, Early, Observing, Ending, Active,
        EgressHolds
  <2>3. Filed' BY <1>0, <1>a, <1>5 DEF Filed, Observing, Ending
  <2>4. SealedInv' BY <1>0, <1>a, <1>5 DEF SealedInv
  <2> QED BY <2>1, <2>2, <2>3, <2>4 DEF ResultInv
<1>6. ASSUME pc' = "cleanjoin",
             loc'.startErr = loc.startErr, loc'.egress = loc.egress, loc'.owned = loc.owned,
             \/ loc'.before = loc.before /\ loc'.after = loc.after
             \/ ~loc'.before /\ ~loc'.after /\ "RUNTIME_OBSERVATION_INVALID" \in res'.reasons,
             res'.target = res.target, res'.cleanup = res.cleanup,
             res'.proxyAbsent = res.proxyAbsent,
             \/ loc.finalOk /\ res'.status = res.status /\ res'.reasons = res.reasons
                /\ loc'.before /\ loc'.after
             \/ loc.finalOk /\ res'.status = "incomplete"
                  /\ "ARTIFACT_COLLECTION_FAILED" \in res'.reasons
                /\ loc'.before /\ loc'.after
             \/ res'.status = "incomplete" /\ "FINALIZATION_FAILED" \in res'.reasons,
             \/ files' = files \cup (entries' \ entries)
             \/ files' = files \cup (entries' \ entries) \cup {"artifacts"}
                /\ "ARTIFACT_COLLECTION_FAILED" \in res'.reasons,
             entries' \in {{"authority", "inventory"}, {"authority", "artifacts", "inventory"}}
      PROVE  ResultInv'
  <2>1. Locals' BY <1>0, <1>a, <1>d, <1>6 DEF Locals, Early, Observing, Ending
  <2>2. Building' BY <1>0, <1>a, <1>d, <1>6 DEF Building, Early, Observing, Ending
  <2>3. Filed' BY <1>0, <1>a, <1>d, <1>6 DEF Filed, Observing, Ending
  <2>4. SealedInv' BY <1>a, <1>d DEF SealedInv
  <2> QED BY <2>1, <2>2, <2>3, <2>4 DEF ResultInv
<1>7. CASE /\ loc.finalOk /\ pc' = "cleanjoin"
           /\ Written({"artifacts", "inventory"}) /\ UNCHANGED <<loc, res>>
  BY <1>d, <1>6, <1>7 DEF Written
<1>8. CASE /\ loc.finalOk /\ pc' = "cleanjoin" /\ DropArtifacts /\ UNCHANGED loc
           /\ res' = Incomplete(res, {"ARTIFACT_COLLECTION_FAILED"})
  BY <1>b, <1>c, <1>d, <1>6, <1>8 DEF DropArtifacts
<1>9. CASE /\ pc' = "cleanjoin" /\ Written({"inventory"}) /\ UNCHANGED loc
           /\ res' = Incomplete(res, {"FINALIZATION_FAILED"})
  BY <1>b, <1>c, <1>d, <1>6, <1>9 DEF Written
<1>10. CASE /\ pc' = "cleanjoin" /\ Written({"inventory"})
            /\ loc' = [loc EXCEPT !.before = FALSE, !.after = FALSE]
            /\ res' = Incomplete(res, {"RUNTIME_OBSERVATION_INVALID", "FINALIZATION_FAILED"})
  <2>1. /\ loc'.startErr = loc.startErr /\ loc'.egress = loc.egress /\ loc'.owned = loc.owned
        /\ ~loc'.before /\ ~loc'.after
    BY <1>0, <1>10 DEF Locs
  <2> QED BY <1>b, <1>c, <1>d, <1>6, <1>10, <2>1 DEF Written
<1> QED BY <1>5, <1>7, <1>8, <1>9, <1>10 DEF Collect

\* A cleaner is spawned for a result that is not sealed.
LEMMA SpawnKeeps ==
  ASSUME TypeOK, RuntimeInv, ResultInv, ~sealed,
         SpawnCleaner("cleanjoin", "cleaning") \/ SpawnCleaner("abort", "aborting")
  PROVE  ResultInv'
<1>0. /\ Phases /\ Exclusive /\ Started /\ Observed /\ Cleaned
      /\ Locals /\ Building /\ Filed /\ SealedInv
      /\ loc \in Locs /\ res \in Results
  BY DEF RuntimeInv, ResultInv, TypeOK, Locs, Results
<1>a. /\ UNCHANGED <<res, sealed, start, proc, fin, waitOut, cleanOut, files, entries>>
      /\ \/ pc = "cleanjoin" /\ pc' = "cleaning"
         \/ pc = "abort" /\ pc' = "aborting"
      /\ loc' = [loc EXCEPT !.owned = TRUE]
  BY DEF SpawnCleaner, Goto, host, own, workers, outcomes, stream, rvars
<1>b. /\ loc'.startErr = loc.startErr /\ loc'.admitted = loc.admitted
      /\ loc'.finalOk = loc.finalOk /\ loc'.before = loc.before /\ loc'.after = loc.after
      /\ loc'.egress = loc.egress
  BY <1>0, <1>a DEF Locs
<1>1. Locals'
  BY <1>0, <1>a, <1>b DEF Locals, Building, Early, Observing, Ending, StartFailures
<1>2. Building'
  BY <1>0, <1>a, <1>b
  DEF Phases, Started, Locals, Building, Filed, Early, Observing, Ending, Active,
      EgressHolds
<1>3. Filed' BY <1>0, <1>a, <1>b DEF Filed, Observing, Ending
<1>4. SealedInv' BY <1>0, <1>a, <1>b DEF SealedInv
<1> QED BY <1>1, <1>2, <1>3, <1>4 DEF ResultInv

\* Cleanup is begun, or given up for a worker that does not join.
LEMMA BeginCleanupKeeps == ASSUME TypeOK, RuntimeInv, ResultInv, BeginCleanup PROVE ResultInv'
<1>0. /\ Phases /\ Exclusive /\ Started /\ Observed /\ Cleaned
      /\ Locals /\ Building /\ Filed /\ SealedInv
      /\ loc \in Locs /\ res \in Results
  BY DEF RuntimeInv, ResultInv, TypeOK, Locs, Results
<1>a. ~sealed BY <1>0 DEF SealedInv, BeginCleanup, SpawnCleaner, Goto
<1>b. CASE SpawnCleaner("cleanjoin", "cleaning") BY <1>a, <1>b, SpawnKeeps
<1>c. CASE ~SpawnCleaner("cleanjoin", "cleaning")
  <2>a. /\ UNCHANGED <<sealed, start, proc, fin, waitOut, cleanOut, files, entries>>
        /\ pc = "cleanjoin" /\ pc' = "judge"
        /\ loc' = [loc EXCEPT !.owned = TRUE, !.unjoined = TRUE]
        /\ res' = Swept(Incomplete(res, {"CLEANUP_INCOMPLETE"}), "incomplete", FALSE)
    BY <1>c DEF BeginCleanup, Goto, host, own, workers, outcomes, stream, rvars
  <2>b. /\ loc'.startErr = loc.startErr /\ loc'.admitted = loc.admitted
        /\ loc'.finalOk = loc.finalOk /\ loc'.before = loc.before /\ loc'.after = loc.after
        /\ loc'.egress = loc.egress
    BY <1>0, <2>a DEF Locs
  <2>c. /\ res'.status = "incomplete" /\ res'.target = res.target /\ res'.cleanup = "incomplete"
        /\ res'.proxyAbsent = FALSE /\ res'.reasons = res.reasons \cup {"CLEANUP_INCOMPLETE"}
    <3>1. {"CLEANUP_INCOMPLETE"} \in SUBSET Reasons BY DEF Reasons
    <3>2. Incomplete(res, {"CLEANUP_INCOMPLETE"}) \in Results
      BY <1>0, <3>1, IncompleteFields
    <3> DEFINE i == Incomplete(res, {"CLEANUP_INCOMPLETE"})
    <3>3. /\ i.status = "incomplete" /\ i.target = res.target
          /\ i.reasons = res.reasons \cup {"CLEANUP_INCOMPLETE"}
      BY <1>0, <3>1, IncompleteFields
    <3>4. i \in Results /\ res' = Swept(i, "incomplete", FALSE) BY <2>a, <3>2
    <3> HIDE DEF i
    <3> QED BY <3>3, <3>4, SweptFields
  <2>1. Locals'
    BY <1>0, <2>a, <2>b, <2>c, <1>a
    DEF Locals, Building, Early, Observing, Ending, StartFailures
  <2>2. Building'
    BY <1>0, <2>a, <2>b, <2>c, <1>a
    DEF Phases, Started, Locals, Building, Filed, Early, Observing, Ending, Active,
        EgressHolds
  <2>3. Filed' BY <1>0, <2>a, <2>b, <2>c, <1>a DEF Filed, Observing, Ending
  <2>4. SealedInv' BY <1>0, <2>a, <2>b, <2>c, <1>a DEF SealedInv
  <2> QED BY <2>1, <2>2, <2>3, <2>4 DEF ResultInv
<1> QED BY <1>b, <1>c

\* Deferred cleanup.
LEMMA AbortKeeps == ASSUME TypeOK, RuntimeInv, ResultInv, Abort PROVE ResultInv'
<1>0. /\ Phases /\ Exclusive /\ Started /\ Observed /\ Cleaned
      /\ Locals /\ Building /\ Filed /\ SealedInv
      /\ loc \in Locs /\ res \in Results
  BY DEF RuntimeInv, ResultInv, TypeOK, Locs, Results
<1>a. CASE ~loc.owned /\ SpawnCleaner("abort", "aborting")
  BY <1>0, <1>a, SpawnKeeps DEF SealedInv
<1>b. CASE loc.owned /\ Goto("abort", "returned")
           /\ UNCHANGED <<rvars, loc, res, files, entries, sealed>>
  <2>a. /\ UNCHANGED <<loc, res, files, entries, sealed, start, proc, fin, waitOut, cleanOut,
             kept, total, closed>>
        /\ pc = "abort" /\ pc' = "returned"
    BY <1>b DEF Goto, host, own, workers, outcomes, stream, rvars
  <2>1. Locals' BY <1>0, <2>a DEF Locals, Early, Observing, Ending
  <2>2. Building' BY <1>0, <2>a DEF Building, Early, Ending, Active
  <2>3. Filed' BY <1>0, <2>a DEF Filed, Observing, Ending
  <2>4. SealedInv'
    BY <1>0, <2>a
    DEF SealedInv, Valid, ValidIdentity, ValidStream, ValidCleanup, ValidManifest, Leftover,
        VerifyRetainedRuntimeEvidence, VerifyEgress, EgressHolds
  <2> QED BY <2>1, <2>2, <2>3, <2>4 DEF ResultInv
<1> QED BY <1>a, <1>b DEF Abort

\* What the cleaner reports.
LEMMA ObserveCleanupKeeps == ASSUME TypeOK, RuntimeInv, ResultInv, ObserveCleanup PROVE ResultInv'
<1>0. /\ Phases /\ Exclusive /\ Started /\ Observed /\ Cleaned
      /\ Locals /\ Building /\ Filed /\ SealedInv
      /\ loc \in Locs /\ res \in Results
  BY DEF RuntimeInv, ResultInv, TypeOK, Locs, Results
<1>a. /\ UNCHANGED <<loc, sealed, start, proc, fin, waitOut, cleanOut, files, entries>>
      /\ pc = "cleaning" /\ pc' = "judge"
  BY DEF ObserveCleanup, Goto, host, own, workers, outcomes, stream, rvars
<1>b. /\ \/ cleanOut = "complete" /\ res' = Swept(res, "complete", TRUE)
         \/ \E b \in BOOLEAN: res' = Swept(Incomplete(res, {"CLEANUP_INCOMPLETE"}), "incomplete", b)
  <2>1. (cleanOut = "incomplete") \in BOOLEAN OBVIOUS
  <2> QED BY <2>1 DEF ObserveCleanup
<1>c. \/ /\ res'.status = res.status /\ res'.target = res.target /\ res'.cleanup = "complete"
         /\ res'.proxyAbsent /\ res'.reasons = res.reasons /\ cleanOut = "complete"
      \/ /\ res'.status = "incomplete" /\ res'.target = res.target /\ res'.cleanup = "incomplete"
         /\ res'.reasons = res.reasons \cup {"CLEANUP_INCOMPLETE"}
  <2>1. {"CLEANUP_INCOMPLETE"} \in SUBSET Reasons BY DEF Reasons
  <2>2. Incomplete(res, {"CLEANUP_INCOMPLETE"}) \in Results BY <1>0, <2>1, IncompleteFields
  <2> DEFINE i == Incomplete(res, {"CLEANUP_INCOMPLETE"})
  <2>3. /\ i.status = "incomplete" /\ i.target = res.target
        /\ i.reasons = res.reasons \cup {"CLEANUP_INCOMPLETE"}
    BY <1>0, <2>1, IncompleteFields
  <2>4. /\ i \in Results
        /\ \/ cleanOut = "complete" /\ res' = Swept(res, "complete", TRUE)
           \/ \E b \in BOOLEAN: res' = Swept(i, "incomplete", b)
    BY <1>b, <2>2
  <2> HIDE DEF i
  <2>5. CASE cleanOut = "complete" /\ res' = Swept(res, "complete", TRUE)
    BY <1>0, <2>5, SweptFields
  <2>6. ASSUME NEW b \in BOOLEAN, res' = Swept(i, "incomplete", b)
        PROVE  /\ res'.status = "incomplete" /\ res'.target = res.target
                    /\ res'.cleanup = "incomplete"
               /\ res'.reasons = res.reasons \cup {"CLEANUP_INCOMPLETE"}
    BY <2>3, <2>4, <2>6, SweptFields
  <2> QED BY <2>4, <2>5, <2>6
<1>d. ~sealed BY <1>0, <1>a DEF SealedInv
<1>1. Locals'
  BY <1>0, <1>a, <1>c, <1>d DEF Locals, Building, Early, Observing, Ending, StartFailures
<1>2. Building'
  BY <1>0, <1>a, <1>c, <1>d
  DEF Phases, Started, Locals, Building, Filed, Early, Observing, Ending, Active,
      EgressHolds
<1>3. Filed' BY <1>0, <1>a, <1>c, <1>d DEF Filed, Observing, Ending
<1>4. SealedInv' BY <1>0, <1>a, <1>c, <1>d DEF SealedInv
<1> QED BY <1>1, <1>2, <1>3, <1>4 DEF ResultInv

\* The streams are closed.
LEMMA CloseStreamsKeeps == ASSUME TypeOK, RuntimeInv, ResultInv, CloseStreams PROVE ResultInv'
<1>0. /\ Phases /\ Exclusive /\ Started /\ Observed /\ Cleaned
      /\ Locals /\ Building /\ Filed /\ SealedInv
      /\ loc \in Locs /\ res \in Results
  BY DEF RuntimeInv, ResultInv, TypeOK, Locs, Results
<1>a. /\ UNCHANGED <<loc, sealed, start, proc, fin, waitOut, cleanOut, files, kept, total>>
      /\ pc = "close"
      /\ \/ /\ pc' = "seal" /\ closed' /\ entries' = entries \cup {"streams"}
            /\ res' = IF kept < total THEN Incomplete(res, {"OUTPUT_TRUNCATED"}) ELSE res
         \/ pc' = "abort" /\ UNCHANGED <<entries, res>>
  BY DEF CloseStreams, CloseResult, Goto, host, own, workers, outcomes, stream, rvars
<1>b. \/ /\ res'.status = "incomplete" /\ res'.target = res.target /\ res'.cleanup = res.cleanup
         /\ res'.proxyAbsent = res.proxyAbsent
              /\ res'.reasons = res.reasons \cup {"OUTPUT_TRUNCATED"}
      \/ res' = res /\ (pc' = "seal" => kept = total)
  <2>1. {"OUTPUT_TRUNCATED"} \in SUBSET Reasons BY DEF Reasons
  <2>2. ~(kept < total) => kept = total BY DEF TypeOK, RuntimeTypeOK
  <2> QED BY <1>0, <1>a, <2>1, <2>2, IncompleteFields
<1>c. ~sealed BY <1>0, <1>a DEF SealedInv
<1>d. /\ UNCHANGED <<loc, sealed, start, proc, fin, waitOut, cleanOut, files, kept, total>>
      /\ pc = "close"
      /\ \/ pc' = "seal" /\ closed' /\ entries' = entries \cup {"streams"}
         \/ pc' = "abort"
  BY <1>a
<1>1. Locals'
  BY <1>0, <1>d, <1>b, <1>c DEF Locals, Building, Early, Observing, Ending, StartFailures
<1>2. Building'
  BY <1>0, <1>d, <1>b, <1>c
  DEF Phases, Started, Locals, Building, Filed, Early, Observing, Ending, Active,
      EgressHolds
<1>3. Filed' BY <1>0, <1>d, <1>b, <1>c DEF Filed, Observing, Ending
<1>4. SealedInv' BY <1>0, <1>d, <1>b, <1>c DEF SealedInv
<1> QED BY <1>1, <1>2, <1>3, <1>4 DEF ResultInv

\* What a judgement does to a result.
LEMMA JudgedFields ==
  ASSUME loc \in Locs, NEW r \in Results
  PROVE  /\ Judged(r).cleanup = r.cleanup /\ Judged(r).proxyAbsent = r.proxyAbsent
         /\ ~loc.startErr \/ r.cleanup # "complete" => Judged(r) = r
         /\ loc.startErr /\ r.cleanup = "complete" /\ loc.admitted =>
              /\ Judged(r).status = "incomplete" /\ Judged(r).target = "unknown"
              /\ Judged(r).reasons = {"RUNTIME_START_OBSERVATION_FAILED"}
         /\ loc.startErr /\ r.cleanup = "complete" /\ ~loc.admitted =>
              /\ Judged(r).status = "refused" /\ Judged(r).target = r.target
              /\ Judged(r).reasons = {"RUNTIME_START_FAILED"}
<1>1. /\ {"RUNTIME_START_OBSERVATION_FAILED"} \in SUBSET Reasons
      /\ {"RUNTIME_START_FAILED"} \in SUBSET Reasons
      /\ r.target \in {"not_started", "unknown", "exited"}
  BY DEF Reasons, Results
<1> QED BY <1>1, DecidedFields DEF Judged

\* The judgement before publication records what is missing.
LEMMA JudgeKeeps == ASSUME TypeOK, RuntimeInv, ResultInv, Judge PROVE ResultInv'
<1>0. /\ Phases /\ Exclusive /\ Started /\ Observed /\ Cleaned
      /\ Locals /\ Building /\ Filed /\ SealedInv
      /\ loc \in Locs /\ res \in Results
  BY DEF RuntimeInv, ResultInv, TypeOK, Locs, Results
<1>a. /\ UNCHANGED <<sealed, start, proc, fin, waitOut, cleanOut, files, entries>>
      /\ pc = "judge" /\ pc' = "publish"
  BY DEF Judge, Goto, host, own, workers, outcomes, stream, rvars
<1>b. ~sealed BY <1>0, <1>a DEF SealedInv
<1>c. PICK why \in SUBSET {"EGRESS_EVIDENCE_MISSING", "EGRESS_EVIDENCE_INVALID"}:
        /\ res' = Judged(IF why = {} THEN res ELSE Incomplete(res, why))
        /\ \/ why = {} /\ UNCHANGED loc
              /\ (Net => loc.egress # "none" /\ EgressHolds(loc.egress, res))
           \/ why # {} /\ loc'.egress = "none"
        /\ loc' = loc \/ loc' = [loc EXCEPT !.egress = "none"]
  <2> DEFINE Q(why) ==
        /\ res' = Judged(IF why = {} THEN res ELSE Incomplete(res, why))
        /\ \/ why = {} /\ UNCHANGED loc
              /\ (Net => loc.egress # "none" /\ EgressHolds(loc.egress, res))
           \/ why # {} /\ loc'.egress = "none"
        /\ loc' = loc \/ loc' = [loc EXCEPT !.egress = "none"]
  <2>1. CASE /\ Net => loc.egress # "none" /\ EgressHolds(loc.egress, res)
             /\ res' = Judged(res) /\ UNCHANGED loc
    <3> WITNESS {} \in SUBSET {"EGRESS_EVIDENCE_MISSING", "EGRESS_EVIDENCE_INVALID"}
    <3> QED BY <2>1
  <2>2. CASE /\ loc.egress = "none" /\ UNCHANGED loc
             /\ res' = Judged(Incomplete(res, {"EGRESS_EVIDENCE_MISSING"}))
    <3>1. Q({"EGRESS_EVIDENCE_MISSING"}) BY <2>2
    <3> QED BY <3>1
  <2>3. CASE /\ loc' = [loc EXCEPT !.egress = "none"]
             /\ res' = Judged(Incomplete(res, {"EGRESS_EVIDENCE_INVALID"}))
    <3>1. loc'.egress = "none" BY <1>0, <2>3 DEF Locs
    <3>2. Q({"EGRESS_EVIDENCE_INVALID"}) BY <2>3, <3>1
    <3> QED BY <3>2
  <2> QED BY <2>1, <2>2, <2>3 DEF Judge
<1>d. /\ loc'.startErr = loc.startErr /\ loc'.admitted = loc.admitted
      /\ loc'.finalOk = loc.finalOk /\ loc'.before = loc.before /\ loc'.after = loc.after
      /\ loc'.egress \in {"none", loc.egress} /\ loc'.owned = loc.owned
  BY <1>0, <1>c DEF Locs
<1> DEFINE r == IF why = {} THEN res ELSE Incomplete(res, why)
<1>e. /\ r \in Results /\ r.target = res.target /\ r.cleanup = res.cleanup
      /\ r.proxyAbsent = res.proxyAbsent /\ r.reasons = res.reasons \cup why
      /\ r.status = IF why = {} THEN res.status ELSE "incomplete"
  <2>1. why \in SUBSET Reasons BY DEF Reasons
  <2>2. CASE why = {} BY <1>0, <2>2
  <2>3. CASE why # {} BY <1>0, <2>1, <2>3, IncompleteFields
  <2> QED BY <2>2, <2>3
<1> HIDE DEF r
<1>f. /\ res'.cleanup = res.cleanup /\ res'.proxyAbsent = res.proxyAbsent
      /\ ~loc.startErr \/ res.cleanup # "complete" =>
           /\ res'.target = res.target /\ res'.reasons = res.reasons \cup why
           /\ res'.status = IF why = {} THEN res.status ELSE "incomplete"
      /\ loc.startErr /\ res.cleanup = "complete" /\ loc.admitted =>
           /\ res'.status = "incomplete" /\ res'.target = "unknown"
           /\ res'.reasons = {"RUNTIME_START_OBSERVATION_FAILED"}
      /\ loc.startErr /\ res.cleanup = "complete" /\ ~loc.admitted =>
           /\ res'.status = "refused" /\ res'.target = res.target
           /\ res'.reasons = {"RUNTIME_START_FAILED"}
  <2>1. res' = Judged(r) BY <1>c DEF r
  <2> QED BY <1>0, <1>e, <2>1, JudgedFields
<1>g. \/ /\ why = {} /\ loc'.egress = loc.egress
         /\ Net => loc.egress # "none" /\ EgressHolds(loc.egress, res)
      \/ why # {} /\ loc'.egress = "none"
  BY <1>c
<1>1. Locals'
  BY <1>0, <1>a, <1>b, <1>d, <1>f, <1>g
  DEF Locals, Building, Early, Observing, Ending, StartFailures
<1>2. Building'
  BY <1>0, <1>a, <1>b, <1>d, <1>f, <1>g
  DEF Phases, Started, Locals, Building, Filed, Early, Observing, Ending, Active,
      EgressHolds
<1>3. Filed' BY <1>0, <1>a, <1>b, <1>d, <1>f, <1>g DEF Filed, Observing, Ending
<1>4. SealedInv' BY <1>0, <1>a, <1>b, <1>d, <1>f, <1>g DEF SealedInv
<1> QED BY <1>1, <1>2, <1>3, <1>4 DEF ResultInv

\* Run keeps the invariant of its result.
LEMMA RunResultInv == ASSUME TypeOK, RuntimeInv, ResultInv, Run PROVE ResultInv'
BY PrepareKeeps, StartKeeps, BeginWaitKeeps, ObserveWaitKeeps, JoinWaitKeeps,
   ObserveFinalKeeps,
   CollectKeeps, InventoryKeeps, BeginCleanupKeeps, ObserveCleanupKeeps, JudgeKeeps,
   PublishKeeps,
   CloseStreamsKeeps, SealKeeps, AbortKeeps, AbortingKeeps
   DEF Run

(* Theorems *)

\* The invariant holds before Run has done anything.
LEMMA JobInitInv == Init => JobInv
<1> SUFFICES ASSUME Init PROVE JobInv OBVIOUS
<1> USE DEF Init, RuntimeInit
<1>1. TypeOK
  <2>1. Flags BY DEF Flags
  <2>2. Marks
    BY DEF Marks, FinOuts, StartLabels, WaitLabels, FinLabels, CleanLabels, Deadlines
  <2>3. Counts BY JobConstants DEF Counts
  <2>4. ResultTypeOK BY DEF ResultTypeOK, Locs, Results, Labels, Reasons, Files
  <2> QED BY <2>1, <2>2, <2>3, <2>4
        DEF TypeOK, RuntimeTypeOK, Flags, Marks, FinOuts, Counts, ResultTypeOK, Locs,
            Results
<1>2. RuntimeInv
  BY
  DEF RuntimeInv, Phases, Exclusive, CleanupIsExclusive, Started, Observed, Cleaned, Early,
    Observing, Ending, Active
<1>3. ResultInv
  BY DEF ResultInv, Locals, Building, Filed, SealedInv, Early, Observing, Ending, Active
<1> QED BY <1>1, <1>2, <1>3 DEF JobInv

\* Run, every worker, the host and the passing of a deadline keep it.
LEMMA JobStep == JobInv /\ [Next]_vars => JobInv'
<1> SUFFICES ASSUME JobInv, [Next]_vars PROVE JobInv' OBVIOUS
<1>0. TypeOK /\ RuntimeTypeOK /\ RuntimeInv /\ ResultInv BY DEF JobInv, TypeOK
<1>a. ASSUME RuntimeTypeOK', ResultTypeOK' PROVE TypeOK'
  BY <1>a DEF TypeOK, ResultTypeOK, Locs, Results
<1>b. ASSUME UNCHANGED evars PROVE ResultTypeOK'
  BY <1>0, <1>b DEF TypeOK, ResultTypeOK, Locs, Results, evars
<1>1. CASE Run
  BY <1>0, <1>1, <1>a, RunRuntimeType, RunResultType, RunRuntimeInv, RunResultInv DEF JobInv
<1>2. CASE (Workers \/ External) /\ UNCHANGED evars
  <2>1. TypeOK'
    BY <1>0, <1>2, <1>a, <1>b, ExternalType, CaptureType, StartType, WaitType, FinalizeType,
      CleanupType DEF Workers
  <2>2. RuntimeInv'
    BY <1>0, <1>2, ExternalInv, CaptureInv, StartInv, WaitInv, FinalizeInv, CleanupInv
    DEF Workers
  <2>3. ResultInv' BY <1>0, <1>2, WorkersLast, LastingKeeps
  <2> QED BY <2>1, <2>2, <2>3 DEF JobInv
<1>3. ASSUME UNCHANGED <<host, own, workers, outcomes, stream, faults, evars>>,
             expired' \subseteq Deadlines
      PROVE  JobInv'
  <2> USE <1>3 DEF host, own, workers, outcomes, stream
  <2>1. RuntimeTypeOK' BY <1>0 DEF RuntimeTypeOK
  <2>2. RuntimeInv'
    BY <1>0
    DEF RuntimeInv, Phases, Exclusive, CleanupIsExclusive, Started, Observed, Cleaned,
      Active, evars
  <2>3. Lasting BY DEF Lasting
  <2>4. ResultInv' BY <1>0, <2>3, LastingKeeps
  <2> QED BY <2>1, <2>2, <2>4, <1>a, <1>b DEF JobInv
<1>4. ASSUME NEW d \in Deadlines, Expire(d) PROVE JobInv'
  <2>1. expired' \subseteq Deadlines BY <1>0, <1>4 DEF Expire, RuntimeTypeOK
  <2> QED BY <1>3, <1>4, <2>1 DEF Expire
<1>5. CASE UNCHANGED vars
  <2>1. expired' \subseteq Deadlines BY <1>0, <1>5 DEF vars, rvars, RuntimeTypeOK
  <2> QED BY <1>3, <1>5, <2>1 DEF vars, rvars
<1> QED BY <1>1, <1>2, <1>4, <1>5 DEF Next

\* The invariant of the executor and its runtime.
THEOREM JobInvariant == Spec => []JobInv
BY JobInitInv, JobStep, PTL DEF Spec

\* Locals, result, evidence and host keep their types (Executor.Run and Runtime).
THEOREM JobType == Spec => []TypeOK
<1>1. JobInv => TypeOK BY DEF JobInv
<1> QED BY <1>1, JobInvariant, PTL

\* A sealed "complete" of Executor.Run is true, and stays true whatever the workers
\* it left behind still do.
THEOREM CompleteHolds == Spec => []CompleteIsTrue
<1>1. JobInv => CompleteIsTrue
  <2> SUFFICES ASSUME JobInv, sealed, res.status = "complete"
               PROVE  /\ target = "ended" /\ slot /\ kept = wrote
                      /\ {start, wait, fin, clean} = {"done"}
                      /\ ctr = "absent" /\ client = "ended" /\ ~scratch
                      /\ door = IF Net THEN "joined" ELSE "none"
    BY DEF CompleteIsTrue
  <2>1. RuntimeInv /\ Building /\ SealedInv BY DEF JobInv, ResultInv
  <2>2. /\ waitOut = "exited" /\ start = "done" /\ proc = "live" /\ fin = "done"
        /\ res.cleanup = "complete" /\ kept = total
    BY <2>1 DEF Building, SealedInv, Valid, ValidStream
  <2>3. cleanOut = "complete" BY <2>1, <2>2 DEF Building
  <2>4. /\ clientOk /\ wait = "done" /\ client = "ended" /\ target = "ended" /\ slot
             /\ total = wrote
    BY <2>1, <2>2 DEF RuntimeInv, Observed
  <2>5. /\ clean = "done" /\ ctr = "absent" /\ door \in {"none", "joined"} /\ (scratch => ~named)
    BY <2>1, <2>3 DEF RuntimeInv, Cleaned
  <2>6. named /\ (Net => door # "none") /\ (door # "none" => Net)
    BY <2>1, <2>2 DEF RuntimeInv, Started
  <2> QED BY <2>2, <2>4, <2>5, <2>6
<1> QED BY <1>1, JobInvariant, PTL

\* A sealed "not_started" of Executor.Run is true and stays true: no late Start
\* brings a target to life.
THEOREM NotStartedHolds == Spec => []NotStartedIsTrue
<1>1. JobInv => NotStartedIsTrue
  <2> SUFFICES ASSUME JobInv, sealed, res.target = "not_started"
               PROVE  target = "none" /\ client = "none" /\ start \in {"none", "done"}
    BY DEF NotStartedIsTrue
  <2>1. Started /\ Observed /\ Building /\ pc \in {"abort", "returned"}
    BY DEF JobInv, RuntimeInv, ResultInv, SealedInv
  <2>2. ~Active(start) /\ proc = "none" BY <2>1 DEF Building, Early
  <2> QED BY <2>1, <2>2 DEF Started, Observed, Active
<1> QED BY <1>1, JobInvariant, PTL

\* A cleanup that Executor.Run seals as complete has left nothing of the job.
THEOREM CleanupHolds == Spec => []CleanupIsTrue
<1>1. JobInv => CleanupIsTrue
  <2> SUFFICES ASSUME JobInv, sealed, res.cleanup = "complete" PROVE CleanupIsTrue
    BY DEF CleanupIsTrue
  <2>1. cleanOut = "complete" BY DEF JobInv, ResultInv, Building
  <2> QED BY <2>1 DEF JobInv, RuntimeInv, Cleaned, Observed, CleanupIsTrue
<1> QED BY <1>1, JobInvariant, PTL

\* Runtime.Cleanup works alone: cleanupRuntimeAfterStartBounded, JoinWait and
\* JoinFinalization let it change nothing before Start, Wait and Finalize are back.
THEOREM CleanupAlone == Spec => []CleanupIsExclusive
<1>1. JobInv => CleanupIsExclusive BY DEF JobInv, RuntimeInv, Exclusive
<1> QED BY <1>1, JobInvariant, PTL

\* Executor.Run does not return from a started job without a cleaner, unless a
\* worker of the job did not join.
THEOREM CleanupHappens == Spec => []CleanupNotSkipped
<1>1. JobInv => CleanupNotSkipped BY DEF JobInv, RuntimeInv, Phases, CleanupNotSkipped
<1> QED BY <1>1, JobInvariant, PTL

\* What Executor.Run builds the contract accepts, and what it seals the offline
\* verifier accepts, but for artifacts it could not remove and a torn stream.
THEOREM SealedIsAccepted == Spec => []SealedVerifies
<1>1. JobInv => SealedVerifies
  <2> SUFFICES ASSUME JobInv PROVE SealedVerifies OBVIOUS
  <2>0. Locals /\ Building /\ Filed /\ SealedInv /\ Phases /\ res \in Results
        /\ entries \subseteq Files
    BY DEF JobInv, ResultInv, RuntimeInv, TypeOK, Results
  <2>1. ASSUME pc = "seal" PROVE Valid(res)
    <3>1. ValidIdentity(res) /\ ValidStream(res) /\ ValidCleanup(res)
      BY <2>0, <2>1 DEF Building, Ending, ValidIdentity, ValidStream, ValidCleanup
    <3>2. res.status \in {"complete", "incomplete", "refused"} BY <2>0 DEF Results
    <3> QED BY <2>0, <2>1, <3>1, <3>2 DEF Building, Valid
  <2>2. ASSUME sealed, ~Leftover, written # "torn" PROVE VerifyOK
    <3>1. ClassifyManifest
      BY <2>0, <2>2 DEF SealedInv, ValidManifest, ClassifyManifest, Required, Files
    <3> QED BY <2>0, <2>2, <3>1
      DEF SealedInv, VerifyOK, VerifyClosedInventory, VerifyArtifacts,
          VerifyStreams
  <2> QED BY <2>1, <2>2 DEF SealedVerifies
<1> QED BY <1>1, JobInvariant, PTL
-----------------------------------------------------------------------------
(* Run ends *)

\* How many steps of its own Run has before it at most.
Ahead ==
  [prepare |-> 17, start |-> 16, starting |-> 15, identity |-> 14, wait |-> 13,
   waiting |-> 12, joinwait |-> 11, finalizing |-> 10, collect |-> 9,
   inventory |-> 9, cleanjoin |-> 8, cleaning |-> 7, judge |-> 6, publish |-> 5,
   close |-> 4, seal |-> 3, abort |-> 2, aborting |-> 1, returned |-> 0]

\* The guards of Run's steps: the worker it waits for is back or the context it
\* waits under has ended, and what it is to seal is in order (a seal is refused
\* only for what is not, or by a failing call).
Ready ==
  /\ pc = "starting" => start = "done" \/ "exec" \in expired
  /\ pc = "waiting" => (wait = "done" /\ waitOut # "none") \/ "exec" \in expired
  /\ pc = "joinwait" => wait = "done" \/ "final" \in expired
  /\ pc = "finalizing" => fin = "done" \/ "final" \in expired
  /\ pc = "cleanjoin" => ~loc.process \/ Joined \/ "clean" \in expired
  /\ pc \in {"cleaning", "aborting"} => clean = "done" \/ expired \cap {"work", "clean"} # {}
  /\ pc = "seal" => ~Valid(res) \/ ValidManifest(entries \cup {"result"}) \/ faults > 0
  /\ pc # "returned"

\* When every context that exists has ended Run has a step to take, whatever its
\* workers, podman and the target do or leave undone.
NeverStuck == pc # "returned" /\ Pending \subseteq expired => Ready

\* Every step of Run's brings it nearer to its end, no context begins again, and
\* nothing that workers do sets it back.
RunDescends ==
  [][/\ expired \subseteq expired'
     /\ IF Run THEN Ahead[pc'] < Ahead[pc] ELSE pc' = pc]_vars

LEMMA AheadBounds ==
  ASSUME pc \in Labels
  PROVE  Ahead[pc] \in 0..17 /\ (Ahead[pc] = 0 <=> pc = "returned")
BY DEF Ahead, Labels

\* The labels in the order of Run.
LEMMA AheadOrder ==
  /\ Ahead["prepare"] = 17 /\ Ahead["start"] = 16 /\ Ahead["starting"] = 15
  /\ Ahead["identity"] = 14 /\ Ahead["wait"] = 13 /\ Ahead["waiting"] = 12
  /\ Ahead["joinwait"] = 11 /\ Ahead["finalizing"] = 10 /\ Ahead["collect"] = 9
  /\ Ahead["inventory"] = 9 /\ Ahead["cleanjoin"] = 8 /\ Ahead["cleaning"] = 7
  /\ Ahead["judge"] = 6 /\ Ahead["publish"] = 5 /\ Ahead["close"] = 4
  /\ Ahead["seal"] = 3 /\ Ahead["abort"] = 2 /\ Ahead["aborting"] = 1
  /\ Ahead["returned"] = 0
BY DEF Ahead

LEMMA RunLowers == ASSUME Run PROVE Ahead[pc'] < Ahead[pc]
<1>1. CASE Prepare BY <1>1, AheadOrder DEF Prepare, Goto
<1>2. CASE BeginStart \/ ObserveStart \/ Identity
  <2>1. \/ pc = "start" /\ pc' \in {"inventory", "starting"}
        \/ pc = "starting" /\ pc' \in {"inventory", "identity"}
        \/ pc = "identity" /\ pc' \in {"inventory", "wait"}
    BY <1>2 DEF BeginStart, ObserveStart, Identity, StartFailed
  <2> QED BY <2>1, AheadOrder
<1>3. CASE BeginWait \/ ObserveWait \/ ObserveFinal
  BY <1>3, AheadOrder DEF BeginWait, ObserveWait, ObserveFinal, Goto
<1>4. CASE JoinWait BY <1>4, AheadOrder DEF JoinWait
<1>5. CASE Collect BY <1>5, AheadOrder DEF Collect
<1>6. CASE Inventory BY <1>6, AheadOrder DEF Inventory, Goto
<1>7. CASE BeginCleanup
  <2>1. pc = "cleanjoin" /\ pc' \in {"cleaning", "judge"}
    BY <1>7 DEF BeginCleanup, SpawnCleaner, Goto
  <2> QED BY <2>1, AheadOrder
<1>8. CASE ObserveCleanup \/ Judge
  <2>1. ObserveCleanup => pc = "cleaning" /\ pc' = "judge" BY DEF ObserveCleanup, Goto
  <2>2. Judge => pc = "judge" /\ pc' = "publish" BY DEF Judge, Goto
  <2> QED BY <1>8, <2>1, <2>2, AheadOrder
<1>9. CASE Publish \/ CloseStreams BY <1>9, AheadOrder DEF Publish, CloseStreams, Goto
<1>10. CASE Seal BY <1>10, AheadOrder DEF Seal, Goto
<1>11. CASE Abort \/ Aborting
  BY <1>11, AheadOrder DEF Abort, Aborting, SpawnCleaner, Goto
<1> QED BY <1>1, <1>2, <1>3, <1>4, <1>5, <1>6, <1>7, <1>8, <1>9, <1>10, <1>11 DEF Run

\* Contexts end by time and by Run, which cancels those it has no more use for.
LEMMA WorkersKeepContexts == ASSUME Workers \/ External PROVE UNCHANGED expired
<1>1. CASE External BY <1>1 DEF External, TargetBegin, TargetWrite, TargetEnd, ClientEnd
<1>2. CASE Capture BY <1>2 DEF Capture
<1>3. CASE Start
  BY <1>3 DEF Start, StartScratch, StartStage, StartCreate, StartReconcile, StartCopy,
    StartRun, StartVerify, StartEgress, StartExec
<1>4. CASE Wait
  BY <1>4 DEF Wait, WaitEnter, WaitTerminal, WaitExpired, WaitControl, WaitLate
<1>5. CASE Finalize
  BY <1>5 DEF Finalize, FinEnter, FinEgress, FinStop, FinInspect, FinCollect, FinTo
<1>6. CASE Cleanup
  BY <1>6 DEF Cleanup, CleanGate, CleanJoin, CleanDoor, CleanKill, CleanClient,
    CleanAdopt, CleanStop, CleanDestroy, CleanAbsent, CleanScratch, CleanTo
<1> QED BY <1>1, <1>2, <1>3, <1>4, <1>5, <1>6 DEF Workers

\* A context that has ended stays ended.
LEMMA EndedStays == ASSUME [Next]_vars PROVE expired \subseteq expired'
<1>1. CASE Run
  BY <1>1
  DEF Run, Prepare, BeginStart, ObserveStart, Identity, BeginWait, ObserveWait,
    JoinWait, ObserveFinal, Collect, Inventory, BeginCleanup, SpawnCleaner,
    ObserveCleanup, Judge, Publish, CloseStreams, Seal, Abort, Aborting, rvars
<1>2. CASE Workers \/ External BY <1>2, WorkersKeepContexts
<1>3. ASSUME NEW d \in Deadlines, Expire(d) PROVE expired \subseteq expired'
  BY <1>3 DEF Expire
<1>4. CASE UNCHANGED vars BY <1>4 DEF vars, rvars
<1> QED BY <1>1, <1>2, <1>3, <1>4 DEF Next

\* "A provider that ignores its context cannot make the caller wait without bound":
\* Executor.Run takes at most 17 steps, none of them twice, and waits at none of
\* them for longer than a context that has a deadline.
THEOREM RunIsBounded ==
  Spec => /\ [](Ahead[pc] \in 0..17 /\ (Ahead[pc] = 0 <=> pc = "returned") /\ NeverStuck)
          /\ RunDescends
<1>1. JobInv => Ahead[pc] \in 0..17 /\ (Ahead[pc] = 0 <=> pc = "returned") /\ NeverStuck
  <2> SUFFICES ASSUME JobInv
               PROVE  Ahead[pc] \in 0..17 /\ (Ahead[pc] = 0 <=> pc = "returned") /\ NeverStuck
    OBVIOUS
  <2>1. ASSUME pc # "returned", Pending \subseteq expired PROVE Ready
    <3>1. "exec" \in expired BY <2>1 DEF Pending
    <3>2. pc \in {"joinwait", "finalizing"} => "final" \in expired BY <2>1 DEF Pending
    <3>3. pc \in {"cleanjoin", "cleaning", "aborting"} => "clean" \in expired
      BY <2>1 DEF Pending
    <3>4. pc = "seal" => ValidManifest(entries \cup {"result"})
      BY DEF JobInv, ResultInv, Filed, Ending, ValidManifest, Required
    <3> QED BY <2>1, <3>1, <3>2, <3>3, <3>4 DEF Ready
  <2> QED BY <2>1, AheadBounds DEF NeverStuck, JobInv, TypeOK
<1>2. [Next]_vars => /\ expired \subseteq expired'
                     /\ IF Run THEN Ahead[pc'] < Ahead[pc] ELSE pc' = pc
  <2> SUFFICES ASSUME [Next]_vars
               PROVE  IF Run THEN Ahead[pc'] < Ahead[pc] ELSE pc' = pc
    BY EndedStays
  <2>1. ~Run => pc' = pc
    BY DEF Next, Expire, evars, vars
  <2> QED BY <2>1, RunLowers
<1> QED BY <1>1, <1>2, JobInvariant, PTL DEF Spec, RunDescends
=============================================================================
