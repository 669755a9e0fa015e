------------------------------- MODULE Verify -------------------------------
(***************************************************************************)
(* The offline verifier of internal/job: what Verify accepts of an         *)
(* evidence directory, held against every directory that Executor.Run      *)
(* (module Job) seals, however its workers, deadlines and writes failed.   *)
(* Digests, sizes and identities that both sides compute from the same     *)
(* bytes agree; what remains is which documents are there, what they say   *)
(* of each other, and whether the bytes on disk are the ones that were     *)
(* counted.  The job is one that asks for artifacts.                       *)
(***************************************************************************)
EXTENDS Job

\* classifyManifest: every entry has its place, and the mandatory ones are there.
ClassifyManifest ==
  /\ Required \subseteq entries
  /\ entries \subseteq Required \cup {"inventory", "egress", "artifacts"}

\* verifyClosedInventory: the directory holds what the manifest lists and nothing
\* else.
VerifyClosedInventory == files = entries

\* validateArtifactManifestAuthority and verifyArtifacts: what was asked for has
\* its inventory, which was written after the artifacts it lists.
VerifyArtifacts == "inventory" \in entries

\* readSealedEntry, and the streams as the result counts them.
VerifyStreams == written # "torn"

StartReasons == {"RUNTIME_START_FAILED", "RUNTIME_START_OBSERVATION_FAILED",
                 "RUNTIME_OBSERVATION_INVALID"}

\* verifyRetainedRuntimeEvidence: an observation that is absent has its reason.
VerifyRetainedRuntimeEvidence ==
  /\ ~loc.before => ~loc.after /\ res.reasons \cap StartReasons # {}
  /\ loc.before /\ ~loc.after =>
       res.status # "complete" /\ "FINALIZATION_FAILED" \in res.reasons

\* Egress evidence is there for a networked job that is complete, for no job
\* without a network, and never without the observation it is bound to.
VerifyEgress ==
  IF "egress" \in entries THEN Net /\ EgressHolds(loc.egress, res)
  ELSE Net => res.status # "complete"

VerifyOK ==
  /\ sealed /\ ValidManifest(entries) /\ ClassifyManifest
  /\ VerifyClosedInventory /\ Valid(res)
  /\ VerifyRetainedRuntimeEvidence /\ VerifyEgress /\ VerifyArtifacts
  /\ VerifyStreams

-----------------------------------------------------------------------------
\* Artifacts of a collection that failed and could not be removed.
Leftover ==
  /\ "ARTIFACT_COLLECTION_FAILED" \in res.reasons
  /\ files = entries \cup {"artifacts"}

\* Evidence of a job that ran is not lost for its form, in every order of late
\* workers, deadlines and failed writes: a result that Run has built is one the
\* contract accepts, and what Run seals, Verify accepts.  The two exceptions are
\* the failures Run does not look at: artifacts it could not remove again, and a
\* stream whose failed write left bytes behind.
SealedVerifies ==
  /\ pc = "seal" => Valid(res)
  /\ sealed /\ ~Leftover /\ written # "torn" => VerifyOK
=============================================================================
