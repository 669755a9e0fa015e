------------------------------ MODULE MCWorld ------------------------------
(* World on small constants: "a" opens a door, "b" does not. *)
EXTENDS World

TwoPlans == [d \in Decls |-> d]

AllLabels == Labels

\* Crashes everywhere but in startProxy between spawning a door that is kept
\* and writing proxy.pid.
RecoverableCrash == Labels \ {"a.ready", "m.ready", "r.ready"}

\* Host calls whose failure up or recovery handles before the commit record.
BeforeCommit == Labels \ (PublishLabels \cup CleanupLabels \cup RestoreLabels)

\* Host calls between the commit record and the return of up.
PublishFaults == PublishLabels
=============================================================================
