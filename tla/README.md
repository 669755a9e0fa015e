# A TLA+ development for kenogram

Kenogram builds *worlds*: long-lived, declared, rootless containers whose
configuration is regenerated from a declaration, whose workspace is carried
from one *generation* to the next, and whose only way to the network is a
per-world proxy, the *door*. It also runs *governed jobs*: one bounded command
in a throw-away container, with sealed evidence of what happened. This
directory models the parts of that program where order, concurrency and
failure decide correctness, checks them with TLC and proves the central
results with TLAPS. Paths below are relative to the repository; line numbers
are in `PROJECT.json` under `map`.

## 1. Inventory

| Part | State it keeps | Operations | What is hard about it | What makes it correct |
| --- | --- | --- | --- | --- |
| Lifecycle (`internal/app/app.go`) | `state.json`, `transition.json`, `applied.toml`, `applied-plan.json`, `digests/`, `history.jsonl`, `proxy.pid` | `Up`, `adopt`, `recoverTransition`, `Down`, `Destroy` | a cutover is fifteen durable writes and runtime calls; a crash, a failing call or a call that fails after it took effect may fall at each | one generation runs; the records always name one authoritative generation and can be completed; no mixture of two generations |
| Durable files (`internal/worldfs`) | the files above | atomic rename plus directory sync | several files, one meaning | readers who follow the records never see half a change |
| Backend (`internal/backend`) | podman containers, one name per generation | `Create`, `Start`, `Stop`, `Destroy`, `Inspect`, `Verify` | replies are lost | what the code believes is what runs |
| Lock (`internal/lockfile`) | `mutation.lock` and descriptors of it | `Acquire`, `AcquireShared`, `Release`, `ReleaseMoved` | `destroy` renames the file others wait on | one mutator per world |
| History (`internal/history`) | an append-only hash chain | `Append`, `AppendOnce`, `Verify`, `RepairTruncatedTail` | torn writes; repetition by recovery | complete records are never lost; a published generation has its record |
| Door (`internal/proxy`) | policy, admissions, live tunnels, timers | `Serve`, `handle`, `Grant`, `Remove`, `Reconcile`, expiry | handlers resolve and dial without the lock while policy changes | no tunnel outlives what admitted it; unrelated changes cut none |
| Job egress (`internal/jobpodman`) | one door per job | `startEgress`, `revokeEgress`, `stopEgress` | revocation races accept, dial and bind; a deadline cuts the join short | nothing is relayed after revocation; "joined" is true |
| Review (`CompareUp`, `internal/plan/diff.go`) | a snapshot shown to the operator | `CompareUp`, `UpReviewed` | what was confirmed may be stale when applied | what is applied is what was confirmed |
| Door control (`internal/proxy/control.go`) | a socket per door | `grant`, `remove`, `reconcile`, `ping` | a request outlives the client that gave up on it; the record comes after the effect | the door admits nothing that history does not tell |
| Door diagnostics (`internal/proxy/diagnostics.go`) | counters, a bounded buffer | `record`, `snapshot` | handlers meet at the buffer; it overflows | what is dropped is counted |
| Workspace inspection (`internal/app/workspace_inspection.go`) | none | `InspectWorkspace` | history omits repeated records, so generations and records must be matched | a baseline is explained by its own plan or refused |
| Workspace digest (`internal/worldfs/digest.go`) | none | bounded tree walk | trees change while they are read | fails closed |
| Job executor and runtime (`internal/job`, `internal/jobpodman`) | workers for start, wait, finalisation and cleanup; sealed evidence | `Executor.Run`, `Runtime.Start`, `Wait`, `Finalize`, `Cleanup` | providers that ignore deadlines; results used while workers still run | a complete result is true; cleanup is exclusive and not skipped |
| Evidence verification (`internal/job/verify.go`) | none | `Verify` | executor and verifier state the same rules twice | what is sealed verifies |
| Declaration, plan, naming, source tree | none | parse, validate, canonicalise | none of it concurrent | functional correctness, covered by unit tests |
| Network namespaces (`internal/netns`) | pinned namespaces, a helper process, a descriptor in transit | `AcquireBoundListener`, `AcquireListener`, `AcquireConnection` | a pid is reused between inspection and entry; message, exit and deadline arrive in any order | the socket is in the namespaces that were verified; nothing leaks |
| Doctor, release provenance, Apple machine, CLI | none of its own | probes, checks, forwarding | — | — |

Who talks to whom: every command of the lifecycle takes `mutation.lock`, reads
the durable files, calls podman, spawns or stops the door process and appends
to history. `allow` and `revoke` take the same lock and speak to the door's
control socket. The door is a process of its own: it outlives the command that
started it. A governed job uses the backend and the door's code, not the
world's files.

## 2. Modules

| Module | Models | State and actions |
| --- | --- | --- |
| `Authority` | the promise: one register that holds the authoritative generation | `auth`; `Apply`, `Remove` |
| `World` | the lifecycle over files, containers and doors | one variable per durable file, `ctr`/`img` for podman, `door`/`pidfile` for the door, `pc`/`loc` for the one command that holds the lock; one action per durable write or host call, named after the step (`UpStop`, `PublishState`, `RollbackDestroy`, …) |
| `MCWorld` | constants for TLC | `"a"` opens a door, `"b"` does not |
| `WorldProofs`, `LifecycleProofs` | theorems about `World` | the inductive invariants `Shape` and, on top of it, `Life` |
| `Inspection`, `Inspect`, `MCInspect`, `InspectProofs` | `inspect-workspace` over `World` | `Inspection` is the matching of generations and records as pure operators, with its reference definition (`Explanations`); `Inspect` extends `World` with the list of applied records and the declaration each generation was committed with |
| `Lockfile` (proofs in `ReviewProofs`) | open and flock as two calls, rename of the root by `destroy` | descriptor, inode and path per process |
| `Review`, `MCReview`, `ReviewProofs` | extends `Lockfile` with `runUp` and `UpReviewed` | what a comparison reads (`state`, `tr`, `digest`, `staging`, `booked`, `ws`, `ctr`) and, per process, the candidate, the comparison shown and where `up` is; the comparison itself takes two steps without the lock; error returns of the adoption (`AdoptFails`) and of the cutover (`UpFails`) with a cleanup that succeeds or fails (`CleanUp`, `CleanUpFails`) |
| `Proxy`, `ProxyProofs` | the door | `durable`/`grants` (policy), `timers`/`due`, and per connection where its handler is, its admission and its two sockets |
| `Egress` | extends `Proxy` with a job's revocation and join | `revoke`, `fin`, `listening`, and of the call of `stopEgress` under way what it has seen (`serveJoined`) and whether its caller's context has ended (`late`); `tries` counts the calls, which are two |
| `Netns` | acquisition of a socket in a world's namespaces: a job's listener, a persistent world's listener, `connect` | who has the pid, what is pinned, helper, socket pair and descriptor; one action per check, open, message and branch of the select |
| `Door`, `DoorProofs` | composes `Netns`, `Egress` and the diagnostics | the acquired listener is what the proxy serves; each handler's decision goes to counters and buffer, whose final summary is the evidence |
| `History` | the chain, its fragments, and which command may write when | `chain`, `tail`, and of the lifecycle only the transition |
| `Control`, `ControlProofs` | extends `History` with the door and its control socket | the door's admissions, the pending and the late requests, and a ghost (`word`) that says whether an operator was told of a failure |
| `JobRuntime` | the podman runtime of a governed job | container, target, attached client, lifecycle slot, captured output, stream file and cleanup record; one label per worker (`start`, `wait`, `fin`, `clean`) and one action per call or group of calls of `Start`, `Wait`, `Finalize`, `Cleanup` |
| `Job` | extends `JobRuntime` with `Executor.Run` | `pc`, the result being built, the evidence files and manifest entries; an action is an observation of a worker, or the deadline that bounds it |
| `Verify`, `JobProofs` | extends `Job` with the offline verifier | no state: `VerifyOK` is what `Verify` demands of the sealed directory |

Labels in `World` carry the phase: `u.` staging and cutover, `p.` publishing
after the commit record, `c.` the deferred cleanup of `up`, `a.` adoption,
`m.` completion of a commit, `b.` rollback, `r.` `restorePredecessor`, `d.`
down, `x.` destroy. `HostFailure` makes the call of a label in `FaultAt` fail
without effect and takes the error path the code takes there; `LostReply` lets
it take effect first; `Crash` drops the command's locals and keeps everything
durable; `Reboot` also stops containers and doors.

Abstractions that matter: declarations and plans are names (two declarations
may share a plan); the workspace is a version number and a digest the version
it was taken from; verification of a container succeeds exactly when its label
and status are right; a door remembers whether the network namespace it is in
still exists. The hash chain is a sequence: tampering is not modelled. `World`'s
`up` is `App.Up`; what `UpReviewed` adds to it is in `Review`, which keeps of
the lifecycle the steps that change what a comparison reads, with the deaths of
its commands at each. `World` and `Review` digest a workspace in one step. In
`Control` there is one destination besides the declared ones, and a door is its
set of admissions. In `JobRuntime` a call under a context fails for nothing once the context has expired, and before
that at the cost of one fault; verification succeeds or fails as a whole; the
output is counted in chunks; the job's door is a label and the status of its
evidence, its inside being `Door`; a write to a stream file fails with or without bytes left behind.
Digests and identities that executor and verifier compute from the same bytes
agree. Every request names artifacts, so that the longer path is taken. The
exit of the command, which ends the workers, is the behaviour in which they
take no further step.

## 3. Runs

Passing runs (`expect: pass`):

| Run | Checks |
| --- | --- |
| `world_crash` | crashes and reboots at every label: `RunsAsRecorded` (one generation runs and a record names it), `Recoverable`, `Settled`; `CurrentInspectable` and `AttributionIsExact` of the digests and records that result; and that `World` implements `Authority` (`AtomicAuthority`) |
| `world_faults` | one host call that fails before the commit record, or fails after it took effect, one crash, one container or door that dies: `RunsAsRecorded`, `Settled`, `HandoffExact`, and that a transition never stays (`Settles`) |
| `review_confirmed` | two commands, any of which may fail or die, and whose cleanup may fail, with exits, hand starts and workspace edits: `SoleMutator`, `AppliedAsReviewed`, `RefusalLeavesNoTrace` |
| `control_grants` | all commands of a world, torn and refused records, requests served late, a door that dies: `HistoryExplainsDoor`, `CommitsRecorded`, `AppendOnly`, `HealsUncommitted` |
| `proxy_policy` | `TunnelsAdmitted`, `RetainedTunnelsSurvive`, `WithdrawnTunnelsEnd` |
| `egress_revoke` | a socket acquired while its process may end and its pid be reused, then served and revoked with handlers at every stage: `PinnedInWorld`, `NothingLeaks`, `ConnectionHandedOver`, `NoTunnelAfterRevoke`, `JoinedIsIdle`, `EvidenceAccounts`; and the two calls of `stopEgress`, with a failing close and deadlines at any wait: `EgressJoins` |
| `job_run` | workers that stall, deadlines at any moment, one failing call: what a sealed result says of the job, its target and its cleanup is true and stays true (`CompleteIsTrue`, `NotStartedIsTrue`, `CleanupIsTrue`), the verifier accepts it (`SealedVerifies`), `CleanupIsExclusive`, `CleanupNotSkipped`, `RunReturns` |

Each passing run but `world_faults` also checks the type invariant of its module.

The other runs expect a violation: each is a place where the code does not do
what a document, a comment or a message of the repository says, listed under
`findings` with the quotation. Cleanup after the commit record undoes a
committed successor (`world_hybrid`); a command that waited for
the lock of a destroyed world mutates beside one that locked its successor
(`lock_tombstone`, which takes three processes: `review_confirmed` shows that
two cannot do it, `MutationsSerialized` that any number cannot without
`destroy`);
a second grant hides the tunnels of the first (`proxy_regrant`); a history torn
while a commit is pending cannot be repaired (`history_stuck`); a first `up`
that dies while it materialises leaves a world that neither `up` nor `destroy`
will touch (`review_wedged`).

What the passing runs leave out, because the code does not promise or does not
achieve it there: `world_faults` has no start of the successor that takes
effect and reports an error, nor a stop that fails during cleanup (cleanup then
starts the predecessor beside it), nor a crash between spawning the door and
writing `proxy.pid` (nothing names the orphan, which keeps the port, so that no
later recovery can bind it). `RunsAsRecorded` and `Settles` do not hold there: with
`"u.start"` in `LostAt`, or `AllLabels` for `CrashAt`, of `MCWorld_faults.cfg` TLC
reports the one or the other;
`world_crash` has no failing call past the commit record, after which history
may lack a generation or have one too many and inspection refuses;
`HistoryExplainsDoor` says nothing once a command has reported that it failed
(an `allow` whose record is refused has already opened the door, and a
publication that fails leaves the door to a cleanup that may fail as well);
`RefusalLeavesNoTrace` excepts an adoption that fails behind its write of
`state.json` (the digest of the workspace or the history record fails: the
command reports a failure, the world is recorded as running), and of what
remains it says nothing where the cleanup failed;
`PinnedInWorld` leaves out the listener of a persistent world, which is found
through `/proc/<pid>/ns` paths, and `ConnectionHandedOver` all listeners;
`WithdrawnTunnelsEnd` is about the declaration's destinations (expiry of
a grant closes the client's side only, and a silent remote end keeps the other
half). `EgressJoins` is about one call: that one of the two is not cut short,
or that a close which failed succeeds the second time, is nobody's promise.
`CleanupIsTrue` says that no cleanup is falsely complete; a container taken over
by name after the record for the namespace helper was written keeps its scratch
for ever, truthfully reported. `CleanupNotSkipped` excepts a worker that never joins (`Run` then leaves
the container to nobody), `CleanupIsTrue` the scratch directory of a refused
`Start` (`refuseBeforeAdmission` forgets it also when it cannot remove it), and
`SealedVerifies` artifacts whose removal failed and a stream whose failed write
left bytes in its file.

### Bounds

`World`: two declarations, one with a door, give every replacement (same plan,
other plan, with and without door); three generations let a successor be
replaced in turn and are what an ambiguous baseline takes (two where failures,
exits and crashes combine); three doors leave room for an orphan; two workspace
versions tell a stale capture from a fresh one; two crashes let recovery itself
be interrupted. `Lockfile`: three processes for the tombstone race, three
inodes for a world recreated twice. `Review`: two processes, one of which may
do anything between the other's question and its application; two plans, one
of which declares a second workspace path; three generations; two edits, so
that one may fall before and one after a check; one exit or hand start.
`Proxy`: two connections and two destinations, one of them granted, and two
admission ids: a grant beside a declared destination, a grant over one, and a
grant that supersedes another. `Door`: two connections; three processes in
succession behind one pid; a buffer of one event and two bytes under records of
one and three, so that it evicts and refuses; two accepted connections,
side by side or one after the other in the same place (the theorems of
`DoorProofs` are for any number). `stopEgress` is called at most twice
(`Callers`), which is no bound but what the code does: by `Finalize` and by
`Cleanup`.
`History`: five records and one torn write in `history_stuck`; four and two
faults in `Control`, so that a repair and its record can both be torn, one
declaration with a door and one without. `Job`: one chunk within and one
beyond the limit of the capture, a door, and one fault beside any number of
expired deadlines. All bounds are named constants; guards stop at them.
Deadlock is checked except in `Lockfile` and `Review` (each process runs one
command and is done), `Door` (a job's door ends) and `Job` (`Run` returns).

### Fairness

`World!FairSpec`: a command that runs takes its next step (the process is
scheduled) and the operator keeps issuing commands; failures are never fair.
`Proxy!FairSpec` and `Door!DoorFairSpec`: handlers whose connection has
been closed return, because reads and writes on it then fail, and a handler
that has decided records it; a closed listener makes `Serve` return; a call of
`stopEgress` that has begun takes its steps. That it is called, or called again,
is not assumed, nor anything of its context; peers, timers, the process behind the pid and operators owe nothing. `Job!FairSpec`: `Run` itself is scheduled and time
passes; workers, podman and the target owe nothing, which is the point of
`RunReturns`. `History!FairSpec`: strong fairness of
each command other than `destroy`, for an operator who meets a torn history
tries each in turn (`Control!ControlFairSpec` needs only `down` and
`repair-history`, and the door owes nothing); the lock makes them alternate, so weak fairness would not
do.

## 4. Proofs

Every safety property that a passing run checks, invariant or action property,
is also a theorem. The theorems hold for every value of the constants: any
declarations, generations, processes, connections, destinations, output and
buffer limits, crashes, faults and deadlines. What they assume of the constants
beyond the `ASSUME`s that TLC evaluates is a hypothesis of the theorem and is in
the last column.

| Module | Theorems (property) | Hypothesis |
| --- | --- | --- |
| `WorldProofs` | `WorldType` (`TypeOK`), `AuthorityIsAtomic` (`AtomicAuthority`, a refinement), `CommandsEnd` (a variant, see below) | no failing call after the commit record |
| `LifecycleProofs` | `GenerationsAreRecorded` (`RunsAsRecorded`), `TransitionsRecover` (`Recoverable`), `FilesAgree` (`Settled`), `HandoffIsExact` (`HandoffExact`) | `Handled` |
| `InspectProofs` | `WorldsAreInspectable` (`CurrentInspectable`), `AttributionHolds` (`AttributionIsExact`); `BindingIsExact` (about the pure operators) and `InspectIsWorld` (a refinement) | `Handled` for the first two and for their corollary `InspectedWorld`, which has the theorems about `World` for `Inspect` |
| `ReviewProofs` | `LockfileType` (`TypeOK` of `Lockfile`), `MutationsSerialized` (`SoleMutator`), `ReviewType` (`ReviewTypeOK`), `AppliedIsReviewed` (`AppliedAsReviewed`), `ReviewSerialized` (`SoleMutator`), `RefusalsLeaveNoTrace` (`RefusalLeavesNoTrace`, an action property) | no `destroy`, but for `LockfileType` |
| `ControlProofs` | `ControlType` (`ControlTypeOK`), `CommitsAreRecorded` (`CommitsRecorded`), `HistoryIsAppendOnly` (`AppendOnly`, an action property), `DoorIsExplained` (`HistoryExplainsDoor`), `ControlIsHistory` (a refinement) | none |
| `ProxyProofs` | `ProxyType` (`TypeOK`), `TunnelsAreAdmitted` (`TunnelsAdmitted`), `RetainedSurvive` (`RetainedTunnelsSurvive`, an action property), `TunnelsAreOfTheirDestination`, `WithdrawalCloses` | none |
| `DoorProofs` | `DoorType` (`DoorTypeOK`), `RevokedIsDark` (`NoTunnelAfterRevoke`), `JoinedStaysIdle` (`JoinedIsIdle`), `EvidenceIsHonest` (`EvidenceAccounts`), `WorldIsPinned` (`PinnedInWorld`), `FailureLeaksNothing` (`NothingLeaks`), `HandedOver` (`ConnectionHandedOver`), `JobTunnelsAllowed` (`TunnelsAllowed`, which `proxy_regrant` violates), `JobTunnelsSurvive` (`RetainedTunnelsSurvive`) | none |
| `JobProofs` | `JobType` (`TypeOK`), `CompleteHolds` (`CompleteIsTrue`), `NotStartedHolds` (`NotStartedIsTrue`), `CleanupHolds` (`CleanupIsTrue`), `CleanupAlone` (`CleanupIsExclusive`), `CleanupHappens` (`CleanupNotSkipped`), `SealedIsAccepted` (`SealedVerifies`), `RunIsBounded` (a variant, see below) | none |

Each module states its inductive invariant, proves one lemma per action or
group of actions, and derives the theorems from the invariant.

**World.** `AuthorityIsAtomic` needs to know, at each label, which record is on
disk and how it relates to `state.json` and to the command's locals. `Shape` is
that knowledge: `RecordShape` (the successor is numbered after its predecessor,
and until the commit `state.json` is the predecessor), `LabelShape` (which
phase each label works in), `LocalShape` and `UpShape` (what the locals still
agree with). Under `Shape` the only steps that move `Authoritative` are the
rename of the commit record, which moves it to the next generation, and the
rename of the root, which removes it. The hypothesis is needed: `world_hybrid`
is the counterexample without it.

`Life` adds what runs: `Alone` (one generation), `Stance` (which of predecessor
and successor may run at each label), `Complete` and `Published` (which files
are already those of the committed successor), `Staged` (what has been built).
`Recoverable` needs one conjunct more, `Restartable`. `Handled` excludes what
the code does not handle, as the runs do: a failing call after the commit
record, a stop that fails in the cleanup of `up` (its error is collected and
the predecessor started beside the successor), and a start of the successor
that takes effect and reports an error (the successor is then not known to
run). Everything else may fail, before or after its effect, at any label and
any number of times.

`CommandsEnd` is the half of `Settles` that needs no fairness: `Rank`, the
number of steps a command can still have before it, is at most 58 and zero
exactly when no command runs, and each step of a command, and each failure that
moves it, lowers it. Recovery, cleanup, restoration and adoption call each
other, so this is not visible in any one function: `up` may recover, start
over, fail, and clean up by restoring its predecessor, and no path leads back.
`LocalShape` is needed to know where a shared label returns to. That a running
command takes its next step, and that the command after it clears the record,
is left to TLC.

**Inspection.** `BindingIsExact` says for all sequences of roots and records, of
any length, that the loop of `bindInspectionGenerations` computes what its
reference definition `Explanations` says: for each generation the records that
it has in some way of giving the generations their records in order, none left
over, and a failure exactly if there is no such way. The loop is written as a
recursive function over suffixes, without `RECURSIVE`, and the induction is
over the length of the suffix: the set of lengths at which the claim fails has
a least element, by the library's theorem on well-founded subsets of a finite
set, which has no operator parameter. The rest is an inductive invariant,
`Tale`, on top of `Life`: the digests and applied records explain each other
(`Told`, `Recorded`), the
last record is that of the last generation whenever `appendOnce` looks
(`LastIsApplied`, so that it neither repeats nor omits one), a digest is
published before its record (`DigestFirst`), a world whose `destroy` did not
finish has no container left that a command could adopt and record (`Ruin`,
`Agrees`), and nothing that is published is still staging (`Started`).
`InspectIsWorld` carries the theorems about `World` over.

**Lock and review.** `MutationsSerialized` rests on there being one inode:
without `destroy` the path never goes away, so all descriptors are of one file
and `flock` excludes. `lock_tombstone` shows why `destroy` is excluded.
`Review` inherits it. Its invariant says what the holder of the lock may rely
on (`HolderInv`): the records are those that were shown (`SameRecords`), the
predecessor ran if it was shown running, the tree digested before staging is
the one that was shown (`SameWorkspace`), and a rollback record is its own and
holds that tree (`OwnRecord`); of every process it says that the lock it holds
is of the kind it wants and that what was confirmed is its candidate
(`Asking`). Workspace and containers are nobody's, so no part relies on them
beyond the step that reads them. `RefusalsLeaveNoTrace` follows from
`HolderInv` per error return: a cleanup that succeeds (`CleanTrace`) and one that
fails (`UncleanKeeps`) both leave the authority, and a failing adoption moves it
at most to running (`AdoptFailsTrace`).

**History and control.** `AppendOnly` and `CommitsRecorded` follow from the
chain's own invariant (`Commanded`: what each label of a command says of the
transition and of the record to be written). `HistoryExplainsDoor` needs that a
command which owes the operator an answer is between the door and its record
(`Owed`), that the record it will write tells what the door has been made to
admit (`Recorded`), that a request is under way only while its command waits for
it and one left behind puts the door in doubt (`Exchanged`), and that under a
commit record the door admits nothing but its declaration (`Committed`).

**Door.** `TunnelsAdmitted` rests on `HoldsAdmission` and one lemma,
`TunnelStep`: what goes out of force is closed in the same critical section,
and what becomes a tunnel has an admission in force at that moment.
`RetainedTunnelsSurvive` rests on `OneEntryPerId`: the code closes by admission
id, which is right because no id is ever in the two tables twice. The dual,
that closing by id misses none, is `WithdrawalCloses`: it needs `OwnEntry`,
that the id a handler took before its dial is that of its own destination's
entry for as long as it is in force. It is the half of `WithdrawnTunnelsEnd`
that needs no fairness: what is withdrawn is closed at once on both sides, and
only the return of the handler is left. For a job,
`Revoked` and `Joining` say what each stage of revocation has already excluded
(first the flag, then no policy; a join that counted no handler finds none
later, because `Serve` had returned before), `Closed` who may still hold a
connection. `Accounted` says that every decision is counted once and is then
retained, omitted, lost to contention or still in the hands of its handler,
which does not end before; it compares cardinalities, so it needs the set of
connections to be finite, which `DoorConstants` says. `AcquireInv` is about one
call: what is pinned, where the descriptor is, and who can still fail.
`Declared` is about the policy: a job has no control socket, so until
revocation each handler's id is the declared one of its destination. This is
why `TunnelsAllowed` holds of a job's door and not of a world's.

**Job.** `RuntimeInv` says, at each point of `Executor.Run`, which workers may
be active and what can be on the host; `ResultInv` what locals, result, files
and manifest say by then. `SealedVerifies` follows because both `VerifyOK` and
`ResultInv` are stated on the same result and entries, and stays true because
nothing but workers moves after the seal. `RunIsBounded` is the half of
`RunReturns` that needs no fairness: `Run` takes at most 17 steps, no context
begins again, and once the contexts that exist have ended one of its steps can
be taken (`NeverStuck`), whatever workers, podman and target do; at the seal
this takes the invariant, for a manifest that lacked a file would be refused
for ever. `Ready` spells out the guards of `Run`, because the prover has no
ENABLED; on the states of `job_run` TLC finds it to be the same.

Only model-checked: the liveness properties `Settles`, `WithdrawnTunnelsEnd`,
`RunReturns`, `HealsUncommitted` and `EgressJoins`, because the prover has no
ENABLED; of the first three the part about states and steps is proved
(`CommandsEnd`, `WithdrawalCloses`, `RunIsBounded`). The runs that expect a violation are
counterexamples and have nothing to prove.

## 5. Plan

Modelled so far, in order: lifecycle and authority, lock, history, door, job
egress, job executor and runtime, review, door control, namespaces and
diagnostics, evidence verification, inspection. What is left:

1. Proofs: a variant like `Rank` for the join of a job's door, the half of
   `EgressJoins` that needs no fairness.
2. The tree walk of a workspace digest against writers, and the two
   consecutive observations that inspection takes for a stable view.
3. The collection of artifacts, file by file.

## 6. Not modelled

Parsers, validators, renderers and canonical encodings, the plan and what its
diff prints (no state); file-system walks behind digests, artifact collection
and the source tree, and the listing of changes by locus (their results are
values); the host doctor, release provenance and version checks; the Apple
machine backend, which forwards; commands that only read (`status`, `worlds`,
`enter`, `network-diagnostics`); reuse of the process id in `proxy.pid` (that of
a container's process is in `Netns`); storage that loses fsynced data;
tampering with history.
