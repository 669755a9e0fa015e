---------------------------- MODULE ReviewProofs ----------------------------
(***************************************************************************)
(* What is applied is what was reviewed, and a refusal leaves no trace,    *)
(* for any number of up, down and inspect-workspace processes, any plans,  *)
(* edits of the workspace, and containers that exit or are started by hand *)
(* at any time.                                                            *)
(*                                                                         *)
(* Records change under the lock only, and one process holds it, so what   *)
(* the holder found at one step is still there at the next; workspace and  *)
(* containers are nobody's, and no part of the invariant relies on them.   *)
(* The lock comes first: as long as nobody renames the root, the path      *)
(* names one inode for ever, so every open descriptor is on that inode and *)
(* flock's per-inode compatibility is compatibility between all commands.  *)
(* A destroy takes the lock file away, so it is excluded.                  *)
(***************************************************************************)
EXTENDS Review, TLAPS

(* The lock *)

\* Every open descriptor is on the inode that the path names.
OneInode == \A p \in Procs: fd[p] # 0 => fd[p] = path

\* A lock is held through an open descriptor.
LockNeedsDescriptor == \A p \in Procs: flock[p] # "none" => fd[p] # 0

\* An exclusive lock is the only lock.
Exclusion ==
  \A p, q \in Procs: p # q /\ flock[p] = "exclusive" => flock[q] = "none"

\* A process past its open has the descriptor.
DescriptorOpen ==
  \A p \in Procs: pc[p] \in {"opened", "locked"} => fd[p] # 0

LockInv ==
  TypeOK /\ OneInode /\ LockNeedsDescriptor /\ Exclusion /\ DescriptorOpen

\* 0, no descriptor and no lock file, is among the inode numbers.
LEMMA ZeroInode == MaxInode \in Nat /\ 0 \in Inodes
BY LockfileConstants DEF Inodes

\* Closing a descriptor, as Release, ReleaseMoved, a refused flock and process
\* exit all do, keeps the invariant.
LEMMA CloseKeepsInv ==
  ASSUME LockInv, NEW p \in Procs, Close(p),
         UNCHANGED <<op, path, root, inodes>>
  PROVE  LockInv'
<1>1. TypeOK'
  BY ZeroInode DEF LockInv, TypeOK, Close
<1>2. OneInode'
  BY DEF LockInv, OneInode, Close, TypeOK
<1>3. LockNeedsDescriptor'
  BY DEF LockInv, LockNeedsDescriptor, Close, TypeOK
<1>4. Exclusion'
  BY DEF LockInv, Exclusion, Close, TypeOK
<1>5. DescriptorOpen'
  BY DEF LockInv, DescriptorOpen, Close, TypeOK
<1> QED BY <1>1, <1>2, <1>3, <1>4, <1>5 DEF LockInv

\* A step of any command keeps the types.
LEMMA LockTypeStep == ASSUME TypeOK, [Next]_vars PROVE TypeOK'
<1>1. CASE UNCHANGED vars
  BY <1>1 DEF TypeOK, vars
<1>2. ASSUME NEW p \in Procs, Ensure(p) PROVE TypeOK'
  BY <1>2 DEF TypeOK, Ensure
<1>3. ASSUME NEW p \in Procs, Open(p) PROVE TypeOK'
  BY <1>3, LockfileConstants DEF TypeOK, Open, Inodes
<1>4. ASSUME NEW p \in Procs, Flock(p) PROVE TypeOK'
  BY <1>4, ZeroInode DEF TypeOK, Flock, Close, Wanted
<1>5. ASSUME NEW p \in Procs, Rename(p) PROVE TypeOK'
  BY <1>5, ZeroInode DEF TypeOK, Rename
<1>6. ASSUME NEW p \in Procs, Release(p) PROVE TypeOK'
  BY <1>6, ZeroInode DEF TypeOK, Release, Close
<1> QED BY <1>1, <1>2, <1>3, <1>4, <1>5, <1>6 DEF Next

\* No command holds anything at first.
LEMMA LockInitially == Init => LockInv
<1> SUFFICES ASSUME Init PROVE LockInv OBVIOUS
<1>1. op \in [Procs -> Ops] /\ root \in BOOLEAN
  BY Zenon DEF Init
<1>2. path \in Inodes /\ inodes \in Inodes
  BY LockfileConstants DEF Init, Inodes
<1>3. /\ pc \in [Procs -> {"start", "ensured", "opened", "locked", "moved", "done"}]
      /\ fd \in [Procs -> Inodes]
      /\ flock \in [Procs -> {"none", "exclusive", "shared"}]
  BY ZeroInode DEF Init
<1>4. TypeOK BY <1>1, <1>2, <1>3 DEF TypeOK
<1> QED BY <1>4
     DEF Init, LockInv, OneInode, LockNeedsDescriptor, Exclusion, DescriptorOpen

\* The states of lockfile.Acquire and AcquireShared keep their types, whatever
\* commands run.
THEOREM LockfileType == Spec => []TypeOK
<1>1. Init => TypeOK
  BY LockInitially DEF LockInv
<1>2. TypeOK /\ [Next]_vars => TypeOK'
  BY LockTypeStep
<1> QED BY <1>1, <1>2, PTL DEF Spec

\* Opening the path: a new inode is made only while no descriptor is open.
LEMMA OpenKeepsInv ==
  ASSUME LockInv, TypeOK', NEW p \in Procs, Open(p)
  PROVE  LockInv'
<1>1. CASE path # 0
  BY <1>1 DEF LockInv, TypeOK, OneInode, LockNeedsDescriptor, Exclusion,
             DescriptorOpen, Open
<1>2. CASE path = 0
  <2>1. \A q \in Procs: fd[q] = 0
    BY <1>2 DEF LockInv, OneInode
  <2>2. \A q \in Procs: flock[q] = "none"
    BY <2>1 DEF LockInv, LockNeedsDescriptor
  <2>3. inodes + 1 # 0
    BY LockfileConstants DEF LockInv, TypeOK, Inodes
  <2> QED BY <1>2, <2>1, <2>2, <2>3
       DEF LockInv, TypeOK, OneInode, LockNeedsDescriptor, Exclusion,
           DescriptorOpen, Open
<1> QED BY <1>1, <1>2

\* flock on the one inode is compatible with every lock there is.
LEMMA FlockKeepsInv ==
  ASSUME LockInv, TypeOK', NEW p \in Procs, Flock(p)
  PROVE  LockInv'
<1>1. CASE ~Compatible(p)
  <2>1. Close(p) /\ UNCHANGED <<op, path, root, inodes>>
    BY <1>1 DEF Flock
  <2> QED BY <2>1, CloseKeepsInv
<1>2. CASE Compatible(p) /\ fd[p] # 0
  <2>1. \A q \in Procs \ {p}: flock[q] # "none" => fd[q] = fd[p]
    BY <1>2 DEF LockInv, OneInode, LockNeedsDescriptor
  <2>2. \A q \in Procs \ {p}: flock[q] # "none" =>
           flock[q] = "shared" /\ Wanted(p) = "shared"
    BY <1>2, <2>1 DEF Compatible
  <2>3. Exclusion'
    BY <1>2, <2>2 DEF LockInv, Exclusion, Flock, TypeOK, Wanted
  <2> QED BY <1>2, <2>3
       DEF LockInv, OneInode, LockNeedsDescriptor, DescriptorOpen, Flock, TypeOK
<1>3. fd[p] # 0
  BY DEF LockInv, DescriptorOpen, Flock
<1> QED BY <1>1, <1>2, <1>3

\* Without destroy no action takes the path away, so the invariant is inductive.
LEMMA StepKeepsInv ==
  ASSUME "destroy" \notin Ops, LockInv, TypeOK', [Next]_vars
  PROVE  LockInv'
<1>1. CASE UNCHANGED vars
  BY <1>1 DEF LockInv, TypeOK, OneInode, LockNeedsDescriptor, Exclusion,
             DescriptorOpen, vars
<1>2. ASSUME NEW p \in Procs, Ensure(p) PROVE LockInv'
  BY <1>2 DEF LockInv, TypeOK, OneInode, LockNeedsDescriptor, Exclusion,
             DescriptorOpen, Ensure
<1>3. ASSUME NEW p \in Procs, Open(p) PROVE LockInv'
  BY <1>3, OpenKeepsInv
<1>4. ASSUME NEW p \in Procs, Flock(p) PROVE LockInv'
  BY <1>4, FlockKeepsInv
<1>5. ASSUME NEW p \in Procs, Rename(p) PROVE LockInv'
  BY <1>5 DEF LockInv, TypeOK, Rename
<1>6. ASSUME NEW p \in Procs, Release(p) PROVE LockInv'
  BY <1>6, CloseKeepsInv DEF Release
<1> QED BY <1>1, <1>2, <1>3, <1>4, <1>5, <1>6 DEF Next

\* lockfile.go: "Package lockfile serializes mutations of one world", for any
\* number of up, down and inspect-workspace processes.  A destroy among them
\* breaks it: the run lock_tombstone has the interleaving.
THEOREM MutationsSerialized ==
  ASSUME "destroy" \notin Ops
  PROVE  Spec => []SoleMutator
<1>1. Init => LockInv
  BY LockInitially
<1>2. LockInv /\ [Next]_vars => LockInv'
  BY LockTypeStep, StepKeepsInv DEF LockInv
<1>3. LockInv => SoleMutator
  BY DEF LockInv, Exclusion, SoleMutator, Mutating, Observing
<1> QED BY <1>1, <1>2, <1>3, PTL DEF Spec

-----------------------------------------------------------------------------
(* The reviewed up *)

Reading == [tr: {None} \cup Transition, state: {None} \cup State]

\* A lock is of the kind its command wants, an up asks for it once confirmed,
\* and what is confirmed is the candidate.
AsksRight(p) ==
  /\ pc[p] = "locked" => flock[p] = Wanted(p)
  /\ op[p] = "up" /\ pc[p] \in {"ensured", "opened"} => step[p] = "agreed"
  /\ step[p] = "reading" => seen[p] \in Reading
  /\ op[p] = "up" /\ step[p] \notin {"prepare", "reading", "end"} =>
       shown[p] \in Comparison /\ shown[p].cand = cand[p]

Asking == \A p \in Procs: AsksRight(p)

\* The steps of an up: before its record, those of them after each of its looks
\* at predecessor and workspace, and from the record to the commit.
Pending == {"stop", "capture", "start", "commit"}
Created == {"materialize", "record"} \cup Pending
Based == {"create"} \cup Created
Observed == {"adopt", "before"} \cup Based
Facing == {"reverify", "observe", "adopt", "before", "create", "materialize", "record"}

\* The records are those reviewed.
SameRecords(p) ==
  /\ step[p] = "recover" => shown[p].tr = tr /\ shown[p].prior = Authority(tr, state)
  /\ step[p] \in Facing \cup Pending => state = shown[p].prior
  /\ step[p] \in Facing => tr = None
  /\ step[p] \in Created => NextGeneration \in Gens
  /\ step[p] = "publish" => tr # None /\ tr.phase = "commit"

\* The predecessor ran if it was shown running.
SamePredecessor(p) ==
  /\ step[p] = "adopt" => state # None
  /\ step[p] \in Observed => (shown[p].mode = "active" => active[p])
                          /\ (active[p] => state # None)

\* The workspace digested before staging is the one reviewed.
SameWorkspace(p) ==
  step[p] \in Based =>
    CASE shown[p].mode = "empty" -> base[p] \in Trees /\ OnlyEmptyMounts(base[p], cand[p])
      [] shown[p].mode = "exact" -> base[p] \in Trees /\ base[p] = shown[p].root
      [] OTHER -> TRUE

\* The record is of this up, and holds the workspace that it captured.
OwnRecord(p) ==
  /\ step[p] \in Pending =>
       /\ tr # None /\ tr.phase = "rollback" /\ tr.prior = state
       /\ tr.wasRunning = active[p] /\ tr.succ.plan = cand[p]
  /\ step[p] \in {"start", "commit"} /\ shown[p].mode # "active" =>
       Scaffolded(base[p], tr.ws, cand[p])

Held(p) == SameRecords(p) /\ SamePredecessor(p) /\ SameWorkspace(p) /\ OwnRecord(p)

HolderInv == \A p \in Procs: pc[p] = "locked" /\ op[p] = "up" => Held(p)


\* The types, of what is shared and of what is each command's own.
SharedType ==
  /\ state \in {None} \cup State /\ tr \in {None} \cup Transition
  /\ digest \in [Gens -> {None} \cup Trees]
  /\ staging \in BOOLEAN /\ booked \in BOOLEAN
  /\ ws \in Trees
  /\ ctr \in [Gens -> {"absent", "stopped", "running"}]
  /\ flips \in 0..MaxFlips

LocalType ==
  /\ cand \in [Procs -> Plans]
  /\ step \in [Procs -> Steps]
  /\ seen \in [Procs -> {None} \cup Reading]
  /\ shown \in [Procs -> {None} \cup Comparison]
  /\ active \in [Procs -> BOOLEAN]
  /\ base \in [Procs -> {None} \cup Trees]
  /\ out \in [Procs -> {"none", "refused", "failed", "unclean", "applied", "adopted"}]

ReviewInv == SharedType /\ LocalType /\ LockInv /\ Asking /\ HolderInv

-----------------------------------------------------------------------------
(* Types *)

\* Together they are the type invariant.
LEMMA ReviewTypes == ASSUME ReviewInv PROVE ReviewTypeOK
BY DEF ReviewInv, SharedType, LocalType, LockInv, ReviewTypeOK, Reading

\* newUpComparison.
LEMMA CompareType ==
  ASSUME SharedType, NEW d \in Plans, NEW t \in {None} \cup Transition,
         NEW s \in {None} \cup State
  PROVE  /\ Authority(t, s) \in {None} \cup State
         /\ Compare(d, t, s) \in Comparison
         /\ Compare(d, t, s).cand = d /\ Compare(d, t, s).tr = t
         /\ Compare(d, t, s).prior = Authority(t, s)
<1>1. t # None => t.succ \in State /\ t.prior \in {None} \cup State
                  /\ t.ws \in {None} \cup Trees
  BY DEF Transition
<1>2. Authority(t, s) \in {None} \cup State BY <1>1 DEF Authority
<1>3. Recorded(t, Authority(t, s)) \in {None} \cup Trees
  BY <1>1, <1>2 DEF Recorded, SharedType, State
<1>4. Mode(d, Authority(t, s)) \in {"empty", "exact", "active"} BY DEF Mode
<1>5. (IF Mode(d, Authority(t, s)) = "exact" THEN ws ELSE None) \in {None} \cup Trees
  BY DEF SharedType
<1> QED BY <1>2, <1>3, <1>4, <1>5 DEF Compare, Comparison

\* The container of a generation is changed, or of several.
LEMMA CtrType ==
  ASSUME SharedType, NEW g, NEW v \in {"absent", "stopped", "running"}
  PROVE  [ctr EXCEPT ![g] = v] \in [Gens -> {"absent", "stopped", "running"}]
BY DEF SharedType

\* A step that leaves its locals alone but for the label.
LEMMA GotoType ==
  ASSUME LocalType, NEW p \in Procs, NEW l \in Steps, Goto(p, l), KeepLocal, UNCHANGED out
  PROVE  LocalType'
BY DEF LocalType, Goto, KeepLocal

\* A step that ends the command with an outcome.
LEMMA EndsType ==
  ASSUME LocalType, NEW p \in Procs,
         NEW how \in {"refused", "failed", "unclean", "applied", "adopted"}, Ends(p, how)
  PROVE  LocalType'
<1>1. "end" \in Steps BY DEF Steps
<1> QED BY <1>1 DEF LocalType, Goto, Ends

-----------------------------------------------------------------------------
(* One process at a time *)

\* A step of p leaves the locals and locks of the other processes alone.
Others(p) ==
  /\ op' = op
  /\ \A q \in Procs \ {p}:
       /\ pc'[q] = pc[q] /\ flock'[q] = flock[q]
       /\ cand'[q] = cand[q] /\ step'[q] = step[q] /\ seen'[q] = seen[q]
       /\ shown'[q] = shown[q] /\ active'[q] = active[q] /\ base'[q] = base[q]

\* Who may change the world is alone with it.
LEMMA HolderAlone ==
  ASSUME ReviewInv, NEW p \in Procs, NEW q \in Procs, p # q,
         pc[p] = "locked", op[p] # "inspect"
  PROVE  pc[q] # "locked"
<1>1. flock[p] = "exclusive" BY DEF ReviewInv, Asking, AsksRight, Wanted
<1>2. flock[q] = "none" BY <1>1 DEF ReviewInv, LockInv, Exclusion
<1> QED BY <1>2 DEF ReviewInv, Asking, AsksRight, Wanted

\* What the holder relies on is in the records and in its locals.
LEMMA HeldKept ==
  ASSUME NEW q \in Procs, Held(q), UNCHANGED <<state, tr>>,
         cand'[q] = cand[q], step'[q] = step[q],
         shown'[q] = shown[q], active'[q] = active[q], base'[q] = base[q]
  PROVE  Held(q)'
<1>1. SameRecords(q)' BY DEF Held, SameRecords, Authority, NextGeneration
<1>2. SamePredecessor(q)' BY DEF Held, SamePredecessor
<1>3. SameWorkspace(q)' BY DEF Held, SameWorkspace, OnlyEmptyMounts
<1>4. OwnRecord(q)' BY DEF Held, OwnRecord, Scaffolded
<1> QED BY <1>1, <1>2, <1>3, <1>4 DEF Held

\* A step that changes a record is the holder's, so only the holder's part is at
\* stake.
LEMMA HolderStep ==
  ASSUME ReviewInv, NEW p \in Procs, Others(p),
         (pc[p] = "locked" /\ op[p] # "inspect") \/ UNCHANGED <<state, tr>>,
         pc'[p] = "locked" /\ op[p] = "up" => Held(p)'
  PROVE  HolderInv'
<1> SUFFICES ASSUME NEW q \in Procs, pc'[q] = "locked", op'[q] = "up" PROVE Held(q)'
  BY DEF HolderInv
<1>1. CASE q = p BY <1>1 DEF Others
<1>2. CASE q # p
  <2>1. pc[q] = "locked" /\ op[q] = "up" BY <1>2 DEF Others
  <2>2. pc[p] # "locked" BY <1>2, <2>1, HolderAlone
  <2>3. Held(q) BY <2>1 DEF ReviewInv, HolderInv
  <2> QED BY <1>2, <2>2, <2>3, HeldKept DEF Others
<1> QED BY <1>1, <1>2

\* A step that leaves the other processes alone, part by part.
LEMMA ProcessStep ==
  ASSUME ReviewInv, NEW p \in Procs, Others(p), SharedType', LocalType', LockInv',
         AsksRight(p)',
         (pc[p] = "locked" /\ op[p] # "inspect") \/ UNCHANGED <<state, tr>>,
         pc'[p] = "locked" /\ op[p] = "up" => Held(p)'
  PROVE  ReviewInv'
<1>1. Asking'
  <2> SUFFICES ASSUME NEW q \in Procs PROVE AsksRight(q)' BY DEF Asking
  <2>1. CASE q = p BY <2>1
  <2>2. CASE q # p BY <2>2 DEF Others, ReviewInv, Asking, AsksRight, Wanted
  <2> QED BY <2>1, <2>2
<1> QED BY <1>1, HolderStep DEF ReviewInv

\* The command ends, whatever it did to what is shared.
LEMMA EndsStep ==
  ASSUME ReviewInv, NEW p \in Procs, pc[p] = "locked", op[p] # "inspect",
         NEW how \in {"refused", "failed", "unclean", "applied", "adopted"}, Ends(p, how),
         SharedType'
  PROVE  ReviewInv'
<1>1. LocalType' BY EndsType DEF ReviewInv
<1>2. LockInv' BY CloseKeepsInv DEF Ends, ReviewInv
<1>3. /\ pc'[p] = "done" /\ step'[p] = "end" /\ Others(p)
  BY DEF Ends, Goto, Close, Others, ReviewInv, LocalType, LockInv, TypeOK
<1>4. AsksRight(p)' BY <1>3 DEF AsksRight
<1> QED BY <1>1, <1>2, <1>3, <1>4, ProcessStep

\* A step of up under the lock to another label.
LEMMA GotoStep ==
  ASSUME ReviewInv, NEW p \in Procs, pc[p] = "locked", op[p] = "up",
         step[p] \notin {"prepare", "reading", "end"}, NEW l \in Steps, l # "reading",
         Goto(p, l), KeepOut, UNCHANGED <<cand, seen, shown>>,
         NEW a \in BOOLEAN, UNCHANGED active \/ active' = [active EXCEPT ![p] = a],
         NEW w \in {None} \cup Trees, UNCHANGED base \/ base' = [base EXCEPT ![p] = w],
         SharedType', Held(p)'
  PROVE  ReviewInv'
<1>1. LocalType' BY DEF ReviewInv, LocalType, Goto, KeepOut
<1>2. LockInv'
  BY DEF ReviewInv, LockInv, TypeOK, OneInode, LockNeedsDescriptor, Exclusion, DescriptorOpen,
         KeepOut, lockvars
<1>3. /\ step'[p] = l /\ Others(p)
  BY DEF Goto, KeepOut, lockvars, Others, ReviewInv, LocalType
<1>4. AsksRight(p)'
  BY <1>3 DEF AsksRight, Asking, ReviewInv, KeepOut, lockvars, Wanted
<1> QED BY <1>1, <1>2, <1>3, <1>4, ProcessStep

-----------------------------------------------------------------------------
(* up, down and their surroundings keep the invariant *)

\* What the holder's step starts from.
LEMMA HolderFacts ==
  ASSUME ReviewInv, NEW p \in Procs, pc[p] = "locked", op[p] = "up",
         step[p] \notin {"prepare", "reading", "end"}
  PROVE  /\ Held(p) /\ shown[p] \in Comparison /\ shown[p].cand = cand[p]
         /\ cand[p] \in Plans /\ active[p] \in BOOLEAN /\ base[p] \in {None} \cup Trees
         /\ Targets[cand[p]] \in SUBSET Mounts
         /\ step \in [Procs -> Steps]
<1>1. cand[p] \in Plans BY DEF ReviewInv, LocalType
<1> QED BY <1>1, ReviewConstants
     DEF ReviewInv, LocalType, HolderInv, Asking, AsksRight

\* What is shared does not change.
LEMMA SharedKept ==
  ASSUME SharedType, UNCHANGED <<durable, ws, ctr, flips>>
  PROVE  SharedType'
BY DEF SharedType, durable

\* Comparing again, before and after recovery.
LEMMA RecheckStep ==
  ASSUME ReviewInv, NEW p \in Procs, Recheck(p) \/ Reverify(p)
  PROVE  ReviewInv'
<1>0. /\ pc[p] = "locked" /\ op[p] = "up" /\ step[p] \in {"agreed", "reverify"}
      /\ SharedType' /\ UNCHANGED <<state, tr>>
  BY SharedKept DEF Recheck, Reverify, InLock, At, ReviewInv, durable
<1>1. CASE Ends(p, "refused") BY <1>0, <1>1, EndsStep
<1>2. CASE Recheck(p) /\ ~Ends(p, "refused")
  <2>1. /\ Goto(p, "recover") /\ KeepOut /\ KeepLocal
        /\ Compare(cand[p], tr, state) = shown[p]
    BY <1>2 DEF Recheck
  <2>2. /\ cand[p] \in Plans /\ tr \in {None} \cup Transition /\ state \in {None} \cup State
        /\ step'[p] = "recover" /\ shown'[p] = shown[p]
    BY <2>1 DEF ReviewInv, LocalType, SharedType, Goto, KeepLocal
  <2>3. shown[p].tr = tr /\ shown[p].prior = Authority(tr, state)
    BY <2>1, <2>2, CompareType DEF ReviewInv
  <2>4. Held(p)'
    BY <1>0, <2>2, <2>3
    DEF Held, SameRecords, SamePredecessor, SameWorkspace, OwnRecord, Facing, Pending, Created,
        Based, Observed, Authority
  <2>5. "recover" \in Steps BY DEF Steps
  <2> QED BY <1>0, <2>1, <2>4, <2>5, GotoStep DEF KeepLocal
<1>3. CASE Reverify(p) /\ ~Ends(p, "refused")
  <2>1. Goto(p, "observe") /\ KeepOut /\ KeepLocal /\ step[p] = "reverify"
    BY <1>3 DEF Reverify, InLock, At
  <2>2. /\ Held(p) /\ step'[p] = "observe" /\ shown'[p] = shown[p]
    BY <1>0, <2>1, HolderFacts DEF Goto, KeepLocal
  <2>3. Held(p)'
    BY <1>0, <2>1, <2>2
    DEF Held, SameRecords, SamePredecessor, SameWorkspace, OwnRecord, Facing, Pending, Created,
        Based, Observed
  <2>4. "observe" \in Steps BY DEF Steps
  <2> QED BY <1>0, <2>1, <2>3, <2>4, GotoStep DEF KeepLocal
<1> QED BY <1>1, <1>2, <1>3

\* The predecessor is looked at, adopted or left, and the workspace digested.
LEMMA ObserveStep == ASSUME ReviewInv, NEW p \in Procs, Observe(p) PROVE ReviewInv'
<1>0. /\ pc[p] = "locked" /\ op[p] = "up" /\ step[p] = "observe"
      /\ UNCHANGED <<state, tr, digest, staging, booked, ws, flips>>
  BY DEF Observe, InLock, At, durable
<1>1. SharedType'
  <2>1. ctr' \in [Gens -> {"absent", "stopped", "running"}]
    BY CtrType DEF Observe, ReviewInv, SharedType
  <2> QED BY <1>0, <2>1 DEF ReviewInv, SharedType
<1>2. CASE Ends(p, "refused") BY <1>0, <1>1, <1>2, EndsStep
<1>3. CASE ~Ends(p, "refused")
  <2> DEFINE runs == state # None /\ ctr[state.gen] = "running"
             adopts == state # None /\ state.plan = cand[p] /\ ctr[state.gen] # "absent"
  <2>1. /\ shown[p].mode = "active" => runs
        /\ active' = [active EXCEPT ![p] = runs]
        /\ Goto(p, IF adopts THEN "adopt" ELSE "before")
        /\ KeepOut /\ UNCHANGED <<cand, seen, shown, base>>
    BY <1>3 DEF Observe
  <2>2. /\ Held(p) /\ active'[p] = runs /\ shown'[p] = shown[p] /\ base'[p] = base[p]
        /\ step'[p] = IF adopts THEN "adopt" ELSE "before"
    BY <1>0, <2>1, HolderFacts DEF Goto, ReviewInv, LocalType
  <2>3. Held(p)'
    BY <1>0, <2>1, <2>2
    DEF Held, SameRecords, SamePredecessor, SameWorkspace, OwnRecord, Facing, Pending, Created,
        Based, Observed
  <2>4. /\ (IF adopts THEN "adopt" ELSE "before") \in Steps \ {"reading"} /\ runs \in BOOLEAN
    BY DEF Steps
  <2> HIDE DEF runs, adopts
  <2> QED BY <1>0, <1>1, <2>1, <2>3, <2>4, GotoStep
<1> QED BY <1>2, <1>3

LEMMA UnadoptedType ==
  ASSUME SharedType, NEW p \in Procs
  PROVE  Unadopted(p) \in [Gens -> {"absent", "stopped", "running"}]
BY CtrType DEF Unadopted, SharedType

\* An adoption that fails ends the command, and may have recorded the status.
LEMMA AdoptFailsStep == ASSUME ReviewInv, NEW p \in Procs, AdoptFails(p) PROVE ReviewInv'
<1>0. /\ pc[p] = "locked" /\ op[p] = "up" /\ step[p] = "adopt"
      /\ UNCHANGED <<tr, digest, staging, booked, ws, flips>>
      /\ Ends(p, "failed") \/ Ends(p, "unclean")
      /\ ctr' = ctr \/ ctr' = Unadopted(p)
      /\ state' = state \/ state' = [state EXCEPT !.status = "running"]
  BY DEF AdoptFails, InLock, At
<1>1. state # None /\ state \in State
  BY <1>0, HolderFacts DEF Held, SamePredecessor, ReviewInv, SharedType
<1>2. state' \in State BY <1>0, <1>1 DEF State
<1>3. ctr' \in [Gens -> {"absent", "stopped", "running"}]
  BY <1>0, UnadoptedType DEF ReviewInv, SharedType
<1>4. SharedType' BY <1>0, <1>2, <1>3 DEF ReviewInv, SharedType
<1> QED BY <1>0, <1>4, EndsStep

\* adopt records that the generation runs, or stops again what it had started.
LEMMA AdoptStep == ASSUME ReviewInv, NEW p \in Procs, Adopt(p) PROVE ReviewInv'
<1>0. /\ pc[p] = "locked" /\ op[p] = "up" /\ step[p] = "adopt"
      /\ UNCHANGED <<tr, digest, staging, ws, flips>>
  BY DEF Adopt, InLock, At
<1>1. Held(p) /\ state # None /\ state \in State
  BY <1>0, HolderFacts DEF Held, SamePredecessor, ReviewInv, SharedType
<1>2. CASE Ends(p, "adopted") /\ booked' = TRUE /\ UNCHANGED ctr
           /\ state' = [state EXCEPT !.status = "running"]
  <2>1. state' \in State BY <1>1, <1>2 DEF State
  <2>2. SharedType' BY <1>0, <1>2, <2>1 DEF ReviewInv, SharedType
  <2> QED BY <1>0, <1>2, <2>2, EndsStep
<1>3. CASE /\ Goto(p, "before") /\ KeepOut /\ KeepLocal
           /\ ctr' = Unadopted(p)
           /\ UNCHANGED <<state, booked>>
  <2>1. ctr' \in [Gens -> {"absent", "stopped", "running"}]
    BY <1>3, UnadoptedType DEF ReviewInv
  <2>2. SharedType' BY <1>0, <1>3, <2>1 DEF ReviewInv, SharedType
  <2>3. /\ step'[p] = "before" /\ active'[p] = active[p] /\ shown'[p] = shown[p]
    BY <1>3, <1>0, HolderFacts DEF Goto, KeepLocal
  <2>4. Held(p)'
    BY <1>0, <1>1, <1>3, <2>3
    DEF Held, SameRecords, SamePredecessor, SameWorkspace, OwnRecord, Facing, Pending, Created,
        Based, Observed
  <2>5. "before" \in Steps BY DEF Steps
  <2> QED BY <1>0, <1>3, <2>2, <2>4, <2>5, GotoStep DEF KeepLocal
<1> QED BY <1>2, <1>3 DEF Adopt

\* The comparison that UpReviewed repeats under the lock before it stages.
LEMMA BeforeStep == ASSUME ReviewInv, NEW p \in Procs, Before(p) PROVE ReviewInv'
<1>0. /\ pc[p] = "locked" /\ op[p] = "up" /\ step[p] = "before"
      /\ SharedType' /\ UNCHANGED <<state, tr>>
  BY SharedKept DEF Before, InLock, At, ReviewInv, durable
<1>1. CASE Ends(p, "refused") BY <1>0, <1>1, EndsStep
<1>2. CASE ~Ends(p, "refused")
  <2>1. /\ shown[p].mode = "empty" => OnlyEmptyMounts(ws, cand[p])
        /\ shown[p].mode = "exact" => ws = shown[p].root
        /\ base' = [base EXCEPT ![p] = IF shown[p].mode = "active" THEN None ELSE ws]
        /\ Goto(p, "create")
        /\ KeepOut /\ UNCHANGED <<cand, seen, shown, active>>
    BY <1>2 DEF Before
  <2>2. /\ Held(p) /\ step'[p] = "create" /\ ws \in Trees
        /\ base'[p] = IF shown[p].mode = "active" THEN None ELSE ws
        /\ cand'[p] = cand[p] /\ shown'[p] = shown[p] /\ active'[p] = active[p]
    BY <1>0, <2>1, HolderFacts DEF Goto, ReviewInv, LocalType, SharedType
  <2>3. SameWorkspace(p)' BY <2>1, <2>2 DEF SameWorkspace, OnlyEmptyMounts
  <2>4. Held(p)'
    BY <1>0, <2>2, <2>3
    DEF Held, SameRecords, SamePredecessor, OwnRecord, Facing, Pending, Created, Based, Observed
  <2>5. "create" \in Steps BY DEF Steps
  <2>6. (IF shown[p].mode = "active" THEN None ELSE ws) \in {None} \cup Trees BY <2>2
  <2> QED BY <1>0, <2>1, <2>4, <2>5, <2>6, GotoStep
<1> QED BY <1>1, <1>2

\* The successor is created and filled.
LEMMA CreateStep ==
  ASSUME ReviewInv, NEW p \in Procs, Create(p) \/ Materialize(p)
  PROVE  ReviewInv'
<1>0. /\ pc[p] = "locked" /\ op[p] = "up" /\ step[p] \in {"create", "materialize"}
      /\ UNCHANGED <<state, tr, digest, booked, flips>>
  BY DEF Create, Materialize, InLock, At, durable
<1>1. SharedType'
  <2>1. ws' \in Trees
    BY <1>0, HolderFacts DEF Create, Materialize, ReviewInv, SharedType, Trees
  <2>2. ctr' \in [Gens -> {"absent", "stopped", "running"}]
    BY CtrType DEF Create, Materialize, ReviewInv, SharedType
  <2>3. staging' \in BOOLEAN BY DEF Create, Materialize, ReviewInv, SharedType, durable
  <2> QED BY <1>0, <2>1, <2>2, <2>3 DEF ReviewInv, SharedType
<1>2. CASE Ends(p, "failed") BY <1>0, <1>1, <1>2, EndsStep
<1>3. ASSUME NEW l \in {"materialize", "record"}, Goto(p, l), KeepOut, KeepLocal,
             step[p] = "create" => NextGeneration \in Gens
      PROVE  ReviewInv'
  <2>1. /\ Held(p) /\ step'[p] = l /\ cand'[p] = cand[p] /\ shown'[p] = shown[p]
        /\ active'[p] = active[p] /\ base'[p] = base[p]
    BY <1>0, <1>3, HolderFacts DEF Goto, KeepLocal
  <2>2. Held(p)'
    BY <1>0, <1>3, <2>1
    DEF Held, SameRecords, SamePredecessor, SameWorkspace, OwnRecord, Facing, Pending, Created,
        Based, Observed, NextGeneration, OnlyEmptyMounts
  <2>3. l \in Steps \ {"reading"} BY DEF Steps
  <2> QED BY <1>0, <1>1, <1>3, <2>2, <2>3, GotoStep DEF KeepLocal
<1> QED BY <1>2, <1>3 DEF Create, Materialize, InLock, At

\* The rollback record names the predecessor that was reviewed.
LEMMA RecordStep == ASSUME ReviewInv, NEW p \in Procs, RecordRollback(p) PROVE ReviewInv'
<1>0. /\ pc[p] = "locked" /\ op[p] = "up" /\ step[p] = "record"
      /\ UNCHANGED <<state, digest, booked, ws, ctr, flips>> /\ staging' = FALSE
      /\ Goto(p, "stop") /\ KeepOut /\ KeepLocal
  BY DEF RecordRollback, InLock, At
<1>1. /\ Held(p) /\ cand[p] \in Plans /\ active[p] \in BOOLEAN /\ shown[p] \in Comparison
      /\ NextGeneration \in Gens /\ state \in {None} \cup State
  BY <1>0, HolderFacts DEF Held, SameRecords, Created, ReviewInv, SharedType
<1>2. tr' \in Transition BY <1>1 DEF RecordRollback, Transition, State
<1>3. tr' # None BY <1>2, AbsentRecord
<1>4. /\ tr'.phase = "rollback" /\ tr'.prior = state /\ tr'.wasRunning = active[p]
      /\ tr'.succ.plan = cand[p]
  BY DEF RecordRollback
<1>5. SharedType' BY <1>0, <1>2 DEF ReviewInv, SharedType
<1>6. /\ step'[p] = "stop" /\ cand'[p] = cand[p] /\ shown'[p] = shown[p]
      /\ active'[p] = active[p] /\ base'[p] = base[p] /\ NextGeneration' = NextGeneration
  BY <1>0, HolderFacts DEF Goto, KeepLocal, NextGeneration
<1>7. Held(p)'
  BY <1>0, <1>1, <1>3, <1>4, <1>6
  DEF Held, SameRecords, SamePredecessor, SameWorkspace, OwnRecord, Facing, Pending, Created,
      Based, Observed, OnlyEmptyMounts
<1>8. "stop" \in Steps BY DEF Steps
<1> QED BY <1>0, <1>5, <1>7, <1>8, GotoStep DEF KeepLocal

\* The predecessor is stopped, and the successor started.
LEMMA CutOverStep ==
  ASSUME ReviewInv, NEW p \in Procs, StopPredecessor(p) \/ StartSuccessor(p)
  PROVE  ReviewInv'
<1>0. /\ pc[p] = "locked" /\ op[p] = "up" /\ step[p] \in {"stop", "start"}
      /\ UNCHANGED <<state, tr, digest, staging, booked, ws, flips>> /\ KeepOut /\ KeepLocal
      /\ Goto(p, IF step[p] = "stop" THEN "capture" ELSE "commit")
  BY DEF StopPredecessor, StartSuccessor, InLock, At, durable
<1>1. SharedType'
  <2>1. ctr' \in [Gens -> {"absent", "stopped", "running"}]
    BY CtrType DEF StopPredecessor, StartSuccessor, ReviewInv, SharedType
  <2> QED BY <1>0, <2>1 DEF ReviewInv, SharedType
<1>2. /\ Held(p) /\ step'[p] = (IF step[p] = "stop" THEN "capture" ELSE "commit")
      /\ cand'[p] = cand[p] /\ shown'[p] = shown[p]
      /\ active'[p] = active[p] /\ base'[p] = base[p] /\ NextGeneration' = NextGeneration
  BY <1>0, HolderFacts DEF Goto, KeepLocal, NextGeneration
<1>3. Held(p)'
  BY <1>0, <1>2
  DEF Held, SameRecords, SamePredecessor, SameWorkspace, OwnRecord, Facing, Pending, Created,
      Based, Observed, OnlyEmptyMounts, Scaffolded
<1>4. (IF step[p] = "stop" THEN "capture" ELSE "commit") \in Steps \ {"reading"} BY DEF Steps
<1> QED BY <1>0, <1>1, <1>3, <1>4, GotoStep DEF KeepLocal

\* The deferred cleanup leaves records and containers of their types.
LEMMA CleanUpType ==
  ASSUME SharedType, NEW p \in Procs, CleanUp(p) \/ CleanUpFails(p), UNCHANGED <<ws, flips>>,
         digest' \in [Gens -> {None} \cup Trees]
  PROVE  SharedType'
<1>1. CASE CleanUp(p)
  <2>1. ctr' \in [Gens -> {"absent", "stopped", "running"}] BY <1>1 DEF CleanUp, SharedType
  <2> QED BY <1>1, <2>1 DEF CleanUp, SharedType
<1>2. CASE CleanUpFails(p)
  <2>1. PICK left \in {"absent", "stopped", ctr[NextGeneration]}, restored \in BOOLEAN:
          ctr' = [g \in Gens |->
                    IF g = NextGeneration THEN left
                    ELSE IF restored /\ active[p] /\ tr # None /\ g = state.gen THEN "running"
                    ELSE ctr[g]]
    BY <1>2 DEF CleanUpFails
  <2>2. ASSUME NEW g \in Gens PROVE ctr'[g] \in {"absent", "stopped", "running"}
    <3>1. g = NextGeneration => left \in {"absent", "stopped", "running"} BY DEF SharedType
    <3> QED BY <2>1, <3>1 DEF SharedType
  <2>3. ctr' \in [Gens -> {"absent", "stopped", "running"}] BY <2>1, <2>2
  <2> QED BY <1>2, <2>3 DEF CleanUpFails, SharedType
<1> QED BY <1>1, <1>2

\* The workspace at the cutover.
LEMMA CaptureStep == ASSUME ReviewInv, NEW p \in Procs, Capture(p) PROVE ReviewInv'
<1>0. /\ pc[p] = "locked" /\ op[p] = "up" /\ step[p] = "capture"
      /\ UNCHANGED <<digest, ws, flips>>
  BY DEF Capture, InLock, At
<1>1. CASE (CleanUp(p) /\ Ends(p, "refused")) \/ (CleanUpFails(p) /\ Ends(p, "unclean"))
  <2>1. SharedType' BY <1>0, <1>1, CleanUpType DEF ReviewInv, SharedType
  <2> QED BY <1>0, <1>1, <2>1, EndsStep
<1>2. CASE ~((CleanUp(p) /\ Ends(p, "refused")) \/ (CleanUpFails(p) /\ Ends(p, "unclean")))
  <2>1. /\ shown[p].mode = "active" \/ Scaffolded(base[p], ws, cand[p])
        /\ tr' = [tr EXCEPT !.ws = ws]
        /\ Goto(p, "start") /\ KeepOut /\ KeepLocal
        /\ UNCHANGED <<state, staging, booked, ctr>>
    BY <1>2 DEF Capture
  <2>2. Held(p) /\ tr # None /\ tr \in Transition /\ ws \in Trees
    BY <1>0, HolderFacts DEF Held, OwnRecord, Pending, ReviewInv, SharedType
  <2>3. /\ tr' \in Transition /\ tr' # None /\ tr'.phase = tr.phase /\ tr'.prior = tr.prior
        /\ tr'.wasRunning = tr.wasRunning /\ tr'.succ = tr.succ /\ tr'.ws = ws
    BY <2>1, <2>2, AbsentRecord DEF Transition
  <2>4. SharedType' BY <1>0, <2>1, <2>3 DEF ReviewInv, SharedType
  <2>5. /\ step'[p] = "start" /\ cand'[p] = cand[p] /\ shown'[p] = shown[p]
        /\ active'[p] = active[p] /\ base'[p] = base[p] /\ NextGeneration' = NextGeneration
    BY <1>0, <2>1, HolderFacts DEF Goto, KeepLocal, NextGeneration
  <2>6. OwnRecord(p)'
    BY <1>0, <2>1, <2>2, <2>3, <2>5 DEF Held, OwnRecord, Pending, Scaffolded
  <2>7. Held(p)'
    BY <1>0, <2>1, <2>2, <2>5, <2>6
    DEF Held, SameRecords, SamePredecessor, SameWorkspace, Facing, Pending, Created,
        Based, Observed, OnlyEmptyMounts
  <2>8. "start" \in Steps BY DEF Steps
  <2> QED BY <1>0, <2>1, <2>4, <2>7, <2>8, GotoStep DEF KeepLocal
<1> QED BY <1>1, <1>2

\* The commit record.
LEMMA CommitStep == ASSUME ReviewInv, NEW p \in Procs, Commit(p) PROVE ReviewInv'
<1>0. /\ pc[p] = "locked" /\ op[p] = "up" /\ step[p] = "commit"
      /\ UNCHANGED <<state, digest, staging, booked, ws, ctr, flips>>
      /\ Goto(p, "publish") /\ KeepOut /\ KeepLocal
  BY DEF Commit, InLock, At
<1>1. tr \in Transition /\ ws \in Trees
  BY <1>0, HolderFacts DEF Held, OwnRecord, Pending, ReviewInv, SharedType
<1>2. tr' \in Transition /\ tr'.phase = "commit" BY <1>1 DEF Commit, Transition, State
<1>3. SharedType' /\ tr' # None BY <1>0, <1>2, AbsentRecord DEF ReviewInv, SharedType
<1>4. step'[p] = "publish" BY <1>0, HolderFacts DEF Goto
<1>5. Held(p)'
  BY <1>2, <1>3, <1>4
  DEF Held, SameRecords, SamePredecessor, SameWorkspace, OwnRecord, Facing, Pending, Created,
      Based, Observed
<1>6. "publish" \in Steps BY DEF Steps
<1> QED BY <1>0, <1>3, <1>5, <1>6, GotoStep DEF KeepLocal

\* Publication, and a host call that fails.
LEMMA PublishStep ==
  ASSUME ReviewInv, NEW p \in Procs, Publish(p) \/ UpFails(p)
  PROVE  ReviewInv'
<1>0. pc[p] = "locked" /\ op[p] = "up" /\ UNCHANGED <<ws, flips>>
  BY DEF Publish, UpFails, InLock
<1>1. step[p] = "publish" => tr \in Transition
  BY <1>0, HolderFacts DEF Held, SameRecords, ReviewInv, SharedType
<1>2. step[p] = "publish" => tr.ws \in {None} \cup Trees /\ tr.succ \in State
  BY <1>1 DEF Transition
<1>3. digest' \in [Gens -> {None} \cup Trees]
  BY <1>2 DEF Publish, UpFails, InLock, At, ReviewInv, SharedType
<1>4. CASE Publish(p)
  <2>1. ctr' \in [Gens -> {"absent", "stopped", "running"}]
    BY <1>4, CtrType DEF Publish, ReviewInv, SharedType
  <2>2. SharedType'
    BY <1>0, <1>2, <1>3, <1>4, <2>1 DEF Publish, InLock, At, ReviewInv, SharedType
  <2> QED BY <1>0, <1>4, <2>2, EndsStep DEF Publish
<1>5. CASE UpFails(p)
  <2>1. SharedType' BY <1>0, <1>3, <1>5, CleanUpType DEF UpFails, ReviewInv
  <2> QED BY <1>0, <1>5, <2>1, EndsStep DEF UpFails
<1> QED BY <1>4, <1>5

\* Recovery leaves one authority, of their types.
LEMMA RecoveredType ==
  ASSUME SharedType, tr # None, Completes \/ RollsBack, UNCHANGED <<staging, ws, flips>>
  PROVE  SharedType' /\ tr' = None /\ state' = Authority(tr, state)
<1>1. tr \in Transition BY DEF SharedType
<1>2. tr.succ \in State /\ tr.prior \in {None} \cup State /\ tr.ws \in {None} \cup Trees
  BY <1>1 DEF Transition
<1>3. CASE Completes
  <2>1. ctr' \in [Gens -> {"absent", "stopped", "running"}]
    BY <1>3 DEF Completes, SharedType
  <2> QED BY <1>2, <1>3, <2>1 DEF Completes, SharedType, Authority
<1>4. CASE RollsBack
  <2>1. ctr' \in [Gens -> {"absent", "stopped", "running"}]
    BY <1>4 DEF RollsBack, SharedType
  <2> QED BY <1>2, <1>4, <2>1 DEF RollsBack, SharedType, Authority
<1> QED BY <1>3, <1>4

\* Recovery by up or down; after it state.json is the predecessor reviewed.
LEMMA RecoverStep == ASSUME ReviewInv, NEW p \in Procs, Recover(p) PROVE ReviewInv'
<1>0. /\ pc[p] = "locked" /\ op[p] # "inspect" /\ UNCHANGED <<staging, ws, flips>>
      /\ \/ op[p] = "up" /\ step[p] = "recover"
         \/ op[p] = "down" /\ step[p] = "prepare"
  BY DEF Recover, At
<1>1. CASE tr # None /\ Ends(p, "failed") /\ UNCHANGED <<state, tr, digest, booked, ctr>>
  <2>1. SharedType' BY <1>0, <1>1 DEF ReviewInv, SharedType
  <2> QED BY <1>0, <1>1, <2>1, EndsStep
<1>2. CASE /\ \/ tr = None /\ UNCHANGED <<state, tr, digest, booked, ctr>>
              \/ tr # None /\ (Completes \/ RollsBack)
           /\ Goto(p, AfterRecovery(p)) /\ KeepOut /\ KeepLocal
  <2>1. SharedType' /\ tr' = None /\ state' = Authority(tr, state)
    <3>1. CASE tr = None /\ UNCHANGED <<state, tr, digest, booked, ctr>>
      BY <1>0, <3>1 DEF ReviewInv, SharedType, Authority
    <3> QED BY <1>0, <1>2, <3>1, RecoveredType DEF ReviewInv
  <2>2. /\ step'[p] = AfterRecovery(p) /\ shown'[p] = shown[p]
    BY <1>2 DEF Goto, KeepLocal, ReviewInv, LocalType
  <2>3. CASE op[p] = "up" /\ step[p] = "recover"
    <3>1. Held(p) /\ AfterRecovery(p) \in {"reverify", "observe"}
      BY <1>0, <2>3, HolderFacts DEF AfterRecovery
    <3>2. Held(p)'
      BY <2>1, <2>2, <2>3, <3>1
      DEF Held, SameRecords, SamePredecessor, SameWorkspace, OwnRecord, Facing, Pending,
          Created, Based, Observed
    <3>3. AfterRecovery(p) \in Steps \ {"reading"} BY <3>1 DEF Steps
    <3> QED BY <1>0, <1>2, <2>1, <2>3, <3>2, <3>3, GotoStep DEF KeepLocal
  <2>4. CASE op[p] = "down" /\ step[p] = "prepare"
    <3>1. step'[p] = "stop" /\ AfterRecovery(p) \in Steps BY <2>2, <2>4 DEF AfterRecovery, Steps
    <3>2. LocalType' BY <1>2, <3>1, GotoType DEF ReviewInv, KeepOut
    <3>3. LockInv'
      BY <1>2
      DEF ReviewInv, LockInv, TypeOK, OneInode, LockNeedsDescriptor, Exclusion, DescriptorOpen,
          KeepOut, lockvars
    <3>4. Others(p) BY <1>2 DEF Goto, KeepOut, KeepLocal, lockvars, Others, ReviewInv, LocalType
    <3>5. AsksRight(p)'
      BY <1>2, <2>4, <3>1 DEF AsksRight, Asking, ReviewInv, KeepOut, lockvars, Wanted
    <3> QED BY <1>0, <2>1, <2>4, <3>2, <3>3, <3>4, <3>5, ProcessStep
  <2> QED BY <1>0, <2>3, <2>4
<1> QED BY <1>1, <1>2 DEF Recover

\* down.
LEMMA DownStep == ASSUME ReviewInv, NEW p \in Procs, DownStops(p) PROVE ReviewInv'
<1>0. /\ pc[p] = "locked" /\ op[p] = "down" /\ UNCHANGED <<tr, digest, staging, ws, flips>>
      /\ Ends(p, "failed") \/ Ends(p, "applied")
  BY DEF DownStops, InLock
<1>1. ctr' \in [Gens -> {"absent", "stopped", "running"}]
  BY CtrType DEF DownStops, ReviewInv, SharedType
<1>2. state' \in {None} \cup State
  <2>1. CASE state = None BY <2>1 DEF DownStops
  <2>2. CASE state # None
    <3>1. state \in State /\ state' = [state EXCEPT !.status = "down"]
      BY <2>2 DEF DownStops, ReviewInv, SharedType
    <3> QED BY <3>1 DEF State
  <2> QED BY <2>1, <2>2
<1>a. booked' \in BOOLEAN BY DEF DownStops, ReviewInv, SharedType
<1>3. SharedType' BY <1>0, <1>1, <1>2, <1>a DEF ReviewInv, SharedType
<1> QED BY <1>0, <1>3, EndsStep

\* runUp up to the confirmation.
LEMMA UnlockedStep ==
  ASSUME ReviewInv, NEW p \in Procs, CompareRead(p) \/ CompareObserve(p) \/ Confirm(p)
  PROVE  ReviewInv'
<1>0. /\ pc[p] = "start" /\ UNCHANGED <<state, tr>> /\ SharedType'
      /\ step[p] \in {"prepare", "reading", "asked"}
  BY SharedKept DEF CompareRead, CompareObserve, Confirm, At, ReviewInv, durable
<1>1. /\ cand[p] \in Plans /\ tr \in {None} \cup Transition /\ state \in {None} \cup State
  BY DEF ReviewInv, LocalType, SharedType
<1>2. {"reading", "asked", "agreed", "end"} \subseteq Steps BY DEF Steps
<1>3. CASE LockInv' /\ pc' = pc /\ op' = op /\ flock' = flock /\ out' = out
  <2>1. CASE CompareRead(p)
    <3>1. [tr |-> tr, state |-> state] \in Reading BY <1>1 DEF Reading
    <3>2. LocalType' BY <1>2, <1>3, <2>1, <3>1 DEF CompareRead, Goto, ReviewInv, LocalType
    <3>3. /\ Others(p) /\ step'[p] = "reading" /\ seen'[p] = [tr |-> tr, state |-> state]
      BY <1>3, <2>1 DEF CompareRead, Goto, Others, ReviewInv, LocalType
    <3>4. AsksRight(p)' BY <1>0, <1>3, <3>1, <3>3 DEF AsksRight
    <3> QED BY <1>0, <1>3, <3>2, <3>3, <3>4, ProcessStep
  <2>2. CASE CompareObserve(p)
    <3> DEFINE c == Compare(cand[p], seen[p].tr, seen[p].state)
    <3>1. /\ seen' = [seen EXCEPT ![p] = None]
          /\ Goto(p, "asked") /\ shown' = [shown EXCEPT ![p] = c]
          /\ UNCHANGED <<cand, active, base>>
      <4>1. ~Refuses(cand[p], seen[p].tr, seen[p].state)
        BY <1>0, <1>3, <2>2 DEF CompareObserve, Close, ReviewInv, LockInv, TypeOK
      <4> QED BY <2>2, <4>1 DEF CompareObserve
    <3>2. seen[p] \in Reading BY <2>2 DEF CompareObserve, At, ReviewInv, Asking, AsksRight
    <3>3. seen[p].tr \in {None} \cup Transition /\ seen[p].state \in {None} \cup State
      BY <3>2 DEF Reading
    <3>4. c \in Comparison /\ c.cand = cand[p] BY <1>1, <3>3, CompareType DEF ReviewInv
    <3> HIDE DEF c
    <3>5. LocalType' BY <1>2, <1>3, <3>1, <3>4 DEF Goto, ReviewInv, LocalType
    <3>6. /\ Others(p) /\ step'[p] = "asked" /\ shown'[p] = c /\ cand'[p] = cand[p]
      BY <1>3, <3>1 DEF Goto, Others, ReviewInv, LocalType
    <3>7. AsksRight(p)' BY <1>0, <1>3, <3>4, <3>6 DEF AsksRight
    <3> QED BY <1>0, <1>3, <3>5, <3>6, <3>7, ProcessStep
  <2>3. CASE Confirm(p)
    <3>1. LocalType' BY <1>2, <1>3, <2>3, GotoType DEF Confirm, ReviewInv
    <3>2. /\ Others(p) /\ step'[p] = "agreed" /\ shown'[p] = shown[p] /\ cand'[p] = cand[p]
      BY <1>3, <2>3 DEF Confirm, Goto, KeepLocal, Others, ReviewInv, LocalType
    <3>3. step[p] = "asked" BY <2>3 DEF Confirm, At
    <3>4. AsksRight(p)'
      BY <1>0, <1>3, <3>2, <3>3 DEF AsksRight, ReviewInv, Asking
    <3> QED BY <1>0, <1>3, <3>1, <3>2, <3>4, ProcessStep
  <2> QED BY <2>1, <2>2, <2>3
<1>4. CASE CompareObserve(p) /\ Close(p)
  <2>0. /\ Goto(p, "end") /\ out' = [out EXCEPT ![p] = "refused"] /\ UNCHANGED shown
        /\ seen' = [seen EXCEPT ![p] = None]
        /\ UNCHANGED <<op, path, root, inodes, cand, active, base>>
    <3>1. Refuses(cand[p], seen[p].tr, seen[p].state)
      BY <1>0, <1>4 DEF CompareObserve, Close, ReviewInv, LockInv, TypeOK
    <3> QED BY <1>4, <3>1 DEF CompareObserve
  <2>1. LocalType' BY <1>2, <2>0 DEF Goto, ReviewInv, LocalType
  <2>2. LockInv' BY <1>4, <2>0, CloseKeepsInv DEF ReviewInv
  <2>3. Others(p) /\ pc'[p] = "done" /\ step'[p] = "end"
    BY <1>4, <2>0 DEF Close, Goto, Others, ReviewInv, LocalType, LockInv, TypeOK
  <2>4. AsksRight(p)' BY <2>3 DEF AsksRight
  <2> QED BY <1>0, <2>1, <2>2, <2>3, <2>4, ProcessStep
<1>5. \/ CompareObserve(p) /\ Close(p)
      \/ pc' = pc /\ op' = op /\ flock' = flock /\ out' = out /\ fd' = fd
         /\ UNCHANGED <<path, root, inodes>>
  BY DEF CompareRead, CompareObserve, Confirm, KeepOut, lockvars
<1>6. pc' = pc /\ op' = op /\ flock' = flock /\ fd' = fd /\ UNCHANGED <<path, root, inodes>>
        => LockInv'
  BY DEF ReviewInv, LockInv, TypeOK, OneInode, LockNeedsDescriptor, Exclusion, DescriptorOpen
<1> QED BY <1>3, <1>4, <1>5, <1>6

\* The lock file's own steps, and the death of a command.
LEMMA LockStep ==
  ASSUME "destroy" \notin Ops, ReviewInv, NEW p \in Procs, Lock(p) \/ Dies(p)
  PROVE  ReviewInv'
<1>0. UNCHANGED rvars BY DEF Lock, Dies
<1>1. SharedType' /\ LocalType' /\ UNCHANGED <<state, tr>>
  BY <1>0 DEF ReviewInv, SharedType, LocalType, rvars, durable, local
<1>2. Next BY DEF Next, Lock, Dies
<1>3. LockInv' BY <1>2, LockTypeStep, StepKeepsInv DEF ReviewInv, LockInv
<1>4. Others(p)
  BY <1>0 DEF Lock, Dies, Ensure, Open, Flock, Release, Close, Others, rvars, local,
              ReviewInv, LockInv, TypeOK
<1>5. /\ op' = op /\ UNCHANGED <<cand, step, seen, shown>>
  BY <1>0, <1>4 DEF Others, rvars, local
<1>6. CASE Lock(p)
  <2>1. /\ op[p] = "up" => step[p] = "agreed"
        /\ pc'[p] = "locked" => flock'[p] = Wanted(p)
    BY <1>6 DEF Lock, Ensure, Open, Flock, Close, ReviewInv, LockInv, TypeOK
  <2>2. AsksRight(p)' BY <1>5, <2>1 DEF AsksRight, ReviewInv, Asking, Wanted
  <2>3. op[p] = "up" => Held(p)'
    BY <1>5, <2>1
    DEF Held, SameRecords, SamePredecessor, SameWorkspace, OwnRecord, Facing, Pending, Created,
        Based, Observed
  <2> QED BY <1>1, <1>3, <1>4, <2>2, <2>3, ProcessStep
<1>7. CASE Dies(p)
  <2>1. pc'[p] = "done" BY <1>7 DEF Dies, Release, Close, ReviewInv, LockInv, TypeOK
  <2>2. AsksRight(p)' BY <1>5, <2>1 DEF AsksRight, ReviewInv, Asking
  <2> QED BY <1>1, <1>3, <1>4, <2>1, <2>2, ProcessStep
<1> QED BY <1>6, <1>7

\* Edits, exits and starts by hand touch nothing that a command holds.
LEMMA SurroundingStep ==
  ASSUME ReviewInv, SharedType', UNCHANGED <<lockvars, state, tr, local>>
  PROVE  ReviewInv'
<1>1. LocalType' BY DEF ReviewInv, LocalType, local
<1>2. LockInv'
  BY DEF ReviewInv, LockInv, TypeOK, OneInode, LockNeedsDescriptor, Exclusion, DescriptorOpen,
         lockvars
<1>3. Asking' BY DEF ReviewInv, Asking, AsksRight, Wanted, lockvars, local
<1>4. HolderInv'
  <2> SUFFICES ASSUME NEW p \in Procs, pc'[p] = "locked", op'[p] = "up" PROVE Held(p)'
    BY DEF HolderInv
  <2>1. Held(p) BY DEF ReviewInv, HolderInv, lockvars
  <2> QED BY <2>1, HeldKept DEF local
<1> QED BY <1>1, <1>2, <1>3, <1>4 DEF ReviewInv

\* Every step keeps the invariant.
LEMMA ReviewStep ==
  ASSUME "destroy" \notin Ops, ReviewInv, [ReviewNext]_allvars
  PROVE  ReviewInv'
<1>1. ASSUME NEW p \in Procs, UpStep(p) PROVE ReviewInv'
  BY <1>1, UnlockedStep, RecheckStep, ObserveStep, AdoptStep, AdoptFailsStep,
      BeforeStep, CreateStep,
      RecordStep, CutOverStep, CaptureStep, CommitStep, PublishStep DEF UpStep
<1>2. ASSUME NEW p \in Procs, Lock(p) \/ Dies(p) PROVE ReviewInv'
  BY <1>2, LockStep
<1>3. ASSUME NEW p \in Procs, Recover(p) \/ DownStops(p) PROVE ReviewInv'
  BY <1>3, RecoverStep, DownStep
<1>4. ASSUME NEW p \in Procs, DestroyRuntime(p) \/ DestroyRename(p) PROVE FALSE
  <2>1. op[p] \in Ops BY DEF ReviewInv, LockInv, TypeOK
  <2> QED BY <1>4, <2>1 DEF DestroyRuntime, DestroyRename, InLock
<1>5. CASE Edit
  <2>1. ws' \in Trees
    <3>1. ws \in Trees /\ ws' = [ws EXCEPT !.ver = @ + 1] /\ ws.ver < MaxWs
      BY <1>5 DEF Edit, ReviewInv, SharedType
    <3>2. ws.ver \in 0..MaxWs BY <3>1 DEF Trees
    <3>3. ws.ver + 1 \in 0..MaxWs BY <3>1, <3>2, ReviewConstants
    <3> QED BY <3>1, <3>3 DEF Trees
  <2>2. SharedType' BY <1>5, <2>1 DEF Edit, ReviewInv, SharedType, durable
  <2> QED BY <1>5, <2>2, SurroundingStep DEF Edit, durable
<1>6. ASSUME NEW g \in Gens, Flip(g) PROVE ReviewInv'
  <2>1. ctr' \in [Gens -> {"absent", "stopped", "running"}]
    BY <1>6, CtrType DEF Flip, ReviewInv, SharedType
  <2>2. flips' \in 0..MaxFlips BY <1>6, ReviewConstants DEF Flip, ReviewInv, SharedType
  <2>3. SharedType' BY <1>6, <2>1, <2>2 DEF Flip, ReviewInv, SharedType, durable
  <2> QED BY <1>6, <2>3, SurroundingStep DEF Flip, durable
<1>7. CASE UNCHANGED allvars
  <2>1. SharedType' BY <1>7, SharedKept DEF ReviewInv, allvars, rvars
  <2> QED BY <1>7, <2>1, SurroundingStep DEF allvars, rvars, vars, lockvars, durable
<1> QED BY <1>1, <1>2, <1>3, <1>4, <1>5, <1>6, <1>7 DEF ReviewNext

\* No world, or an established one, and no command yet.
LEMMA ReviewInitially == ReviewInit => ReviewInv
<1> SUFFICES ASSUME ReviewInit PROVE ReviewInv OBVIOUS
<1>1. LockInv BY LockInitially DEF ReviewInit
<1>2. root \in BOOLEAN BY <1>1 DEF LockInv, TypeOK
<1>3. 0 \in 0..MaxWs /\ 1 \in Gens /\ flips \in 0..MaxFlips
  BY ReviewConstants DEF Gens, ReviewInit
<1>4. NewWorkspace \in Trees BY <1>3 DEF NewWorkspace, Trees
<1>5. SharedType
  <2>1. CASE ~root
    BY <1>2, <1>3, <1>4, <2>1 DEF ReviewInit, SharedType
  <2>2. CASE root
    <3>1. PICK s \in [gen: {1}, plan: Plans, status: {"running", "down"}]:
            /\ state = s
            /\ ws = [mounts |-> Targets[s.plan], ver |-> 0]
            /\ digest = [g \in Gens |-> IF g = 1 THEN ws ELSE None]
            /\ ctr = [g \in Gens |-> IF g > 1 THEN "absent"
                                     ELSE IF s.status = "down" THEN "stopped"
                                     ELSE "running"]
      BY <2>2 DEF ReviewInit
    <3>2. state \in State BY <1>3, <3>1 DEF State
    <3>3. ws \in Trees BY <1>3, <3>1, ReviewConstants DEF Trees
    <3>4. digest \in [Gens -> {None} \cup Trees] BY <3>1, <3>3
    <3>5. ctr \in [Gens -> {"absent", "stopped", "running"}] BY <3>1
    <3>6. tr = None /\ staging = FALSE /\ booked = root BY DEF ReviewInit
    <3> QED BY <1>2, <1>3, <3>2, <3>3, <3>4, <3>5, <3>6 DEF SharedType
  <2> QED BY <1>2, <2>1, <2>2
<1>6. LocalType
  <2>1. "prepare" \in Steps BY DEF Steps
  <2> QED BY <2>1 DEF ReviewInit, LocalType
<1>7. Asking /\ HolderInv
  BY DEF ReviewInit, Init, Asking, AsksRight, HolderInv
<1> QED BY <1>1, <1>5, <1>6, <1>7 DEF ReviewInv

-----------------------------------------------------------------------------
(* Theorems *)

\* The invariant holds of any set of up, down and inspect-workspace processes.
THEOREM ReviewInvariant == ASSUME "destroy" \notin Ops PROVE ReviewSpec => []ReviewInv
<1>1. ReviewInv /\ [ReviewNext]_allvars => ReviewInv' BY ReviewStep
<1> QED BY <1>1, ReviewInitially, PTL DEF ReviewSpec

\* Records, comparisons and workspaces are of their kinds at every step of every
\* command, so that no comparison reads a field of what is absent.
THEOREM ReviewType == ASSUME "destroy" \notin Ops PROVE ReviewSpec => []ReviewTypeOK
<1>1. ReviewInv => ReviewTypeOK BY ReviewTypes
<1> QED BY <1>1, ReviewInvariant, PTL

\* The successor about to start is the candidate that was shown, replaces the plan
\* it was shown against and is handed the workspace that was shown.
THEOREM AppliedIsReviewed == ASSUME "destroy" \notin Ops PROVE ReviewSpec => []AppliedAsReviewed
<1>1. ReviewInv => AppliedAsReviewed
  <2> SUFFICES ASSUME ReviewInv, NEW p \in Procs, pc[p] = "locked", op[p] = "up",
                      step[p] \in {"start", "commit"}
               PROVE  /\ tr # None /\ tr.succ.plan = shown[p].cand
                      /\ PlanOf(tr.prior) = PlanOf(shown[p].prior)
                      /\ CASE shown[p].mode = "empty" -> OnlyEmptyMounts(tr.ws, cand[p])
                           [] shown[p].mode = "exact" ->
                                Scaffolded(shown[p].root, tr.ws, cand[p])
                           [] OTHER -> tr.wasRunning
    BY DEF AppliedAsReviewed
  <2>1. /\ Held(p) /\ shown[p] \in Comparison /\ shown[p].cand = cand[p]
    BY HolderFacts
  <2>2. /\ tr # None /\ tr.prior = state /\ tr.wasRunning = active[p]
        /\ tr.succ.plan = cand[p] /\ state = shown[p].prior
        /\ shown[p].mode # "active" => Scaffolded(base[p], tr.ws, cand[p])
        /\ shown[p].mode = "active" => active[p]
    BY <2>1 DEF Held, SameRecords, SamePredecessor, OwnRecord, Pending, Observed, Based, Created
  <2>3. CASE shown[p].mode = "empty"
    <3>1. base[p] \in Trees /\ OnlyEmptyMounts(base[p], cand[p])
      BY <2>1, <2>3 DEF Held, SameWorkspace, Based, Created, Pending
    <3>2. tr.ws = [base[p] EXCEPT !.mounts = @ \cup Targets[cand[p]]]
      BY <2>2, <2>3 DEF Scaffolded
    <3>3. tr.ws.ver = base[p].ver /\ tr.ws.mounts = base[p].mounts \cup Targets[cand[p]]
      BY <3>1, <3>2 DEF Trees
    <3>4. OnlyEmptyMounts(tr.ws, cand[p]) BY <3>1, <3>3 DEF OnlyEmptyMounts
    <3> QED BY <2>1, <2>2, <2>3, <3>4
  <2>4. CASE shown[p].mode = "exact"
    <3>1. base[p] = shown[p].root
      BY <2>1, <2>4 DEF Held, SameWorkspace, Based, Created, Pending
    <3> QED BY <2>1, <2>2, <2>4, <3>1
  <2>5. shown[p].mode \in {"empty", "exact", "active"} BY <2>1 DEF Comparison
  <2> QED BY <2>1, <2>2, <2>3, <2>4, <2>5
<1> QED BY <1>1, ReviewInvariant, PTL

\* Who is inside is alone, also with recoveries, refusals and cleanups that end
\* commands anywhere.
THEOREM ReviewSerialized == ASSUME "destroy" \notin Ops PROVE ReviewSpec => []SoleMutator
<1>1. ReviewInv => SoleMutator
  BY DEF ReviewInv, LockInv, Exclusion, SoleMutator, Mutating, Observing
<1> QED BY <1>1, ReviewInvariant, PTL

\* The steps of an up that has made something.
Making == {"materialize", "record", "stop", "capture", "start", "commit"}

\* The deferred cleanup returns to the predecessor.
LEMMA CleanUpRestores ==
  ASSUME ReviewInv, NEW p \in Procs, pc[p] = "locked", op[p] = "up", step[p] \in Making,
         CleanUp(p)
  PROVE  /\ Authority(tr', state') = Authority(tr, state)
         /\ tr' = None /\ ~staging' /\ ctr'[NextGeneration] = "absent"
         /\ active[p] /\ tr # None => ctr'[state.gen] = "running"
<1>1. Held(p) BY HolderFacts DEF Making
<1>2. tr' = None /\ staging' = FALSE /\ state' = state BY DEF CleanUp
<1>3. Authority(tr, state) = state
  BY <1>1 DEF Held, SameRecords, OwnRecord, Making, Facing, Pending, Authority
<1>4. NextGeneration \in Gens
  BY <1>1 DEF Held, SameRecords, Making, Created, Pending
<1>5. active[p] => state \in State
  BY <1>1 DEF Held, SamePredecessor, Making, Observed, Based, Created, Pending, ReviewInv,
              SharedType
<1>6. active[p] => state.gen \in Gens /\ NextGeneration # state.gen
  <2>1. active[p] => state.gen \in Gens /\ state # None BY <1>5, <1>1
    DEF State, Held, SamePredecessor, Making, Observed, Based, Created, Pending
  <2> QED BY <2>1 DEF NextGeneration, Gens
<1>7. ctr'[NextGeneration] = "absent" BY <1>4 DEF CleanUp
<1>8. active[p] /\ tr # None => ctr'[state.gen] = "running" BY <1>6 DEF CleanUp
<1> QED BY <1>2, <1>3, <1>7, <1>8 DEF Authority

\* A cleanup that fails keeps the record that says so.
LEMMA UncleanKeeps ==
  ASSUME NEW p \in Procs, CleanUpFails(p)
  PROVE  Authority(tr', state') = Authority(tr, state)
BY DEF CleanUpFails, Authority

Ended == {"refused", "failed", "unclean"}

\* What is left of an up that ends.
Untouched(p) ==
  /\ \/ Authority(tr', state') = Authority(tr, state)
     \/ /\ step[p] = "adopt"
        /\ Authority(tr', state') = [Authority(tr, state) EXCEPT !.status = "running"]
  /\ out'[p] # "unclean" =>
       /\ step[p] = "adopt" /\ ~active[p] => ctr'[state.gen] = "stopped"
       /\ step[p] \in Making =>
            /\ tr' = None /\ ~staging'
            /\ ctr'[NextGeneration] = "absent"
            /\ active[p] /\ tr # None => ctr'[state.gen] = "running"

\* An adoption that fails.
LEMMA AdoptFailsTrace ==
  ASSUME ReviewInv, NEW p \in Procs, AdoptFails(p)
  PROVE  Untouched(p)
<1>0. /\ pc[p] = "locked" /\ op[p] = "up" /\ step[p] = "adopt" /\ tr' = tr
      /\ state' = state \/ state' = [state EXCEPT !.status = "running"]
      /\ (Ends(p, "failed") /\ ctr' = Unadopted(p)) \/ Ends(p, "unclean")
  BY DEF AdoptFails, InLock, At
<1>1. state # None /\ state \in State /\ tr = None
  BY <1>0, HolderFacts DEF Held, SamePredecessor, SameRecords, Facing, ReviewInv, SharedType
<1>2. Authority(tr, state) = state /\ Authority(tr', state') = state'
  BY <1>0, <1>1 DEF Authority
<1>3. CASE Ends(p, "unclean")
  <2>1. out'[p] = "unclean" BY <1>3 DEF Ends, ReviewInv, LocalType
  <2> QED BY <1>0, <1>2, <2>1 DEF Untouched, Making
<1>4. CASE ctr' = Unadopted(p)
  <2>1. state.gen \in Gens BY <1>1 DEF State
  <2>2. ~active[p] => ctr'[state.gen] = "stopped"
    BY <1>4, <2>1 DEF Unadopted, ReviewInv, SharedType
  <2> QED BY <1>0, <1>2, <2>2 DEF Untouched, Making
<1> QED BY <1>0, <1>3, <1>4

\* A cleanup, whether its calls fail or not.
LEMMA CleanTrace ==
  ASSUME ReviewInv, NEW p \in Procs, pc[p] = "locked", op[p] = "up", step[p] \in Making,
         CleanUp(p) \/ (CleanUpFails(p) /\ Ends(p, "unclean"))
  PROVE  Untouched(p)
<1>0. step[p] # "adopt" BY DEF Making
<1>1. CASE CleanUp(p) BY <1>0, <1>1, CleanUpRestores DEF Untouched
<1>2. CASE CleanUpFails(p) /\ Ends(p, "unclean")
  <2>1. out'[p] = "unclean" BY <1>2 DEF Ends, ReviewInv, LocalType
  <2> QED BY <1>2, <2>1, UncleanKeeps DEF Untouched
<1> QED BY <1>1, <1>2

\* A step that refuses or fails changes no record, or is one of the cleanups.
LEMMA EndLeavesNoTrace ==
  ASSUME "destroy" \notin Ops, ReviewInv, ReviewNext, NEW p \in Procs, out[p] = "none",
         out'[p] \in Ended, op[p] = "up",
         tr # None => tr.phase = "rollback"
  PROVE  Untouched(p)
<1>0. /\ out[p] # out'[p]
      /\ out \in [Procs -> {"none", "refused", "failed", "unclean", "applied", "adopted"}]
  BY DEF ReviewInv, LocalType, Ended
<1>1. ASSUME UNCHANGED <<state, tr>>, step[p] \notin Making, step[p] # "adopt" PROVE Untouched(p)
  BY <1>1 DEF Untouched, Authority
<1>2. ASSUME NEW q \in Procs, UpStep(q) \/ Recover(q) \/ DownStops(q)
      PROVE  q = p
  BY <1>0, <1>2
  DEF UpStep, CompareRead, CompareObserve, Confirm, Recheck, Reverify, Observe, Adopt,
      AdoptFails, Before, Create, Materialize, RecordRollback, StopPredecessor,
      Capture, StartSuccessor, Commit,
      Publish, UpFails, Recover, DownStops, Ends, KeepOut
<1>3. CASE CompareObserve(p) \/ Recheck(p) \/ Reverify(p) \/ Observe(p) \/ Before(p) \/ Create(p)
  BY <1>1, <1>3
  DEF CompareObserve, Recheck, Reverify, Observe, Before, Create, InLock, At, durable, Making
<1>4. CASE \/ CompareRead(p) \/ Confirm(p) \/ Materialize(p) \/ RecordRollback(p)
           \/ StopPredecessor(p) \/ StartSuccessor(p) \/ Commit(p) \/ Adopt(p) \/ Publish(p)
  BY <1>0, <1>4
  DEF CompareRead, Confirm, Materialize, RecordRollback, StopPredecessor, StartSuccessor, Commit,
      Adopt, Publish, Ends, KeepOut, Ended
<1>5. CASE Capture(p)
  <2>1. (CleanUp(p) /\ Ends(p, "refused")) \/ (CleanUpFails(p) /\ Ends(p, "unclean"))
    BY <1>0, <1>5 DEF Capture, KeepOut
  <2>2. pc[p] = "locked" /\ step[p] \in Making /\ step[p] # "adopt"
    BY <1>5 DEF Capture, InLock, At, Making
  <2> QED BY <2>1, <2>2, CleanTrace
<1>6. CASE UpFails(p)
  <2>1. /\ pc[p] = "locked" /\ step[p] \in Making \cup {"publish"}
        /\ (CleanUp(p) /\ Ends(p, "failed")) \/ (CleanUpFails(p) /\ Ends(p, "unclean"))
    BY <1>6 DEF UpFails, Making
  <2>2. step[p] # "publish"
    BY <2>1, HolderFacts DEF Held, SameRecords
  <2> QED BY <2>1, <2>2, CleanTrace
<1>7. CASE Recover(p)
  BY <1>0, <1>1, <1>7 DEF Recover, KeepOut, At, Making
<1>8. ASSUME NEW q \in Procs, UpStep(q) PROVE Untouched(p)
  BY <1>2, <1>3, <1>4, <1>5, <1>6, <1>8, AdoptFailsTrace DEF UpStep
<1>9. ASSUME NEW q \in Procs, Recover(q) \/ DownStops(q) PROVE Untouched(p)
  BY <1>2, <1>7, <1>9 DEF DownStops, InLock
<1>10. ASSUME NEW q \in Procs, DestroyRuntime(q) \/ DestroyRename(q) PROVE FALSE
  <2>1. op[q] \in Ops BY DEF ReviewInv, LockInv, TypeOK
  <2> QED BY <1>10, <2>1 DEF DestroyRuntime, DestroyRename, InLock
<1>11. CASE UNCHANGED out BY <1>0, <1>11
<1>12. ASSUME NEW q \in Procs, Lock(q) \/ Dies(q) PROVE UNCHANGED out
  BY <1>12 DEF Lock, Dies, rvars, local
<1>13. ASSUME Edit \/ \E g \in Gens: Flip(g) PROVE UNCHANGED out
  BY <1>13 DEF Edit, Flip, local
<1> QED BY <1>8, <1>9, <1>10, <1>11, <1>12, <1>13 DEF ReviewNext

\* A refused or failed up leaves the authority it found, but for an adoption that
\* fails behind its write of state.json; and unless its cleanup fails, nothing of
\* its successor, running again the predecessor that it had stopped, and stopped
\* again the container that it had started to adopt.
THEOREM RefusalsLeaveNoTrace ==
  ASSUME "destroy" \notin Ops PROVE ReviewSpec => RefusalLeavesNoTrace
<1>1. ASSUME ReviewInv, [ReviewNext]_allvars
      PROVE  [\A p \in Procs:
                out[p] = "none" /\ out'[p] \in Ended /\ op[p] = "up"
                  /\ (tr # None => tr.phase = "rollback") => Untouched(p)]_allvars
  BY <1>1, EndLeavesNoTrace
<1>2. ReviewInv /\ [ReviewNext]_allvars =>
        [\A p \in Procs:
           out[p] = "none" /\ out'[p] \in {"refused", "failed", "unclean"} /\ op[p] = "up"
             /\ (tr # None => tr.phase = "rollback") =>
               /\ \/ Authority(tr', state') = Authority(tr, state)
                  \/ /\ step[p] = "adopt"
                     /\ Authority(tr', state') = [Authority(tr, state) EXCEPT !.status = "running"]
               /\ out'[p] # "unclean" =>
                    /\ step[p] = "adopt" /\ ~active[p] => ctr'[state.gen] = "stopped"
                    /\ step[p] \in {"materialize", "record", "stop", "capture", "start",
                                   "commit"} =>
                         /\ tr' = None /\ ~staging'
                         /\ ctr'[NextGeneration] = "absent"
                         /\ active[p] /\ tr # None => ctr'[state.gen] = "running"]_allvars
  BY <1>1 DEF Untouched, Making, Ended
<1> QED BY <1>2, ReviewInvariant, PTL DEF ReviewSpec, RefusalLeavesNoTrace

=============================================================================
