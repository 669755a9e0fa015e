------------------------------ MODULE Lockfile ------------------------------
(***************************************************************************)
(* mutation.lock of one world (internal/lockfile) as the commands of       *)
(* internal/app use it: up creates the world's root and the lock file,     *)
(* down and destroy open what is there, inspect-workspace takes it shared, *)
(* and destroy renames the root, lock file included, to a tombstone while  *)
(* it holds the lock.  Opening the path and locking the inode behind it    *)
(* are two system calls.  Each process is one command.                     *)
(***************************************************************************)
EXTENDS Integers

CONSTANTS
  Procs,      \* command processes
  Ops,        \* commands they may run, a subset of Commands
  MaxInode    \* bound on lock files ever created

Commands == {"up", "down", "destroy", "inspect"}

ASSUME LockfileConstants ==
  /\ Ops \subseteq Commands
  /\ MaxInode \in Nat \ {0}

VARIABLES
  op,         \* the command each process runs
  pc,         \* "start", "ensured", "opened", "locked", "moved", "done"
  fd,         \* inode behind its open descriptor, 0 if none
  flock,      \* "none", "exclusive" or "shared" on that descriptor
  path,       \* inode that <root>/mutation.lock names now, 0 if absent
  root,       \* the world's root directory exists
  inodes      \* lock files created so far

vars == <<op, pc, fd, flock, path, root, inodes>>

Inodes == 0..MaxInode

TypeOK ==
  /\ op \in [Procs -> Ops]
  /\ pc \in [Procs -> {"start", "ensured", "opened", "locked", "moved", "done"}]
  /\ fd \in [Procs -> Inodes]
  /\ flock \in [Procs -> {"none", "exclusive", "shared"}]
  /\ path \in Inodes
  /\ root \in BOOLEAN
  /\ inodes \in Inodes

Init ==
  /\ op \in [Procs -> Ops]
  /\ pc = [p \in Procs |-> "start"]
  /\ fd = [p \in Procs |-> 0]
  /\ flock = [p \in Procs |-> "none"]
  /\ \/ root = FALSE /\ path = 0 /\ inodes = 0      \* no such world yet
     \/ root = TRUE /\ path = 1 /\ inodes = 1       \* an established world

Close(p) ==
  /\ fd' = [fd EXCEPT ![p] = 0]
  /\ flock' = [flock EXCEPT ![p] = "none"]
  /\ pc' = [pc EXCEPT ![p] = "done"]

\* up: Layout.Ensure makes the root before the lock is opened.  The other
\* commands go straight to the open.
Ensure(p) ==
  /\ pc[p] = "start"
  /\ pc' = [pc EXCEPT ![p] = "ensured"]
  /\ root' = (root \/ op[p] = "up")
  /\ UNCHANGED <<op, fd, flock, path, inodes>>

\* Acquire opens with O_CREATE: a missing lock file is made, a missing root is
\* an error.  AcquireShared opens only what exists.
Open(p) ==
  /\ pc[p] = "ensured"
  /\ \/ /\ path # 0
        /\ fd' = [fd EXCEPT ![p] = path]
        /\ pc' = [pc EXCEPT ![p] = "opened"]
        /\ UNCHANGED <<path, inodes>>
     \/ /\ path = 0 /\ root /\ op[p] # "inspect"
        /\ inodes < MaxInode
        /\ inodes' = inodes + 1
        /\ path' = inodes + 1
        /\ fd' = [fd EXCEPT ![p] = inodes + 1]
        /\ pc' = [pc EXCEPT ![p] = "opened"]
     \/ /\ path = 0 /\ (~root \/ op[p] = "inspect")
        /\ pc' = [pc EXCEPT ![p] = "done"]
        /\ UNCHANGED <<fd, path, inodes>>
  /\ UNCHANGED <<op, flock, root>>

Wanted(p) == IF op[p] = "inspect" THEN "shared" ELSE "exclusive"

\* Mutant: a shared lock stops nobody.
CompatibleShared(p) ==
  \A q \in Procs \ {p}:
    fd[q] = fd[p] /\ flock[q] # "none" => flock[q] = "shared"

\* flock(2) grants a lock on an inode if it is compatible with those held.
Compatible(p) ==
  \A q \in Procs \ {p}:
    fd[q] = fd[p] /\ flock[q] # "none" =>
      flock[q] = "shared" /\ Wanted(p) = "shared"

\* LOCK_NB: a busy lock is an error, and the descriptor is closed.
Flock(p) ==
  /\ pc[p] = "opened"
  /\ IF Compatible(p)
       THEN /\ flock' = [flock EXCEPT ![p] = Wanted(p)]
            /\ pc' = [pc EXCEPT ![p] = "locked"]
            /\ UNCHANGED fd
       ELSE Close(p)
  /\ UNCHANGED <<op, path, root, inodes>>

\* destroy renames the root to .destroyed/ while it holds the lock.
Rename(p) ==
  /\ pc[p] = "locked" /\ op[p] = "destroy" /\ root
  /\ pc' = [pc EXCEPT ![p] = "moved"]
  /\ root' = FALSE /\ path' = 0
  /\ UNCHANGED <<op, fd, flock, inodes>>

\* Release, ReleaseMoved, or the kernel closing a dead process's descriptors.
Release(p) ==
  /\ pc[p] \in {"ensured", "opened", "locked", "moved"}
  /\ Close(p)
  /\ UNCHANGED <<op, path, root, inodes>>

Next == \E p \in Procs: Ensure(p) \/ Open(p) \/ Flock(p) \/ Rename(p) \/ Release(p)

Spec == Init /\ [][Next]_vars

\* A process between its successful Acquire and its Release or rename may
\* change the world; one that has renamed the root no longer does.
Mutating(p) == pc[p] = "locked" /\ flock[p] = "exclusive"
Observing(p) == pc[p] = "locked" /\ flock[p] = "shared"

\* "Package lockfile serializes mutations of one world": a mutation runs alone,
\* neither another mutation nor a locked observation beside it.
SoleMutator ==
  \A p, q \in Procs:
    p # q /\ Mutating(p) => ~Mutating(q) /\ ~Observing(q)
=============================================================================
