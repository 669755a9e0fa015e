------------------------------ MODULE History ------------------------------
(***************************************************************************)
(* history.jsonl of one world (internal/history) and the commands of       *)
(* internal/app that write it.  A record is one write(2) followed by       *)
(* fsync: a crash or a full disk may leave a fragment without a final      *)
(* newline.  Every writer verifies the whole file first and refuses one    *)
(* with a fragment; repair-history removes it, but only in a world that    *)
(* has no unresolved transition.                                           *)
(*                                                                         *)
(* Of the lifecycle only the transition record is kept, because it decides *)
(* which commands reach the file at all.  mutation.lock is held from Begin *)
(* to Return.                                                              *)
(***************************************************************************)
EXTENDS Integers, Sequences

CONSTANTS
  Decls,       \* declarations an operator may apply
  MaxLen,      \* bound on records
  MaxFaults,   \* bound on torn writes, failing writes and crashes
  TearAt,      \* labels whose write may be torn
  None         \* no transition record

Writing == {"publish", "append", "rerecord"}

ASSUME HistoryConstants ==
  /\ Decls # {} /\ MaxLen \in Nat /\ MaxFaults \in Nat
  /\ TearAt \subseteq Writing
  /\ None \notin [phase: {"rollback", "commit"}, decl: Decls]

VARIABLES
  chain,      \* the complete records: a hash chain, so a sequence
  tail,       \* what follows the last newline: "none" or a "fragment"
  tr,         \* transition.json: None or its phase and the successor
  pc,         \* label of the running command
  op,         \* the command
  entry,      \* the record it is about to append
  recovering, \* it is completing an earlier transition
  faults      \* budget left

vars == <<chain, tail, tr, pc, op, entry, recovering, faults>>

Ops == {"none", "up", "down", "destroy", "allow", "revoke", "repair"}

Record == [what: {"none", "applied", "adopted", "failed", "stopped",
                  "granted", "removed", "destroyed", "truncated-tail-removed"},
           decl: Decls]

TypeOK ==
  /\ chain \in Seq(Record) /\ Len(chain) <= MaxLen
  /\ tail \in {"none", "fragment"}
  /\ tr \in {None} \cup [phase: {"rollback", "commit"}, decl: Decls]
  /\ pc \in {"idle", "review", "recover", "settled", "stage", "cutover", "clear",
             "door", "repair", "rename"} \cup Writing
  /\ op \in Ops
  /\ entry \in Record
  /\ recovering \in BOOLEAN
  /\ faults \in 0..MaxFaults

Blank == [what |-> "none", decl |-> CHOOSE d \in Decls: TRUE]

Init ==
  /\ chain = <<>> /\ tail = "none" /\ tr = None
  /\ pc = "idle" /\ op = "none"
  /\ entry = Blank
  /\ recovering = FALSE
  /\ faults = MaxFaults

-----------------------------------------------------------------------------
Return ==
  /\ pc' = "idle" /\ op' = "none" /\ recovering' = FALSE
  /\ entry' = Blank

\* The record of the command, with its outcome.
Named(w) == [what |-> w, decl |-> entry.decl]

\* Go to l with r as the record to write.
Prepare(l, r) == pc' = l /\ entry' = r /\ UNCHANGED <<op, recovering>>

\* Only repair-history adds a record to a torn file; the others may add two to
\* one that verifies, so they stop short of the bound.
Begin(o, d) ==
  /\ pc = "idle"
  /\ o = "repair" \/ tail # "none" \/ Len(chain) + 2 <= MaxLen
  /\ op' = o /\ recovering' = FALSE
  /\ pc' = CASE o = "up" -> "review"
             [] o = "down" -> "recover"
             [] o \in {"allow", "revoke", "repair"} -> "settled"
             [] OTHER -> "door"
  /\ entry' = [what |-> IF o = "destroy" THEN "destroyed" ELSE "none", decl |-> d]
  /\ UNCHANGED <<chain, tail, tr, faults>>

\* Verify: no fragment at the end.
Verify == tail = "none"

\* CompareUp, repeated under the lock before up recovers anything, refuses a
\* history that does not verify, and whatever else changed since the review.
Review ==
  /\ pc = "review"
  /\ \/ Verify /\ Prepare("recover", entry)
     \/ Return
  /\ UNCHANGED <<chain, tail, tr, faults>>

\* requireSettledTransition; allow and revoke then speak to the door.
Outcome(o) == IF o = "allow" THEN "granted" ELSE "removed"

Settled ==
  /\ pc = "settled"
  /\ IF tr # None THEN Return
     ELSE IF op = "repair"
       THEN Prepare("repair", entry)
       ELSE Prepare("door", Named(Outcome(op)))
  /\ UNCHANGED <<chain, tail, tr, faults>>

Recovered ==
  IF op = "up" THEN Prepare("stage", entry)
  ELSE Prepare("door", Named("stopped"))

\* Mutant: a rollback, too, insists on a history it can append to.
RecoverVerifies ==
  /\ pc = "recover"
  /\ \/ tr = None /\ Recovered /\ UNCHANGED tr
     \/ tr # None /\ tail # "none" /\ Return /\ UNCHANGED tr
     \/ tr # None /\ tail = "none" /\ tr.phase = "rollback" /\ Recovered /\ tr' = None
     \/ /\ tr # None /\ tail = "none" /\ tr.phase = "commit"
        /\ pc' = "publish" /\ recovering' = TRUE
        /\ entry' = [what |-> "applied", decl |-> tr.decl]
        /\ UNCHANGED <<op, tr>>
  /\ UNCHANGED <<chain, tail, faults>>

\* recoverTransition: a rollback writes no history, a commit must.
Recover ==
  /\ pc = "recover"
  /\ \/ tr = None /\ Recovered /\ UNCHANGED tr
     \/ tr # None /\ tr.phase = "rollback" /\ Recovered /\ tr' = None
     \/ /\ tr # None /\ tr.phase = "commit"
        /\ pc' = "publish" /\ recovering' = TRUE
        /\ entry' = [what |-> "applied", decl |-> tr.decl]
        /\ UNCHANGED <<op, tr>>
  /\ UNCHANGED <<chain, tail, faults>>

\* up adopts, fails with or without a record, or stages a successor.
Stage ==
  /\ pc = "stage"
  /\ \/ Prepare("door", Named("adopted")) /\ UNCHANGED tr
     \/ Return /\ UNCHANGED tr
     \/ Prepare("append", Named("failed")) /\ UNCHANGED tr
     \/ /\ Prepare("cutover", entry)
        /\ tr' = [phase |-> "rollback", decl |-> entry.decl]
  /\ UNCHANGED <<chain, tail, faults>>

\* Mutant: the record takes the outcome's name for its phase.
CutoverApplied ==
  /\ pc = "cutover"
  /\ \/ /\ Prepare("publish", Named("applied"))
        /\ tr' = [phase |-> "applied", decl |-> tr.decl]
     \/ Prepare("append", Named("failed")) /\ UNCHANGED tr
  /\ UNCHANGED <<chain, tail, faults>>

\* The successor verifies and the record advances, or the cutover fails, in
\* most places with a record of it.
Cutover ==
  /\ pc = "cutover"
  /\ \/ /\ Prepare("publish", Named("applied"))
        /\ tr' = [phase |-> "commit", decl |-> tr.decl]
     \/ Prepare("append", Named("failed")) /\ UNCHANGED tr
     \/ Return /\ tr' \in {None, tr}
  /\ UNCHANGED <<chain, tail, faults>>

\* Speaking to the network door, starting it or stopping it comes before the
\* record of it and may fail.
Door ==
  /\ pc = "door"
  /\ Prepare("append", entry) \/ Return
  /\ UNCHANGED <<chain, tail, tr, faults>>

-----------------------------------------------------------------------------
(* Writing *)

\* What a command does once its record is written, and once that has failed:
\* a failed up cleans up and clears its transition unless the cleanup itself
\* fails, recovery leaves it.
Written ==
  IF pc = "publish" \/ op = "destroy"
    THEN /\ pc' = IF pc = "publish" THEN "clear" ELSE "rename"
         /\ UNCHANGED <<op, entry, recovering, tr>>
    ELSE Return /\ tr' \in IF op = "up" THEN {None, tr} ELSE {tr}

Unwritten ==
  /\ Return
  /\ tr' \in IF op = "up" /\ ~recovering THEN {None, tr} ELSE {tr}

\* Mutant: the comparison looks at the action and its outcome only.
RepeatedOutcome ==
  pc = "publish" /\ chain # <<>> /\ chain[Len(chain)].what = entry.what

\* AppendOnce suppresses a record equal to the last.
Repeated == pc = "publish" /\ chain # <<>> /\ chain[Len(chain)] = entry

WriteRecord ==
  /\ pc \in Writing /\ Verify
  /\ IF Repeated THEN UNCHANGED chain
     ELSE Len(chain) < MaxLen /\ chain' = Append(chain, entry)
  /\ Written
  /\ UNCHANGED <<tail, faults>>

RefuseRecord ==
  /\ pc \in Writing /\ ~Verify
  /\ Unwritten
  /\ UNCHANGED <<chain, tail, faults>>

\* The write is cut short, and the command either sees the error or is gone.
TearRecord ==
  /\ pc \in TearAt /\ Verify /\ ~Repeated /\ faults > 0
  /\ faults' = faults - 1
  /\ tail' = "fragment"
  /\ Unwritten
  /\ UNCHANGED chain

\* ClearTransition at the end of publishing.
Clear ==
  /\ pc = "clear"
  /\ tr' = None
  /\ IF recovering
       THEN /\ pc' = IF op = "up" THEN "stage" ELSE "door"
            /\ recovering' = FALSE
            /\ entry' = Named(IF op = "up" THEN "none" ELSE "stopped")
            /\ UNCHANGED op
       ELSE Return
  /\ UNCHANGED <<chain, tail, faults>>

\* The root goes to a tombstone with its history; a later up starts anew.
Rename ==
  /\ pc = "rename"
  /\ chain' = <<>> /\ tr' = None
  /\ Return
  /\ UNCHANGED <<tail, faults>>

\* Mutant: the cut falls before the last complete record.
RepairCutsRecord ==
  /\ pc = "repair"
  /\ IF tail = "none"
       THEN Return /\ UNCHANGED <<chain, tail>>
       ELSE /\ tail' = "none"
            /\ chain' = IF chain = <<>> THEN chain ELSE SubSeq(chain, 1, Len(chain) - 1)
            /\ Prepare("rerecord", Named("truncated-tail-removed"))
  /\ UNCHANGED <<tr, faults>>

\* RepairTruncatedTail: everything after the last newline goes, in one rename.
Repair ==
  /\ pc = "repair"
  /\ IF tail = "none"
       THEN Return /\ UNCHANGED tail
       ELSE /\ tail' = "none"
            /\ Prepare("rerecord", Named("truncated-tail-removed"))
  /\ UNCHANGED <<chain, tr, faults>>

Crash ==
  /\ pc # "idle" /\ faults > 0
  /\ faults' = faults - 1
  /\ Return
  /\ UNCHANGED <<chain, tail, tr>>

-----------------------------------------------------------------------------
Command(o) == \E d \in Decls: Begin(o, d)

Step ==
  \/ Review \/ Settled \/ Recover \/ Stage \/ Cutover \/ Door \/ WriteRecord \/ RefuseRecord
  \/ Clear \/ Rename \/ Repair

Next ==
  \/ \E o \in Ops \ {"none"}: Command(o)
  \/ Step \/ TearRecord \/ Crash

Spec == Init /\ [][Next]_vars

\* A command that runs goes on; an operator who meets a fragment keeps trying
\* to repair it, between other commands that may come first.
FairSpec ==
  Spec /\ WF_vars(Step) /\ \A o \in Ops \ {"none", "destroy"}: SF_vars(Command(o))

-----------------------------------------------------------------------------
(* Properties *)

\* "Append-only", "verification fails closed": no step but the move to the
\* tombstone loses a complete record, and nothing is ever written behind a
\* fragment, whatever was torn, repaired or repeated before.
AppendOnly ==
  [][\/ chain' = chain
     \/ tail = "none" /\ \E r \in Record: chain' = Append(chain, r)
     \/ pc = "rename" /\ chain' = <<>>]_vars

\* Every complete publication has its record: when the commit record goes, the
\* successor's declaration is the last that history calls applied.
CommitsRecorded ==
  pc = "clear" => /\ tr # None
                  /\ chain # <<>>
                  /\ chain[Len(chain)] = [what |-> "applied", decl |-> tr.decl]

\* A torn history does not stay torn: some command gets it repaired.
Heals == tail # "none" ~> tail = "none"

\* That much is true of a world that is not committed to a successor, although
\* up refuses the file before it recovers and repair-history refuses the
\* pending transition: down resolves it, without history, and repair follows.
HealsUncommitted ==
  tail # "none" /\ (tr = None \/ tr.phase = "rollback") ~> tail = "none"
=============================================================================
