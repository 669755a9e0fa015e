--------------------------- MODULE ControlProofs ---------------------------
(***************************************************************************)
(* For any declarations and any bounds, history.jsonl is only appended to, *)
(* a commit record goes only after its record is written, and history      *)
(* accounts for whatever the network door admits, unless a command that    *)
(* had reached the door has failed.  The last needs to know, at every      *)
(* point of a command, what the door's policy owes to the record that the  *)
(* command is about to write.                                              *)
(***************************************************************************)
EXTENDS Control, TLAPS

\* What the label of a command says of its transition and its record.
Commanded ==
  /\ pc \in {"stage", "door"} => tr = None \/ op = "destroy"
  /\ pc = "cutover" => tr = [phase |-> "rollback", decl |-> entry.decl]
  /\ pc = "publish" => /\ tr # None /\ tr.phase = "commit"
                       /\ entry = [what |-> "applied", decl |-> tr.decl]
  /\ pc = "rerecord" => entry.what = "truncated-tail-removed"
  /\ pc \in {"idle", "review", "recover", "stage", "cutover"} => entry.what = "none"
  /\ pc \in {"door", "append", "rename"} =>
       \/ op = "allow" /\ entry.what = "granted"
       \/ op = "revoke" /\ entry.what = "removed"
       \/ op = "down" /\ entry.what = "stopped"
       \/ op = "destroy" /\ entry.what = "destroyed"
       \/ op = "up" /\ entry.what = "adopted"
       \/ op = "up" /\ entry.what = "failed" /\ pc = "append"
  /\ pc \in {"stage", "cutover", "review"} => op = "up"
  /\ pc = "recover" => op \in {"up", "down"}
  /\ pc = "settled" => op \in {"allow", "revoke", "repair"}
  /\ pc \in {"publish", "clear"} => op \in {"up", "down"}
  /\ pc \in {"repair", "rerecord"} => op = "repair"
  /\ pc = "rename" => op = "destroy"
  /\ pc = "clear" /\ ~recovering => op = "up"
  /\ pc = "publish" /\ ~recovering => op = "up"

\* A commit record that is not withdrawn has a door of its declaration, or none.
Committed ==
  tr # None /\ tr.phase = "commit" /\ word # "doubt" => policy \subseteq Declared(tr.decl)

\* A request is under way only while its command waits for it; one whose client
\* has gone leaves the door in doubt.
Exchanged ==
  /\ asked \in {"sent", "served"} => pc = "door" /\ Speaks /\ word # "kept"
  /\ asked = "started" => pc = "append" /\ op = "up"
  /\ late # {} => word = "doubt"

\* A command that owes an answer is between the door and its record.
Owed ==
  word = "pending" =>
    /\ pc \in {"door", "stage", "cutover", "append", "publish"}
    /\ pc = "door" /\ asked = "no" => op \in {"up", "down"}

\* What the door has been made to admit is what the record will say.
Recorded ==
  /\ asked = "served" /\ word = "pending" /\ policy # {} => Opens(entry)
  /\ pc \in Writing /\ policy # {} =>
       /\ word = "pending" => Opens(entry) \/ entry.what = "failed"
       /\ word = "kept" => ~Closes(entry)
  /\ pc \in {"append", "rename"} /\ op \in {"down", "destroy"} =>
       policy = {} /\ ~door /\ late = {}

ControlInv ==
  /\ ControlTypeOK /\ Commanded /\ CommitsRecorded
  /\ Committed /\ Exchanged /\ Owed /\ Recorded /\ HistoryExplainsDoor

-----------------------------------------------------------------------------
(* History alone: the records and what they say *)

\* A record that opens the destination, or that says nothing against it, leaves it
\* open.
LEMMA ToldAppend ==
  ASSUME NEW c \in Seq(Record), NEW r \in Record,
         Opens(r) \/ (Told(c) /\ ~Closes(r))
  PROVE  Told(Append(c, r))
<1> DEFINE d == Append(c, r)
<1>1. /\ Len(d) = Len(c) + 1 /\ Len(c) \in Nat
      /\ d[Len(d)] = r /\ \A i \in 1..Len(c): d[i] = c[i]
  OBVIOUS
<1>2. CASE Opens(r)
  <2>1. Len(d) \in 1..Len(d) /\ (Len(d) + 1)..Len(d) = {}
    BY <1>1
  <2> QED BY <1>1, <1>2, <2>1 DEF Told
<1>3. CASE Told(c) /\ ~Closes(r)
  <2>1. PICK i \in 1..Len(c): Opens(c[i]) /\ \A j \in (i + 1)..Len(c): ~Closes(c[j])
    BY <1>3 DEF Told
  <2>2. i \in 1..Len(d) /\ Opens(d[i])
    BY <1>1, <2>1
  <2>3. ASSUME NEW j \in (i + 1)..Len(d)
        PROVE  ~Closes(d[j])
    <3>1. CASE j = Len(d)
      BY <1>1, <1>3, <3>1
    <3>2. CASE j # Len(d)
      <4>1. j \in (i + 1)..Len(c) /\ j \in 1..Len(c)
        BY <1>1, <3>2, <2>1
      <4> QED BY <1>1, <2>1, <4>1
    <3> QED BY <3>1, <3>2
  <2> QED BY <2>2, <2>3 DEF Told
<1> QED BY <1>2, <1>3

\* A last record that opens the destination.
LEMMA ToldLast ==
  ASSUME NEW c \in Seq(Record), c # <<>>, Opens(c[Len(c)])
  PROVE  Told(c)
<1>1. Len(c) \in 1..Len(c) /\ (Len(c) + 1)..Len(c) = {}
  OBVIOUS
<1> QED BY <1>1 DEF Told

\* The record that stands for none.
LEMMA BlankType == Blank \in Record /\ Blank.what = "none"
BY HistoryConstants DEF Blank, Record

\* A record of a command is a record.
LEMMA NamedType ==
  ASSUME entry \in Record,
         NEW w \in {"none", "applied", "adopted", "failed", "stopped", "granted",
                    "removed", "destroyed", "truncated-tail-removed"}
  PROVE  /\ Named(w) \in Record
         /\ Named(w).what = w /\ Named(w).decl = entry.decl
BY DEF Record, Named

-----------------------------------------------------------------------------
(* Well-formed state *)

\* The invariant holds of a new world and its door.
LEMMA ControlInitially == ControlInit => ControlInv
<1> SUFFICES ASSUME ControlInit PROVE ControlInv
  OBVIOUS
<1>1. ControlTypeOK
  <2>1. chain \in Seq(Record) /\ Len(chain) <= MaxLen
    BY HistoryConstants DEF ControlInit, Init
  <2>2. faults \in 0..MaxFaults
    BY HistoryConstants DEF ControlInit, Init
  <2> QED BY <2>1, <2>2, BlankType DEF ControlInit, Init, ControlTypeOK, TypeOK, Ops
<1>2. Commanded /\ CommitsRecorded /\ Committed /\ Exchanged /\ Owed /\ Recorded
        /\ HistoryExplainsDoor
  BY BlankType DEF ControlInit, Init, Commanded, CommitsRecorded, Committed, Exchanged,
     Owed, Recorded, HistoryExplainsDoor, Writing
<1> QED BY <1>1, <1>2 DEF ControlInv

\* Where every command goes when it ends.
LEMMA ReturnType ==
  ASSUME Return
  PROVE  /\ pc' = "idle" /\ op' = "none" /\ recovering' = FALSE
         /\ entry' \in Record /\ entry'.what = "none"
BY BlankType DEF Return

\* Commands on history keep its types.
LEMMA HistoryTypeStep ==
  ASSUME TypeOK, Commanded,
         Next
  PROVE  TypeOK'
<1> USE DEF TypeOK, Writing, Ops
<1>1. ASSUME NEW o \in Ops \ {"none"}, NEW d \in Decls, Begin(o, d)
      PROVE  TypeOK'
  BY <1>1 DEF Begin, Record
<1>2. CASE Review \/ Door
  BY <1>2, ReturnType DEF Review, Door, Prepare
<1>3. CASE Settled
  <2>1. Outcome(op) \in {"granted", "removed"}
    BY DEF Outcome
  <2>2. entry' \in Record
    BY <1>3, <2>1, ReturnType, NamedType DEF Settled, Prepare
  <2> QED BY <1>3, <2>2, ReturnType DEF Settled, Prepare
<1>4. CASE Recover
  <2>1. tr # None => tr.decl \in Decls
    BY DEF TypeOK
  <2>2. entry' \in Record
    BY <1>4, <2>1, NamedType DEF Recover, Recovered, Prepare, Record
  <2> QED BY <1>4, <2>2 DEF Recover, Recovered, Prepare
<1>5. CASE Stage
  <2>1. entry' \in Record /\ entry.decl \in Decls
    <3>1. entry.decl \in Decls
      BY DEF Record
    <3> QED BY <1>5, <3>1, ReturnType, NamedType DEF Stage, Prepare
  <2>2. tr' \in {None} \cup [phase: {"rollback", "commit"}, decl: Decls]
    BY <1>5, <2>1 DEF Stage
  <2> QED BY <1>5, <2>1, <2>2, ReturnType DEF Stage, Prepare
<1>6. CASE Cutover
  <2>0. tr' \in {None} \cup [phase: {"rollback", "commit"}, decl: Decls]
    <3>1. entry.decl \in Decls
      BY DEF Record
    <3>2. tr.decl = entry.decl
      BY <1>6 DEF Cutover, Commanded
    <3> QED BY <1>6, <3>1, <3>2 DEF Cutover
  <2>1. entry' \in Record
    BY <1>6, ReturnType, NamedType DEF Cutover, Prepare
  <2> QED BY <1>6, <2>0, <2>1, ReturnType DEF Cutover, Prepare
<1>7. CASE WriteRecord
  <2>1. chain' \in Seq(Record) /\ Len(chain') <= MaxLen
    BY <1>7, HistoryConstants DEF WriteRecord
  <2>2. /\ entry' \in Record /\ recovering' \in BOOLEAN /\ op' \in Ops
        /\ pc' \in {"clear", "rename", "idle"}
        /\ tr' \in {tr, None}
    BY <1>7, ReturnType DEF WriteRecord, Written
  <2> QED BY <1>7, <2>1, <2>2 DEF WriteRecord
<1>8. CASE RefuseRecord \/ TearRecord
  <2>1. Return /\ tr' \in {tr, None}
    BY <1>8 DEF RefuseRecord, TearRecord, Unwritten
  <2> QED BY <1>8, <2>1, ReturnType, HistoryConstants DEF RefuseRecord, TearRecord
<1>9. CASE Clear
  BY <1>9, ReturnType, NamedType DEF Clear
<1>10. CASE Rename
  BY <1>10, ReturnType, HistoryConstants DEF Rename
<1>11. CASE Repair
  BY <1>11, ReturnType, NamedType DEF Repair, Prepare
<1>12. CASE Crash
  BY <1>12, ReturnType, HistoryConstants DEF Crash
<1> QED BY <1>1, <1>2, <1>3, <1>4, <1>5, <1>6, <1>7, <1>8, <1>9, <1>10, <1>11, <1>12
        DEF Next, Command, Step

-----------------------------------------------------------------------------
(* The commands and their records *)

\* A step of the history keeps what its commands rest on.
LEMMA CommandedStep ==
  ASSUME TypeOK, Commanded, Next
  PROVE  Commanded'
<1> USE DEF Commanded, Writing
<1>0. entry.decl \in Decls /\ (tr # None => tr.decl \in Decls)
  BY DEF TypeOK, Record
<1>1. ASSUME NEW o \in Ops \ {"none"}, NEW d \in Decls, Begin(o, d)
      PROVE  Commanded'
  BY <1>1 DEF Begin, Ops
<1>2. CASE Return
  BY <1>2, ReturnType
<1>3. CASE Review \/ Door
  BY <1>2, <1>3 DEF Review, Door, Prepare
<1>4. CASE Settled
  BY <1>2, <1>4 DEF Settled, Prepare, Named, Outcome
<1>5. CASE Recover
  BY <1>5 DEF Recover, Recovered, Prepare, Named
<1>6. CASE Stage
  BY <1>2, <1>6 DEF Stage, Prepare, Named
<1>7. CASE Cutover
  BY <1>0, <1>2, <1>7, HistoryConstants DEF Cutover, Prepare, Named
<1>8. CASE WriteRecord
  BY <1>2, <1>8 DEF WriteRecord, Written
<1>9. CASE RefuseRecord \/ TearRecord \/ Rename \/ Crash
  BY <1>2, <1>9 DEF RefuseRecord, TearRecord, Unwritten, Rename, Crash
<1>10. CASE Clear
  BY <1>2, <1>10 DEF Clear, Named
<1>11. CASE Repair
  BY <1>2, <1>11 DEF Repair, Prepare, Named
<1> QED BY <1>1, <1>3, <1>4, <1>5, <1>6, <1>7, <1>8, <1>9, <1>10, <1>11
        DEF Next, Command, Step

\* A commit record is there until its record is written, and only WriteRecord
\* gets a command to where it is removed.
LEMMA CommitsRecordedStep ==
  ASSUME TypeOK, Commanded, CommitsRecorded, Next
  PROVE  CommitsRecorded'
<1>1. CASE WriteRecord
  <2>1. CASE pc = "publish"
    <3>1. chain' # <<>> /\ chain'[Len(chain')] = entry
      BY <1>1, <2>1 DEF WriteRecord, Repeated, TypeOK
    <3>2. tr' = tr
      BY <1>1, <2>1 DEF WriteRecord, Written
    <3>3. entry = [what |-> "applied", decl |-> tr.decl] /\ tr # None
      BY <2>1 DEF Commanded
    <3> QED BY <3>1, <3>2, <3>3 DEF CommitsRecorded
  <2>2. CASE pc # "publish"
    <3>1. pc' # "clear"
      BY <1>1, <2>2 DEF WriteRecord, Written, Return
    <3> QED BY <3>1 DEF CommitsRecorded
  <2> QED BY <2>1, <2>2
<1>2. CASE ~WriteRecord
  <2>1. pc' # "clear"
    BY <1>2 DEF Next, Command, Step, Begin, Review, Settled, Recover, Recovered, Stage,
       Cutover, Door, RefuseRecord, TearRecord, Unwritten, Clear, Rename, Repair, Crash,
       Prepare, Return, Ops
  <2> QED BY <2>1 DEF CommitsRecorded
<1> QED BY <1>1, <1>2

\* What a step may do to the records.
LEMMA AppendOnlyStep ==
  ASSUME TypeOK, Next
  PROVE  \/ chain' = chain
         \/ tail = "none" /\ \E r \in Record: chain' = Append(chain, r)
         \/ pc = "rename" /\ chain' = <<>>
<1>1. CASE WriteRecord
  BY <1>1 DEF WriteRecord, Verify, TypeOK
<1>2. CASE ~WriteRecord
  BY <1>2 DEF Next, Command, Step, Begin, Review, Settled, Recover, Stage, Cutover, Door,
     RefuseRecord, TearRecord, Clear, Rename, Repair, Crash
<1> QED BY <1>1, <1>2

\* The composition only adds the door: to history, each of its steps is one of
\* History's or none.
LEMMA ControlRefinesHistory ==
  ASSUME ControlNext
  PROVE  Next \/ UNCHANGED vars
BY DEF ControlNext, ControlCommand, ControlStep, Send, NoDoor, Answered, TimeOut,
   StartDoor, StopDoor, RecoverDoor, StageDoor, CutoverDoor, RecordDoor, FailDoor,
   Destroyed, CommandDies, ServeControl, Expire, Dies, ServeLate, Next, Step, doors

-----------------------------------------------------------------------------
(* The door *)

\* What a declaration puts into the policy, and which declarations put nothing.
LEMMA DeclaredType ==
  ASSUME NEW d
  PROVE  /\ Declared(d) \subseteq {"durable", "grant"}
         /\ Declared(d) # {} => d \in Declaring
         /\ d \in Doorless => Declared(d) = {}
BY ControlConstants DEF Declared

DoorType ==
  /\ door \in BOOLEAN /\ policy \subseteq {"durable", "grant"}
  /\ late \subseteq Requests
  /\ asked \in {"no", "sent", "served", "started"}
  /\ applied \in Decls \cup {None}
  /\ word \in {"kept", "pending", "doubt"}

DoorInv == DoorType /\ Committed /\ Exchanged /\ Owed /\ Recorded /\ HistoryExplainsDoor

\* The steps of the door's process.
LEMMA DoorProcess ==
  ASSUME ControlInv,
         ServeControl \/ Expire \/ Dies \/ (\E q \in Requests: ServeLate(q))
  PROVE  DoorInv'
<1> USE DEF ControlInv, ControlTypeOK, DoorInv, DoorType, Requests
<1>1. /\ UNCHANGED vars /\ UNCHANGED <<applied, word>>
      /\ UNCHANGED Told(chain) /\ UNCHANGED Opens(entry) /\ UNCHANGED Closes(entry)
  BY DEF ServeControl, Expire, Dies, ServeLate, vars, Told, Opens, Closes
<1>2. CASE Expire
  <2>1. policy' \subseteq policy /\ late' = late /\ asked' = asked /\ door' = door
    BY <1>2 DEF Expire
  <2>2. DoorType' /\ Exchanged' /\ Owed' BY <1>1, <2>1 DEF vars, Exchanged, Owed, Speaks
  <2>3. Committed' /\ HistoryExplainsDoor'
    BY <1>1, <2>1 DEF vars, Committed, HistoryExplainsDoor
  <2>4. Recorded' BY <1>1, <2>1 DEF vars, Recorded
  <2> QED BY <2>2, <2>3, <2>4
<1>2a. CASE Dies
  <2>1. policy' = {} /\ late' = {} /\ asked' = asked /\ door' = FALSE
    BY <1>2a DEF Dies, Gone
  <2>2. DoorType' /\ Exchanged' /\ Owed' BY <1>1, <2>1 DEF vars, Exchanged, Owed, Speaks
  <2>3. Committed' /\ HistoryExplainsDoor'
    BY <1>1, <2>1 DEF vars, Committed, HistoryExplainsDoor
  <2>4. Recorded' BY <1>1, <2>1 DEF vars, Recorded
  <2> QED BY <2>2, <2>3, <2>4
<1>3. ASSUME NEW q \in Requests, ServeLate(q)
      PROVE  DoorInv'
  <2>1. word = "doubt" /\ late' \subseteq late /\ asked' = asked /\ door' = door
    BY <1>3 DEF ServeLate, Exchanged
  <2>2. policy' \subseteq {"durable", "grant"}
    BY <1>3 DEF ServeLate, Served
  <2>3. ~(pc \in {"append", "rename"} /\ op \in {"down", "destroy"})
    BY <1>3 DEF ServeLate, Recorded
  <2>4. DoorType' /\ Exchanged' /\ Owed'
    BY <1>1, <2>1, <2>2 DEF vars, Exchanged, Owed, Speaks
  <2>5. Committed' /\ HistoryExplainsDoor'
    BY <1>1, <2>1 DEF vars, Committed, HistoryExplainsDoor
  <2>6. Recorded' BY <1>1, <2>1, <2>3 DEF vars, Recorded
  <2> QED BY <2>4, <2>5, <2>6
<1>4. CASE ServeControl
  <2>1. pc = "door" /\ word # "kept" /\ Speaks /\ door' = door /\ late' = late /\ asked' = "served"
    BY <1>4 DEF ServeControl, Exchanged
  <2>2. policy' \subseteq {"durable", "grant"} /\ (policy' # {} => Opens(entry))
    <3>1. /\ op = "allow" => entry.what = "granted"
          /\ op = "revoke" => entry.what = "removed"
          /\ op = "up" => entry.what = "adopted"
      BY <2>1 DEF Commanded
    <3>2. CASE op = "allow"
      BY <1>4, <3>1, <3>2 DEF ServeControl, Asks, Served, Opens
    <3>3. CASE op = "revoke"
      BY <1>4, <3>1, <3>3 DEF ServeControl, Asks, Served
    <3>4. CASE op = "up"
      BY <1>4, <3>1, <3>4 DEF ServeControl, Asks, Served, Opens
    <3> QED BY <2>1, <3>2, <3>3, <3>4 DEF Speaks
  <2>3. tr = None
    BY <2>1 DEF Commanded, Speaks
  <2> QED BY <1>1, <2>1, <2>2, <2>3 DEF vars, Committed, Exchanged, Owed, Recorded,
             HistoryExplainsDoor, Speaks, Writing
<1> QED BY <1>2, <1>2a, <1>3, <1>4

\* A command at the door: it speaks to it, starts it, or stops it.
LEMMA DoorCommand ==
  ASSUME ControlInv, TypeOK', Commanded',
         Send \/ NoDoor \/ Answered \/ TimeOut \/ StartDoor \/ StopDoor
  PROVE  DoorInv'
<1> USE DEF ControlInv, ControlTypeOK, DoorInv, DoorType
<1>0. /\ UNCHANGED <<chain, tr, applied>> /\ UNCHANGED Told(chain)
      /\ pc = "door" /\ (op # "destroy" => tr = None)
  BY DEF Send, NoDoor, Answered, TimeOut, StartDoor, StopDoor, Door, vars, Told, Exchanged,
     Commanded, Opens, Closes
<1>1. CASE Send
  BY <1>0, <1>1 DEF Send, vars, Touched, Speaks, Committed, Exchanged, Owed, Recorded,
     HistoryExplainsDoor, Writing
<1>2. CASE NoDoor
  BY <1>0, <1>2, ReturnType DEF NoDoor, Door, Prepare, doors, Committed, Exchanged, Owed,
     Recorded, HistoryExplainsDoor, Writing, Speaks
<1>3. CASE Answered
  BY <1>0, <1>3 DEF Answered, Door, Prepare, Return, Committed, Exchanged, Owed,
     Recorded, HistoryExplainsDoor, Writing, Speaks, Opens
<1>4. CASE TimeOut
  <2>1. Leaves \subseteq Requests
    BY DEF Leaves, Asks, Requests
  <2> QED BY <1>0, <1>4, <2>1 DEF TimeOut, Door, Prepare, Committed, Exchanged,
     Owed, Recorded, HistoryExplainsDoor, Writing, Speaks
<1>5. CASE StartDoor
  <2>1. CASE pc' = "append"
    <3>1. /\ entry' = entry /\ op' = "up" /\ policy' = Declared(entry.decl) /\ late' = {}
          /\ word' = "pending" /\ asked' = "started" /\ entry.what = "adopted" /\ tr' = None
          /\ door' = TRUE
      BY <1>0, <1>5, <2>1 DEF StartDoor, Door, Prepare, Return, Commanded
    <3> QED BY <1>0, <2>1, <3>1, DeclaredType DEF Committed, Exchanged, Owed, Recorded,
       HistoryExplainsDoor, Writing, Opens
  <2>2. CASE pc' # "append"
    <3>1. /\ pc' = "idle" /\ op' = "none" /\ word' \in {"doubt", word} /\ word' # "pending"
          /\ UNCHANGED <<door, policy, late, asked>> /\ asked = "no"
      BY <1>0, <1>5, <2>2, ReturnType DEF StartDoor, Door, Prepare, Failed
    <3> QED BY <1>0, <3>1
      DEF Committed, Exchanged, Owed, Recorded, HistoryExplainsDoor, Writing
  <2> QED BY <2>1, <2>2
<1>6. CASE StopDoor
  <2>1. CASE pc' = "append"
    <3>1. /\ entry' = entry /\ policy' = {} /\ late' = {} /\ door' = FALSE
          /\ word' = "kept" /\ asked' = "no"
      BY <1>0, <1>6, <2>1 DEF StopDoor, Door, Prepare, Return, Gone
    <3> QED BY <1>0, <2>1, <3>1 DEF Committed, Exchanged, Owed, Recorded,
       HistoryExplainsDoor, Writing
  <2>2. CASE pc' # "append"
    <3>1. /\ pc' = "idle" /\ op' = "none" /\ word' \in {"doubt", word} /\ word' # "pending"
          /\ UNCHANGED <<door, policy, late, asked>> /\ asked = "no"
      BY <1>0, <1>6, <2>2, ReturnType DEF StopDoor, Door, Prepare, Failed
    <3> QED BY <1>0, <3>1
      DEF Committed, Exchanged, Owed, Recorded, HistoryExplainsDoor, Writing
  <2> QED BY <2>1, <2>2
<1> QED BY <1>1, <1>2, <1>3, <1>4, <1>5, <1>6

\* Recovery completes a commit with a door of its own, or returns to what the
\* predecessor's declaration allows.
LEMMA DoorRecovers ==
  ASSUME ControlInv, TypeOK', Commanded', RecoverDoor
  PROVE  DoorInv'
<1> USE DEF ControlInv, ControlTypeOK, DoorInv, DoorType
<1>0. /\ UNCHANGED <<chain, applied, op>> /\ UNCHANGED Told(chain) /\ pc = "recover"
      /\ asked = "no" /\ word # "pending" /\ asked' = asked
  BY
  DEF RecoverDoor, Recover, Recovered, Prepare, Told, Exchanged, Owed, Opens, Closes, Fresh,
     doors
<1>1. \/ pc' \in {"stage", "door"} /\ (tr' = tr => tr = None) /\ tr' = None
      \/ pc' = "publish" /\ tr' = tr /\ tr # None /\ tr.phase = "commit"
           /\ entry' = [what |-> "applied", decl |-> tr.decl]
  BY DEF RecoverDoor, Recover, Recovered, Prepare
<1>2. CASE tr' = tr /\ (pc' = "publish" => door) /\ UNCHANGED doors
  <2>1. CASE pc' = "publish"
    <3>0. word = "kept" /\ policy # {} => tr.decl \in Declaring
      BY <1>1, <2>1, DeclaredType DEF Committed
    <3>1. word = "kept" /\ policy # {} => ~Closes(entry')
      BY <1>1, <2>1, <3>0 DEF Closes
    <3> QED BY <1>0, <1>1, <1>2, <2>1, <3>1 DEF doors, Committed, Exchanged, Owed, Recorded,
               HistoryExplainsDoor
  <2>2. CASE pc' # "publish"
    BY <1>0, <1>1, <1>2, <2>2 DEF doors, Committed, Exchanged, Owed, Recorded,
       HistoryExplainsDoor, Writing
  <2> QED BY <2>1, <2>2
<1>3. CASE pc' = "publish" /\ Fresh(tr.decl)
  BY <1>0, <1>1, <1>3, DeclaredType DEF Fresh, Committed, Exchanged, Owed, Recorded,
     HistoryExplainsDoor, Opens
<1>4. CASE tr' # tr /\ applied # None /\ Fresh(applied)
  <2>1. pc' = "door" => op \in {"up", "down"}
    BY <1>0 DEF Commanded
  <2> QED BY <1>0, <1>1, <1>4, <2>1, DeclaredType DEF Fresh, Committed, Exchanged, Owed,
             Recorded, HistoryExplainsDoor, Writing
<1>5. CASE tr' # tr /\ Gone /\ word' = "kept" /\ UNCHANGED asked
  BY <1>0, <1>1, <1>5 DEF Gone, Committed, Exchanged, Owed, Recorded, HistoryExplainsDoor,
     Writing
<1> QED BY <1>2, <1>3, <1>4, <1>5 DEF RecoverDoor

\* Adoption and cutover of up.
LEMMA DoorCutsOver ==
  ASSUME ControlInv, TypeOK', Commanded', StageDoor \/ CutoverDoor
  PROVE  DoorInv'
<1> USE DEF ControlInv, ControlTypeOK, DoorInv, DoorType
<1>0. /\ UNCHANGED <<chain, applied, asked>> /\ UNCHANGED Told(chain)
      /\ pc \in {"stage", "cutover"} /\ asked = "no" /\ op = "up"
      /\ tr # None => tr.phase # "commit"
  BY
  DEF StageDoor, Stage, CutoverDoor, Cutover, Told, Exchanged, Fresh, Opens, Closes,
      Commanded
<1>1. CASE StageDoor
  <2>1. /\ pc' \in {"door", "idle", "append", "cutover"} /\ (pc' = "idle" => word' # "pending")
        /\ pc' # "idle" => word' = word /\ op' = "up"
        /\ word' \in {word, "doubt"} /\ UNCHANGED <<door, policy, late>>
        /\ pc' = "append" => entry'.what = "failed"
    <3>1. word' = Failed /\ UNCHANGED <<door, policy, late>>
      BY <1>1 DEF StageDoor
    <3>2. \/ pc' = "idle"
          \/ pc' = "door" /\ op' = op
          \/ pc' = "append" /\ op' = op /\ entry' = Named("failed")
          \/ pc' = "cutover" /\ op' = op
      BY <1>1 DEF StageDoor, Stage, Prepare, Return
    <3>3. Named("failed").what = "failed"
      BY DEF Named
    <3> QED BY <1>0, <3>1, <3>2, <3>3 DEF Failed
  <2>2. tr' # None => tr'.phase # "commit"
    <3>1. tr' = tr \/ tr' = [phase |-> "rollback", decl |-> entry.decl]
      BY <1>1 DEF StageDoor, Stage
    <3> QED BY <1>0, <3>1
  <2> QED BY <1>0, <2>1, <2>2
    DEF Committed, Exchanged, Owed, Recorded, HistoryExplainsDoor, Writing,
             Closes
<1>2. CASE CutoverDoor /\ pc' = "publish"
  <2>1. Fresh(entry.decl) /\ entry' = Named("applied") /\ tr'.decl = entry.decl
    BY <1>2 DEF CutoverDoor, Cutover, Prepare, Return, Commanded, Named
  <2> QED BY <1>0, <1>2, <2>1, DeclaredType DEF Fresh, Named, Committed, Exchanged, Owed,
             Recorded, HistoryExplainsDoor, Writing, Opens
<1>3. CASE CutoverDoor /\ pc' # "publish"
  <2>1. /\ pc' \in {"append", "idle"} /\ (pc' = "append" => entry'.what = "failed" /\ op' = "up")
    <3>1. \/ pc' = "idle"
          \/ pc' = "append" /\ op' = op /\ entry' = Named("failed")
      BY <1>3 DEF CutoverDoor, Cutover, Prepare, Return
    <3>2. Named("failed").what = "failed"
      BY DEF Named
    <3> QED BY <1>0, <3>1, <3>2
  <2>0. tr' # None => tr'.phase # "commit"
    <3>1. tr' = tr \/ tr' = None
      BY <1>3 DEF CutoverDoor, Cutover, Prepare
    <3> QED BY <1>0, <3>1
  <2>2. CASE word' = Failed /\ UNCHANGED <<door, policy, late, asked>>
    BY <1>0, <2>0, <2>1, <2>2 DEF Failed, Committed, Exchanged, Owed, Recorded,
       HistoryExplainsDoor, Writing, Closes
  <2>3. CASE ~(word' = Failed /\ UNCHANGED <<door, policy, late, asked>>)
    <3>1. /\ late' = {} /\ word' = "doubt" /\ door' \in BOOLEAN
          /\ policy' \subseteq {"durable", "grant"}
      BY <1>3, <2>3, DeclaredType DEF CutoverDoor, PriorDoor, Gone
    <3> QED BY <1>0, <2>0, <2>1, <3>1 DEF Committed, Exchanged, Owed, Recorded,
               HistoryExplainsDoor, Writing
  <2> QED BY <2>2, <2>3
<1> QED BY <1>1, <1>2, <1>3

\* The record is written, and answers for the door.
LEMMA DoorRecords ==
  ASSUME ControlInv, TypeOK', Commanded', RecordDoor
  PROVE  DoorInv'
<1> USE DEF ControlInv, ControlTypeOK, DoorInv, DoorType
<1>0. /\ pc \in Writing /\ UNCHANGED <<door, policy, late>> /\ word' = Answers /\ asked' = "no"
      /\ applied' \in Decls \cup {None} /\ tr' \in {tr, None}
      /\ pc' \in {"clear", "rename", "idle"}
      /\ pc' = "rename" => pc = "append" /\ op = "destroy" /\ op' = op
  <2>1. entry.decl \in Decls
    BY DEF TypeOK, Record
  <2> QED BY <2>1 DEF RecordDoor, WriteRecord, Written, Return, Writing, Commanded
<1>1. ASSUME word # "doubt", policy # {}, Opens(entry) \/ (~Closes(entry) /\ word = "kept")
      PROVE  Told(chain')
  <2>1. CASE chain' = chain /\ Repeated
    <3>1. chain # <<>> /\ chain[Len(chain)] = entry
      BY <2>1 DEF Repeated
    <3>2. CASE Opens(entry)
      BY <2>1, <3>1, <3>2, ToldLast DEF TypeOK
    <3>3. CASE word = "kept"
      BY <1>1, <2>1, <3>3 DEF HistoryExplainsDoor
    <3> QED BY <1>1, <3>2, <3>3
  <2>2. CASE chain' = Append(chain, entry)
    <3>1. Opens(entry) \/ (Told(chain) /\ ~Closes(entry))
      BY <1>1 DEF HistoryExplainsDoor
    <3> QED BY <2>2, <3>1, ToldAppend DEF TypeOK
  <2> QED BY <2>1, <2>2 DEF RecordDoor, WriteRecord
<1>2. ASSUME word' = "kept", policy' # {} PROVE Told(chain')
  <2>1. word # "doubt" /\ (word = "pending" => entry.what # "failed") /\ policy # {}
    BY <1>0, <1>2 DEF Answers
  <2> QED BY <1>0, <1>1, <2>1 DEF Recorded
<1>3. /\ word' # "pending"
      /\ word' = "doubt" <=>
           word = "doubt" \/ (word = "pending" /\ entry.what = "failed")
      /\ word' \in {"kept", "doubt"}
  BY <1>0 DEF Answers
<1>4. Committed'
  <2> SUFFICES ASSUME tr' # None, tr'.phase = "commit", word' # "doubt"
               PROVE  policy' \subseteq Declared(tr'.decl)
    BY DEF Committed
  <2>1. tr' = tr /\ word # "doubt" /\ policy' = policy
    BY <1>0, <1>3
  <2> QED BY <2>1 DEF Committed
<1>5. Recorded'
  BY <1>0 DEF Recorded, Writing
<1> QED BY <1>0, <1>2, <1>3, <1>4, <1>5 DEF Exchanged, Owed, HistoryExplainsDoor

\* A record that is refused or torn fails its command.
LEMMA DoorFails ==
  ASSUME ControlInv, FailDoor
  PROVE  DoorInv'
<1> USE DEF ControlInv, ControlTypeOK, DoorInv, DoorType
<1>0. /\ pc' = "idle" /\ UNCHANGED chain /\ asked' = "no" /\ tr' \in {tr, None}
      /\ UNCHANGED Told(chain)
  BY DEF FailDoor, RefuseRecord, TearRecord, Unwritten, Return, Told, Opens, Closes
<1>a. applied' \in Decls \cup {None}
  <2>1. entry.decl \in Decls BY DEF TypeOK, Record
  <2> QED BY <2>1 DEF FailDoor, Unpublished
<1>1. CASE Gone /\ word' = "kept"
  <2>1. policy' = {} /\ late' = {} /\ door' = FALSE BY <1>1 DEF Gone
  <2> QED BY <1>0, <1>a, <1>1, <2>1
    DEF Committed, Exchanged, Owed, Recorded, HistoryExplainsDoor, Writing
<1>2. CASE DoorKept /\ word' = Failed
  <2>1. UNCHANGED <<door, policy, late>> BY <1>2 DEF DoorKept
  <2>2. word' = IF word = "pending" THEN "doubt" ELSE word
    BY <1>0, <1>2 DEF Failed
  <2> QED BY <1>0, <1>a, <2>1, <2>2
    DEF Committed, Exchanged, Owed, Recorded, HistoryExplainsDoor, Writing
<1>3. CASE Unpublished
  <2>1. /\ word' = "doubt" /\ door' \in BOOLEAN /\ late' \subseteq Requests
        /\ policy' \subseteq {"durable", "grant"}
    BY <1>3, DeclaredType DEF Unpublished, PriorDoor, Gone, DoorKept
  <2> QED BY <1>0, <1>a, <2>1
    DEF Committed, Exchanged, Owed, Recorded, HistoryExplainsDoor, Writing
<1> QED BY <1>1, <1>2, <1>3 DEF FailDoor

\* The root moves away, a command begins, goes on or is killed: the door stays.
LEMMA DoorStays ==
  ASSUME ControlInv, TypeOK', Commanded',
         \/ Destroyed \/ CommandDies
         \/ (Review \/ Settled \/ Clear \/ Repair) /\ UNCHANGED <<doors, applied>>
         \/ \E o \in Ops \ {"none"}: ControlCommand(o)
  PROVE  DoorInv'
<1> USE DEF ControlInv, ControlTypeOK, DoorInv, DoorType
<1>1. CASE Destroyed
  <2>1. pc = "rename" /\ pc' = "idle" /\ tr' = None /\ applied' = None
        /\ UNCHANGED <<door, policy, late, asked, word>>
    BY <1>1 DEF Destroyed, Rename, Return, doors
  <2>2. op = "destroy" /\ policy = {} /\ late = {}
    BY <2>1 DEF Commanded, Recorded
  <2> QED BY <2>1, <2>2
    DEF Committed, Exchanged, Owed, Recorded, HistoryExplainsDoor, Writing
<1>2. CASE CommandDies
  <2>1. /\ pc' = "idle" /\ UNCHANGED <<chain, tr, applied, door, policy>> /\ asked' = "no"
        /\ UNCHANGED Told(chain) /\ late' = Leaves /\ word' = Failed
    BY <1>2 DEF CommandDies, Crash, Return, Told, Opens, Closes
  <2>2. word' = (IF word = "pending" THEN "doubt" ELSE word) /\ late' \subseteq Requests
        /\ (asked # "sent" => late' = late)
    BY <2>1 DEF Failed, Leaves, Asks, Requests
  <2> QED BY <2>1, <2>2
    DEF Committed, Exchanged, Owed, Recorded, HistoryExplainsDoor, Writing
<1>3. CASE (Review \/ Settled \/ Clear \/ Repair) /\ UNCHANGED <<doors, applied>>
  <2>1. /\ UNCHANGED <<chain, applied, door, policy, late, asked, word>> /\ UNCHANGED Told(chain)
        /\ pc \in {"review", "settled", "clear", "repair"} /\ tr' \in {tr, None}
        /\ pc' \in {"recover", "repair", "door", "stage", "rerecord", "idle"}
    BY <1>3 DEF Review, Settled, Clear, Repair, Prepare, Return, doors, Told, Opens, Closes
  <2>2. pc' = "rerecord" => ~Closes(entry')
    <3>1. pc' = "rerecord" => entry'.what = "truncated-tail-removed"
      BY DEF Commanded
    <3> QED BY <3>1 DEF Closes
  <2> QED BY <2>1, <2>2
    DEF Committed, Exchanged, Owed, Recorded, HistoryExplainsDoor, Writing
<1>4. ASSUME NEW o \in Ops \ {"none"}, ControlCommand(o)
      PROVE  DoorInv'
  <2>1. /\ UNCHANGED <<chain, tr, applied, door, policy, late, asked, word>>
        /\ UNCHANGED Told(chain)
        /\ pc = "idle" /\ pc' \in {"review", "recover", "settled", "door"}
    BY <1>4 DEF ControlCommand, Command, Begin, doors, Told, Opens, Closes
  <2> QED BY <2>1 DEF Committed, Exchanged, Owed, Recorded, HistoryExplainsDoor, Writing
<1> QED BY <1>1, <1>2, <1>3, <1>4

-----------------------------------------------------------------------------
\* A step that changes nothing keeps the invariant.
LEMMA ControlStutter ==
  ASSUME ControlInv, UNCHANGED cvars
  PROVE  ControlInv'
BY DEF cvars, vars, doors, ControlInv, ControlTypeOK, TypeOK, Commanded, CommitsRecorded,
   Committed, Exchanged, Owed, Recorded, HistoryExplainsDoor, Told, Opens, Closes, Speaks

\* The invariant is inductive.
LEMMA ControlInductive == ControlInv /\ [ControlNext]_cvars => ControlInv'
<1> SUFFICES ASSUME ControlInv, ControlNext PROVE ControlInv'
  BY ControlStutter
<1>1. TypeOK' /\ Commanded' /\ CommitsRecorded'
  <2>1. CASE Next
    BY <2>1, HistoryTypeStep, CommandedStep, CommitsRecordedStep
    DEF ControlInv, ControlTypeOK
  <2>2. CASE UNCHANGED vars
    BY <2>2 DEF vars, ControlInv, ControlTypeOK, TypeOK, Commanded, CommitsRecorded
  <2> QED BY <2>1, <2>2, ControlRefinesHistory
<1>2. DoorInv'
  BY <1>1, DoorProcess, DoorCommand, DoorRecovers, DoorCutsOver, DoorRecords, DoorFails,
     DoorStays DEF ControlNext, ControlStep
<1> QED BY <1>1, <1>2 DEF ControlInv, DoorInv, DoorType, ControlTypeOK

\* The invariant holds of every door, command and repair that share a history.
THEOREM ControlInvariant == ControlSpec => []ControlInv
BY ControlInitially, ControlInductive, PTL DEF ControlSpec

\* The records, the command and the door stay well formed, for any declarations
\* and any bounds on torn writes and records.
THEOREM ControlType == ControlSpec => []ControlTypeOK
<1>1. ControlInv => ControlTypeOK
  BY DEF ControlInv
<1> QED BY <1>1, ControlInvariant, PTL

\* publish's ClearTransition comes after the record of the publication: a commit
\* record goes only when the last record calls its declaration applied.
THEOREM CommitsAreRecorded == ControlSpec => []CommitsRecorded
<1>1. ControlInv => CommitsRecorded
  BY DEF ControlInv
<1> QED BY <1>1, ControlInvariant, PTL

\* No command, no failing or torn write and no repair of history.jsonl loses a
\* complete record or writes behind a fragment.
THEOREM HistoryIsAppendOnly == ControlSpec => AppendOnly
<1> DEFINE A == \/ chain' = chain
                \/ tail = "none" /\ \E r \in Record: chain' = Append(chain, r)
                \/ pc = "rename" /\ chain' = <<>>
<1>1. ControlInv /\ [ControlNext]_cvars => [A]_vars
  <2> SUFFICES ASSUME ControlInv, ControlNext PROVE [A]_vars
    BY DEF cvars
  <2> QED BY ControlRefinesHistory, AppendOnlyStep DEF ControlInv, ControlTypeOK
<1> QED BY <1>1, ControlInvariant, PTL DEF ControlSpec, AppendOnly

\* Whatever the door admits, history accounts for, in every order of requests,
\* late requests, deadlines, kills, recoveries and torn records: unless a command
\* that had reached this door has failed.
THEOREM DoorIsExplained == ControlSpec => []HistoryExplainsDoor
<1>1. ControlInv => HistoryExplainsDoor
  BY DEF ControlInv
<1> QED BY <1>1, ControlInvariant, PTL

\* With the door and its control channel the records of a world behave as those of
\* module History: the conversation with the door adds nothing to them.
THEOREM ControlIsHistory == ControlSpec => Spec
<1>1. ControlInit => Init
  BY DEF ControlInit
<1>2. [ControlNext]_cvars => [Next]_vars
  BY ControlRefinesHistory DEF cvars
<1> QED BY <1>1, <1>2, PTL DEF ControlSpec, Spec
=============================================================================
