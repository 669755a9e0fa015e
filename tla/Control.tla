------------------------------ MODULE Control ------------------------------
(***************************************************************************)
(* What the commands of internal/app do to the network door of a world     *)
(* (internal/proxy/control.go and startProxy, stopProxy), composed with    *)
(* the history they write about it.  allow, revoke and an adopting up send *)
(* one request over the control socket and wait five seconds for an        *)
(* answer; the door serves every connection in a goroutine of its own, so  *)
(* a request whose client has gone may be served later, after requests     *)
(* that were sent after it.  The record comes last and may be refused.     *)
(*                                                                         *)
(* The door's policy is keyed by destination and one destination is        *)
(* followed: Declaring declarations allow it, the others only others, and  *)
(* Doorless ones nothing at all.                                           *)
(***************************************************************************)
EXTENDS History

CONSTANTS Declaring, Doorless

ASSUME ControlConstants ==
  /\ Declaring \subseteq Decls /\ Doorless \subseteq Decls
  /\ Declaring \cap Doorless = {}
  /\ None \notin Decls

VARIABLES
  door,      \* a door runs
  policy,    \* what admits the destination: "durable", a temporary "grant"
  late,      \* requests whose client no longer waits
  asked,     \* the request of the running command: "no", "sent", "served"; or
             \* "started": its up has started the door
  applied,   \* the declaration of state.json, None if there is none
  word       \* history: "pending", a command has reached the door and not yet
             \* answered; "doubt", one has failed after it did; "kept"

doors == <<door, policy, late, asked, word>>
cvars == <<vars, doors, applied>>

Requests == {"grant", "remove", "restore", "clear"}

ControlTypeOK ==
  /\ TypeOK
  /\ door \in BOOLEAN
  /\ policy \subseteq {"durable", "grant"}
  /\ late \subseteq Requests
  /\ asked \in {"no", "sent", "served", "started"}
  /\ applied \in Decls \cup {None}
  /\ word \in {"kept", "pending", "doubt"}

ControlInit ==
  /\ Init
  /\ door = FALSE /\ policy = {} /\ late = {} /\ asked = "no"
  /\ applied = None /\ word = "kept"

\* The policy a door is started with: --allow for every declared destination.
Declared(d) == IF d \in Declaring THEN {"durable"} ELSE {}

-----------------------------------------------------------------------------
(* The door *)

\* What a request leaves of the policy: Grant, Remove, and Reconcile with and
\* without the destination.
Served(q) ==
  CASE q = "grant" -> policy \cup {"grant"}
    [] q = "restore" -> {"durable"}
    [] OTHER -> {}

\* control serves the request of a client that has gone, or its deadline has
\* passed before the request could be read.
ServeLate(q) ==
  /\ q \in late
  /\ late' = late \ {q}
  /\ policy' \in {Served(q), policy}
  /\ UNCHANGED <<vars, door, asked, applied, word>>

Expire ==
  /\ "grant" \in policy
  /\ policy' = policy \ {"grant"}
  /\ UNCHANGED <<vars, door, late, asked, applied, word>>

\* The process of the door ends, and with it what it was asked.
Gone == door' = FALSE /\ policy' = {} /\ late' = {}

Dies ==
  /\ door /\ Gone
  /\ UNCHANGED <<vars, asked, applied, word>>

-----------------------------------------------------------------------------
(* The commands *)

\* The request of the running command.
Asks ==
  CASE entry.what = "granted" -> "grant"
    [] entry.what = "removed" -> "remove"
    [] OTHER -> IF entry.decl \in Declaring THEN "restore" ELSE "clear"

Touched == IF word = "doubt" THEN "doubt" ELSE "pending"

\* A command that ends without its record has failed.
Failed == IF pc' = "idle" /\ word = "pending" THEN "doubt" ELSE word

\* allow and revoke speak to a door, an adopting up to one that is alive.
Speaks == op \in {"allow", "revoke"} \/ (op = "up" /\ entry.decl \notin Doorless)

Send ==
  /\ pc = "door" /\ asked = "no" /\ Speaks /\ door
  /\ asked' = "sent" /\ word' = Touched
  /\ UNCHANGED <<vars, door, policy, late, applied>>

\* No door answers the dial.
NoDoor ==
  /\ pc = "door" /\ asked = "no" /\ op \in {"allow", "revoke"}
  /\ Door /\ pc' = "idle"
  /\ UNCHANGED <<doors, applied>>

ServeControl ==
  /\ asked = "sent" /\ door
  /\ asked' = "served"
  /\ policy' = Served(Asks)
  /\ UNCHANGED <<vars, door, late, applied, word>>

Answered ==
  /\ asked = "served"
  /\ Door /\ pc' = "append"
  /\ asked' = "no"
  /\ UNCHANGED <<door, policy, late, applied, word>>

\* What a command that stops waiting leaves on the socket.
Leaves == IF asked = "sent" /\ door THEN late \cup {Asks} ELSE late

\* Mutant: an exchange that has run out of time is taken for an answer.
TimeOutAccepted ==
  /\ asked \in {"sent", "served"}
  /\ Door /\ pc' = "append"
  /\ asked' = "no" /\ late' = Leaves
  /\ UNCHANGED <<door, policy, applied, word>>

\* The five seconds pass, the connection breaks, or the door refuses what it
\* was asked: the command returns the error.
TimeOut ==
  /\ asked \in {"sent", "served"}
  /\ Door /\ pc' = "idle"
  /\ asked' = "no" /\ late' = Leaves /\ word' = "doubt"
  /\ UNCHANGED <<door, policy, applied>>

\* An adoption that finds no door starts one.
StartDoor ==
  /\ pc = "door" /\ asked = "no" /\ op = "up" /\ entry.decl \notin Doorless /\ ~door
  /\ Door
  /\ IF pc' = "append"
       THEN /\ door' = TRUE /\ policy' = Declared(entry.decl) /\ late' = {}
            /\ asked' = "started" /\ word' = "pending"
       ELSE word' = Failed /\ UNCHANGED <<door, policy, late, asked>>
  /\ UNCHANGED applied

\* down and destroy, and the adoption of a declaration without destinations.
\* A door that is stopped is known to be closed; one that cannot be stays.
StopDoor ==
  /\ pc = "door" /\ asked = "no"
  /\ op \in {"down", "destroy"} \/ (op = "up" /\ entry.decl \in Doorless)
  /\ Door
  /\ \/ pc' = "append" /\ Gone /\ word' = "kept"
     \/ pc' = "idle" /\ word' = Failed /\ UNCHANGED <<door, policy, late>>
  /\ UNCHANGED <<asked, applied>>

\* A door of declaration d takes the place of whatever ran.
Fresh(d) ==
  /\ door' = (d \notin Doorless) /\ policy' = Declared(d) /\ late' = {}
  /\ word' = "pending"
  /\ UNCHANGED asked

\* Completing a commit keeps a door that answers; a rollback stops the door and
\* starts the predecessor's if it was running.
RecoverDoor ==
  /\ Recover
  /\ UNCHANGED applied
  /\ \/ tr' = tr /\ (pc' = "publish" => door) /\ UNCHANGED doors
     \/ pc' = "publish" /\ Fresh(tr.decl)
     \/ tr' # tr /\ applied # None /\ Fresh(applied)
     \/ tr' # tr /\ Gone /\ word' = "kept" /\ UNCHANGED asked

\* Only the declaration in force is adopted.
StageDoor ==
  /\ Stage
  /\ pc' = "door" => entry.decl = applied
  /\ word' = Failed
  /\ UNCHANGED <<door, policy, late, asked, applied>>

\* restorePredecessor starts its door again.
PriorDoor ==
  /\ applied # None
  /\ door' = (applied \notin Doorless) /\ policy' = Declared(applied) /\ late' = {}

\* The predecessor's door goes and the successor's is started; a cutover that
\* fails has not touched the door, has put back a door of the predecessor's, or
\* could not.
CutoverDoor ==
  /\ Cutover
  /\ \/ pc' = "publish" /\ Fresh(entry.decl)
     \/ pc' # "publish" /\ word' = Failed /\ UNCHANGED <<door, policy, late, asked>>
     \/ pc' # "publish" /\ (PriorDoor \/ Gone) /\ word' = "doubt" /\ UNCHANGED asked
  /\ UNCHANGED applied

\* A record that is written answers the command, unless it says that it failed.
Answers == IF word = "pending" THEN IF entry.what = "failed" THEN "doubt" ELSE "kept" ELSE word

RecordDoor ==
  /\ WriteRecord
  /\ word' = Answers /\ asked' = "no"
  /\ applied' = IF pc = "publish" THEN entry.decl ELSE applied
  /\ UNCHANGED <<door, policy, late>>

DoorKept == UNCHANGED <<door, policy, late>>

\* The cleanup of an up that fails to publish, when state.json is already the
\* successor's: its door is stopped, and a predecessor that ran comes back with
\* a door and, last, its own state.json; each call may fail.
Unpublished ==
  /\ PriorDoor \/ Gone \/ DoorKept
  /\ word' = "doubt" /\ applied' \in {applied, entry.decl}

\* The error is returned.  An adoption that had started the door stops it, if it
\* can; recovery leaves the door and the commit record.
FailDoor ==
  /\ RefuseRecord \/ TearRecord
  /\ CASE pc = "publish" /\ ~recovering -> Unpublished
       [] pc = "publish" /\ recovering ->
            DoorKept /\ word' = Failed /\ applied' = entry.decl
       [] OTHER ->
            /\ \/ asked = "started" /\ Gone /\ word' = "kept"
               \/ DoorKept /\ word' = Failed
            /\ UNCHANGED applied
  /\ asked' = "no"

Destroyed ==
  /\ Rename
  /\ applied' = None
  /\ UNCHANGED doors

\* A command dies, and what it has sent stays.
CommandDies ==
  /\ Crash
  /\ asked' = "no" /\ late' = Leaves
  /\ word' = Failed
  /\ UNCHANGED <<door, policy, applied>>

-----------------------------------------------------------------------------
ControlStep ==
  \/ (Review \/ Settled \/ Clear \/ Repair) /\ UNCHANGED <<doors, applied>>
  \/ Send \/ NoDoor \/ Answered \/ TimeOut \/ StartDoor \/ StopDoor
  \/ RecoverDoor \/ StageDoor \/ CutoverDoor \/ RecordDoor \/ FailDoor \/ Destroyed

\* Every command but up works for, and records, the declaration of state.json.
ControlCommand(o) ==
  /\ Command(o)
  /\ o # "up" => entry'.decl = IF applied = None THEN Blank.decl ELSE applied
  /\ UNCHANGED <<doors, applied>>

ControlNext ==
  \/ \E o \in Ops \ {"none"}: ControlCommand(o)
  \/ ControlStep \/ CommandDies
  \/ ServeControl \/ Expire \/ Dies \/ \E q \in Requests: ServeLate(q)

ControlSpec == ControlInit /\ [][ControlNext]_cvars

\* A command that runs goes on, and an operator who meets a fragment keeps
\* trying down and repair-history, between other commands; the door owes nothing.
ControlFairSpec ==
  /\ ControlSpec /\ WF_cvars(ControlStep)
  /\ \A o \in {"down", "repair"}: SF_cvars(ControlCommand(o))

-----------------------------------------------------------------------------
(* Properties *)

\* What a record says of the destination, if anything.
Opens(r) ==
  \/ r.what = "granted"
  \/ r.what \in {"applied", "adopted"} /\ r.decl \in Declaring

Closes(r) ==
  \/ r.what \in {"removed", "stopped", "destroyed"}
  \/ r.what \in {"applied", "adopted"} /\ r.decl \notin Declaring

\* The last record that bears on the destination opens it.
Told(c) ==
  \E i \in 1..Len(c): Opens(c[i]) /\ \A j \in (i + 1)..Len(c): ~Closes(c[j])

\* The door admits nothing that history does not account for, whatever was
\* granted, revoked, reapplied, torn, recovered or rolled back before: unless a
\* command that had reached this door has told its operator that it failed, or
\* was killed.  An unrecorded grant, and a revoked destination that a late
\* request opens again, exist only behind such an error.
HistoryExplainsDoor ==
  word = "kept" /\ policy # {} => Told(chain)
=============================================================================
