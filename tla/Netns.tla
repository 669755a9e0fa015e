------------------------------- MODULE Netns -------------------------------
(***************************************************************************)
(* internal/netns: how a host process gets a socket of a world.  A helper  *)
(* entered into the user and network namespaces of the container's process *)
(* binds or dials there and sends the descriptor over a socket pair.       *)
(*   listener    AcquireBoundListener, for the egress of a governed job    *)
(*   connection  AcquireConnection, for kenogram connect                   *)
(*   path        AcquireListener, for the door of a persistent world       *)
(* The first two pin the namespaces through one open /proc/<pid> directory *)
(* and ask the runtime again before the helper starts; the last lets       *)
(* nsenter open the paths.                                                 *)
(*                                                                         *)
(* A process is a number, its start time with it: 1 is the container's     *)
(* when the command begins, a later one is whatever gets the same pid.     *)
(***************************************************************************)
EXTENDS Integers

CONSTANTS
  Kinds,      \* the acquisitions to consider
  MaxProc     \* bound on the processes that have the pid in turn

ASSUME NetnsConstants ==
  /\ Kinds \subseteq {"listener", "connection", "path"}
  /\ MaxProc \in Nat \ {0}

VARIABLES
  holder,     \* the process that has the pid, 0 if none
  procs,      \* the processes so far
  container,  \* the process the runtime reports for the container, 0 if none
  kind,       \* what is acquired
  step,       \* where the acquiring call is
  seen,       \* the process inspected
  dir,        \* the process behind the open /proc directory
  user, net,  \* the processes whose namespaces are held, 0 before
  helper,     \* "none", "enters", "running", "sent", "ok" or "failed"
  socket,     \* what is on the socket pair: "none", "fd", "text"; or "closed"
  received,   \* the receiving goroutine: "waiting", "fd", "text" or "error"
  held,       \* the parent holds the received descriptor
  expired,    \* the deadline has passed
  doomed      \* the call has decided to fail

process == <<holder, procs, container>>
pins == <<seen, dir, user, net>>
transfer == <<helper, socket, received, held>>
nvars == <<process, kind, step, pins, transfer, expired, doomed>>

NetnsTypeOK ==
  /\ holder \in 0..MaxProc /\ procs \in 1..MaxProc /\ container \in 0..MaxProc
  /\ kind \in Kinds
  /\ step \in {"inspect", "open", "first", "user", "net", "second", "revalidate",
               "start", "select", "exit", "judge", "got", "failed", "serving"}
  /\ seen \in 0..MaxProc /\ dir \in 0..MaxProc
  /\ user \in 0..MaxProc /\ net \in 0..MaxProc
  /\ helper \in {"none", "enters", "running", "sent", "ok", "failed"}
  /\ socket \in {"none", "fd", "text", "closed"}
  /\ received \in {"waiting", "fd", "text", "error"}
  /\ held \in BOOLEAN /\ expired \in BOOLEAN /\ doomed \in BOOLEAN

NetnsInit ==
  /\ holder = 1 /\ procs = 1 /\ container = 1
  /\ kind \in Kinds /\ step = "inspect"
  /\ seen = 0 /\ dir = 0 /\ user = 0 /\ net = 0
  /\ helper = "none" /\ socket = "none" /\ received = "waiting"
  /\ held = FALSE /\ expired = FALSE /\ doomed = FALSE

-----------------------------------------------------------------------------
(* The host: processes end and their pid is given to others. *)

Exit ==
  /\ holder # 0
  /\ holder' = 0
  /\ container' = IF container = holder THEN 0 ELSE container
  /\ UNCHANGED <<procs, kind, step, pins, transfer, expired, doomed>>

\* The next holder is a stranger, or the container again after a restart.
Reuse ==
  /\ holder = 0 /\ procs < MaxProc
  /\ procs' = procs + 1 /\ holder' = procs'
  /\ container' \in {container, procs'}
  /\ UNCHANGED <<kind, step, pins, transfer, expired, doomed>>

Deadline ==
  /\ helper # "none" /\ step \notin {"got", "failed"} /\ ~expired
  /\ expired' = TRUE
  /\ UNCHANGED <<process, kind, step, pins, transfer, doomed>>

-----------------------------------------------------------------------------
(* Pinning *)

At(l) == step = l
Try(l, ok, next) == At(l) /\ step' = IF ok THEN next ELSE "failed"

\* Backend.Inspect and the verification of what it returns, under the world's
\* lock or for the job's own container.
Inspect ==
  /\ Try("inspect", container # 0, IF kind = "path" THEN "start" ELSE "open")
  /\ seen' = container
  /\ UNCHANGED <<process, kind, dir, user, net, transfer, expired, doomed>>

OpenProc ==
  /\ Try("open", holder # 0, "first")
  /\ dir' = holder
  /\ UNCHANGED <<process, kind, seen, user, net, transfer, expired, doomed>>

\* The directory answers only while its process lives.
Alive == holder = dir

\* processStartAt against the start time inspected, before and after the pins.
CheckStart ==
  /\ \/ Try("first", Alive /\ dir = seen, "user")
     \/ Try("second", Alive /\ dir = seen, "revalidate")
  /\ UNCHANGED <<process, kind, pins, transfer, expired, doomed>>

PinUser ==
  /\ Try("user", Alive, "net")
  /\ user' = IF Alive THEN dir ELSE user
  /\ UNCHANGED <<process, kind, seen, dir, net, transfer, expired, doomed>>

PinNetwork ==
  /\ Try("net", Alive, "second")
  /\ net' = IF Alive THEN dir ELSE net
  /\ UNCHANGED <<process, kind, seen, dir, user, transfer, expired, doomed>>

\* The caller inspects again: same process, evidence still in order.
Revalidate ==
  /\ Try("revalidate", container = seen, "start")
  /\ UNCHANGED <<process, kind, pins, transfer, expired, doomed>>

-----------------------------------------------------------------------------
(* The helper *)

\* Mutant: nsenter is given the path of the network namespace.
StartHelperPaths ==
  /\ At("start")
  /\ \/ step' = "select" /\ helper' = "enters"
     \/ step' = "failed" /\ UNCHANGED helper
  /\ UNCHANGED <<process, kind, pins, socket, received, held, expired, doomed>>

\* command.Start; nsenter has the pinned descriptors or still opens the paths.
StartHelper ==
  /\ At("start")
  /\ \/ step' = "select" /\ helper' = IF kind = "path" THEN "enters" ELSE "running"
     \/ step' = "failed" /\ UNCHANGED helper
  /\ UNCHANGED <<process, kind, pins, socket, received, held, expired, doomed>>

\* One path after the other, whoever has the pid then.
EnterPaths ==
  /\ helper = "enters"
  /\ IF holder = 0
       THEN helper' = "failed" /\ UNCHANGED <<user, net>>
       ELSE IF user = 0
         THEN user' = holder /\ UNCHANGED <<net, helper>>
         ELSE net' = holder /\ helper' = "running" /\ UNCHANGED user
  /\ UNCHANGED <<process, kind, step, seen, dir, socket, received, held, expired, doomed>>

Put(m) == socket' = IF socket = "closed" THEN "closed" ELSE m

\* SendListener, SendConnection: the descriptor, or for a connection what went
\* wrong.
HelperSends ==
  /\ helper = "running"
  /\ \/ helper' = "sent" /\ Put("fd")
     \/ helper' = "failed" /\ IF kind = "connection" THEN Put("text") ELSE UNCHANGED socket
  /\ UNCHANGED <<process, kind, step, pins, received, held, expired, doomed>>

HelperExits ==
  /\ helper = "sent"
  /\ helper' = "ok"
  /\ UNCHANGED <<process, kind, step, pins, socket, received, held, expired, doomed>>

\* receiveControl; once the socket is closed it returns an error.
Receive ==
  /\ received = "waiting" /\ socket # "none" /\ helper # "none"
  /\ received' = IF socket = "closed" THEN "error" ELSE socket
  /\ held' = (socket = "fd")
  /\ socket' = IF socket = "closed" THEN "closed" ELSE "none"
  /\ UNCHANGED <<process, kind, step, pins, helper, expired, doomed>>

\* The read deadline that AcquireConnection sets.
ReceiveTimesOut ==
  /\ received = "waiting" /\ kind = "connection" /\ expired /\ helper # "none"
  /\ received' = "error"
  /\ UNCHANGED <<process, kind, step, pins, helper, socket, held, expired, doomed>>

Exited == helper \in {"ok", "failed"}
Killed == helper' = IF Exited THEN helper ELSE "failed"

-----------------------------------------------------------------------------
(* runBoundListenerHelper, runNamespaceConnectionHelper, AcquireListener *)

SelectMessage ==
  /\ At("select") /\ received # "waiting"
  /\ step' = "exit"
  /\ UNCHANGED <<process, kind, pins, transfer, expired, doomed>>

\* Mutant: the socket is closed as soon as the helper is seen to have ended.
SelectExitCloses ==
  /\ At("select") /\ Exited /\ kind # "path"
  /\ step' = "judge"
  /\ socket' = "closed"
  /\ doomed' = (kind = "connection" /\ (expired \/ helper = "failed"))
  /\ UNCHANGED <<process, kind, pins, helper, received, held, expired>>

\* The helper's end is seen first.  For a listener the socket is closed before
\* the message is taken; for a connection only when the helper failed or the
\* deadline has passed.
SelectExit ==
  /\ At("select") /\ Exited /\ kind # "path"
  /\ step' = "judge"
  /\ doomed' = (kind = "connection" /\ (expired \/ helper = "failed"))
  /\ socket' = IF kind = "listener" \/ doomed' THEN "closed" ELSE socket
  /\ UNCHANGED <<process, kind, pins, helper, received, held, expired>>

\* The deadline is seen first, or AcquireListener's receive times out.
SelectDeadline ==
  /\ At("select") /\ expired
  /\ step' = "judge" /\ doomed' = TRUE
  /\ socket' = "closed" /\ Killed
  /\ UNCHANGED <<process, kind, pins, received, held, expired>>

AwaitExit ==
  /\ At("exit")
  /\ step' = "judge"
  /\ \/ Exited /\ UNCHANGED <<helper, doomed>>
     \/ expired /\ Killed /\ doomed' = (kind = "connection")
  /\ UNCHANGED <<process, kind, pins, socket, received, held, expired>>

Usable ==
  /\ ~doomed /\ received = "fd" /\ helper = "ok"
  /\ kind = "listener" => ~expired

\* Mutant: a failed call does not wait for its receiver.
JudgeAtOnce ==
  /\ At("judge") /\ (doomed \/ received # "waiting")
  /\ step' = IF Usable THEN "got" ELSE "failed"
  /\ held' = (Usable /\ held)
  /\ UNCHANGED <<process, kind, pins, helper, socket, received, expired, doomed>>

\* The descriptor is used, or closed with everything else.
Judge ==
  /\ At("judge") /\ received # "waiting"
  /\ step' = IF Usable THEN "got" ELSE "failed"
  /\ held' = (Usable /\ held)
  /\ UNCHANGED <<process, kind, pins, helper, socket, received, expired, doomed>>

-----------------------------------------------------------------------------
Call ==
  \/ Inspect \/ OpenProc \/ CheckStart \/ PinUser \/ PinNetwork \/ Revalidate
  \/ StartHelper \/ SelectMessage \/ SelectExit \/ SelectDeadline \/ AwaitExit \/ Judge

Helper == EnterPaths \/ HelperSends \/ HelperExits

NetnsNext == Exit \/ Reuse \/ Deadline \/ Call \/ Helper \/ Receive \/ ReceiveTimesOut

Acquiring == step \notin {"got", "failed", "serving"}

-----------------------------------------------------------------------------
(* Properties *)

\* A pinned socket belongs to the process whose evidence was verified, in both
\* of its namespaces, whoever gets its pid while the call goes on.
PinnedInWorld ==
  step = "got" /\ kind # "path" => user = seen /\ net = seen

\* A call leaves nothing behind, in whichever order message, exit and deadline
\* are seen: one that failed has ended its receiver and holds no descriptor, and
\* one that only waits for its receiver has a message or a closed socket coming
\* to it.  (A listener's receiver has no deadline of its own.)
NothingLeaks ==
  /\ step = "failed" => ~held /\ (helper # "none" => received # "waiting" /\ Exited)
  /\ step = "judge" /\ received = "waiting" => socket # "none"

\* kenogram connect loses no connection that its helper made: the call fails
\* only if the helper failed or the deadline passed.
ConnectionHandedOver ==
  kind = "connection" /\ step = "failed" /\ helper = "ok" => expired
=============================================================================
