------------------------------- MODULE Egress -------------------------------
(***************************************************************************)
(* Governed egress of one job (internal/jobpodman/runtime.go): a Proxy     *)
(* without a control socket, revoked by revokeEgress when the target ends  *)
(* and joined by stopEgress, which the deadline of its caller may cut      *)
(* short: Finalize calls it once and Cleanup once more, and nobody after   *)
(* them.  Its evidence says "joined" only if every worker is gone.         *)
(***************************************************************************)
EXTENDS Proxy

VARIABLES
  revoke,       \* RevokeAll: "no", "stopped" (flag stored), "done"
  fin,          \* where stopEgress is
  listening,    \* the listener is open
  serveJoined,  \* the call under way has seen serveDone closed
  tries,        \* calls of stopEgress so far
  late          \* the context of the call under way has ended

egress == <<revoke, fin, listening, serveJoined, tries, late>>
evars == <<vars, egress>>

Callers == 2    \* Finalize and Cleanup

FinLabels == {"no", "close", "join", "active", "handlers", "summary", "done"}

EgressTypeOK ==
  /\ TypeOK
  /\ revoke \in {"no", "stopped", "done"}
  /\ fin \in FinLabels
  /\ listening \in BOOLEAN
  /\ serveJoined \in BOOLEAN
  /\ tries \in 0..Callers
  /\ late \in BOOLEAN

EgressInit ==
  /\ Init
  /\ revoke = "no" /\ fin = "no" /\ listening = TRUE /\ serveJoined = FALSE
  /\ tries = 0 /\ late = FALSE

\* RevokeAll stores the flag and cancels the dial context before it locks ...
RevokeStore ==
  /\ revoke = "no"
  /\ revoke' = "stopped" /\ stopped' = TRUE
  /\ UNCHANGED <<policy, conn, serving, fin, listening, serveJoined, tries, late>>

\* Mutant: the declared destinations stay admitted.
RevokeGrantsOnly ==
  /\ revoke = "stopped"
  /\ revoke' = "done"
  /\ grants' = [d \in Dests |-> 0]
  /\ client' = [c \in Conns |-> IF at[c] \in Tracked THEN "closed" ELSE client[c]]
  /\ out' = [c \in Conns |-> IF Bound(c) THEN "closed" ELSE out[c]]
  /\ UNCHANGED <<durable, issued, timers, due, superseded, at, dest, adm,
                 stopped, serving, fin, listening, serveJoined, tries, late>>

\* ... then clears the policy and closes every tracked connection; an outbound
\* that is not bound yet is left to its handler.
RevokePolicy ==
  /\ revoke = "stopped"
  /\ revoke' = "done"
  /\ durable' = [d \in Dests |-> 0]
  /\ grants' = [d \in Dests |-> 0]
  /\ client' = [c \in Conns |-> IF at[c] \in Tracked THEN "closed" ELSE client[c]]
  /\ out' = [c \in Conns |-> IF Bound(c) THEN "closed" ELSE out[c]]
  /\ UNCHANGED <<issued, timers, due, superseded, at, dest, adm, stopped,
                 serving, fin, listening, serveJoined, tries, late>>

\* A closed listener makes Accept fail, and Serve returns.
ServeReturn ==
  /\ serving /\ ~listening
  /\ \A c \in Conns: at[c] \notin InServe
  /\ serving' = FALSE
  /\ UNCHANGED <<policy, conn, stopped, egress>>

-----------------------------------------------------------------------------
(* stopEgress *)

FinStep(from, to) ==
  /\ fin = from /\ fin' = to
  /\ UNCHANGED <<vars, revoke>>

\* What a call holds goes with it.
Return == serveJoined' = FALSE /\ late' = FALSE

\* One of the callers enters.  It takes the turn at egress.finalize, or finds
\* its context ended there and returns unjoined.
FinStart ==
  /\ revoke = "done" /\ tries < Callers
  /\ \/ FinStep("no", IF listening THEN "close" ELSE "join")
     \/ FinStep("no", "no")
  /\ tries' = tries + 1
  /\ UNCHANGED <<listening, serveJoined, late>>

\* The caller's context ends: only the two waits of the call can tell.
FinLate ==
  /\ fin \in {"join", "active", "handlers"} /\ ~late
  /\ late' = TRUE
  /\ UNCHANGED <<vars, revoke, fin, listening, serveJoined, tries>>

\* A Close that fails is noted, and the attempt goes on.
FinClose ==
  /\ FinStep("close", "join")
  /\ listening' \in {FALSE, listening}
  /\ UNCHANGED <<serveJoined, tries, late>>

\* Serve is joined, or the context has ended and the attempt goes on unjoined.
FinJoin ==
  /\ FinStep("join", "active")
  /\ \/ ~serving /\ serveJoined' = TRUE
     \/ late /\ UNCHANGED serveJoined
  /\ UNCHANGED <<listening, tries, late>>

\* WaitIdle reads p.active under the lock, then the handler count.
FinActive ==
  /\ \A c \in Conns: at[c] \notin Tracked
  /\ FinStep("active", "handlers")
  /\ UNCHANGED <<listening, serveJoined, tries, late>>

\* Mutant: no entry in p.active is taken for no handler.
FinHandlersUnseen ==
  /\ FinStep("handlers", "summary")
  /\ UNCHANGED <<listening, serveJoined, tries, late>>

\* Mutant: WaitIdle looks once and does not wait.
FinHandlersOnce ==
  /\ FinStep("handlers", IF Handlers = {} THEN "summary" ELSE "no")
  /\ IF Handlers = {} THEN UNCHANGED <<serveJoined, late>> ELSE Return
  /\ UNCHANGED <<listening, tries>>

FinHandlers ==
  /\ FinStep("handlers", IF Handlers = {} THEN "summary" ELSE "active")
  /\ UNCHANGED <<listening, serveJoined, tries, late>>

\* WaitIdle has read a connection or a handler.
Busy ==
  \/ fin = "active" /\ \E c \in Conns: at[c] \in Tracked
  \/ fin = "handlers" /\ Handlers # {}

\* Mutant: the expired attempt is remembered under a label of its own.
FinDeadlineKept ==
  /\ Busy /\ late
  /\ fin' = "expired" /\ Return
  /\ UNCHANGED <<vars, revoke, listening, tries>>

\* It finds the context ended instead of the next tick, and stopEgress returns
\* unjoined; nothing is cached.
FinDeadline ==
  /\ Busy /\ late
  /\ fin' = "no" /\ Return
  /\ UNCHANGED <<vars, revoke, listening, tries>>

\* Joined: listener closed, Serve joined, WaitIdle nil, no active connection.
Joined ==
  /\ ~listening /\ serveJoined
  /\ \A c \in Conns: at[c] \notin Tracked

FinSummary ==
  /\ FinStep("summary", IF Joined THEN "done" ELSE "no") /\ Return
  /\ UNCHANGED <<listening, tries>>

\* The steps of a call that has begun.
Finish ==
  FinClose \/ FinJoin \/ FinActive \/ FinHandlers \/ FinDeadline \/ FinSummary

-----------------------------------------------------------------------------
EgressNext ==
  \/ RevokeStore \/ RevokePolicy \/ ServeReturn \/ FinStart \/ FinLate \/ Finish
  \/ \E c \in Conns:
       /\ Serve(c) \/ Handle(c) \/ PeersEnd(c) \/ (listening /\ Accept(c))
       /\ UNCHANGED egress

EgressSpec == EgressInit /\ [][EgressNext]_evars

-----------------------------------------------------------------------------
(* Properties *)

\* After RevokeAll has returned nothing is relayed in either direction, also not
\* by a handler whose dial was under way or whose connection Serve had just
\* accepted: what is still in relay has both of its connections closed.
NoTunnelAfterRevoke ==
  revoke = "done" =>
    \A c \in Conns: at[c] = "relay" => client[c] = "closed" /\ out[c] = "closed"

\* The evidence "joined" is true for good: no handler runs, no connection of
\* either side is open, and Serve will start none.
JoinedIsIdle ==
  fin = "done" =>
    /\ ~serving
    /\ \A c \in Conns: at[c] = "idle" /\ client[c] = "closed" /\ out[c] # "open"

\* A call of stopEgress that has the listener closed joins Serve and the
\* handlers, whatever the remote peers do, unless the context of its caller ends
\* first; and once that has ended the call returns, also if Close has failed and
\* Serve goes on.  The calls are two, and both may be cut short: that the egress
\* is joined in the end is not claimed.
EgressJoins ==
  /\ ~listening /\ fin \in {"join", "active", "handlers", "summary"} ~> fin = "done" \/ late
  /\ late ~> fin \in {"no", "done"}
=============================================================================
