----------------------------- MODULE DoorProofs -----------------------------
(***************************************************************************)
(* The egress of a governed job, for any number of connections,            *)
(* destinations, processes and diagnostics: the acquisition of its         *)
(* listener, revocation and join of its proxy, and the account that its    *)
(* evidence gives.  The three parts share only their start, so each has an *)
(* invariant of its own; that of the account also needs to know that a     *)
(* joined proxy is idle.  A fourth is the policy of a job, which nothing   *)
(* changes but revocation, and what its tunnels owe to that.               *)
(***************************************************************************)
EXTENDS Door, ProxyProofs, FiniteSetTheorems, SequenceTheorems

-----------------------------------------------------------------------------
(* Invariants *)

Preparing == {"inspect", "open", "first", "user", "net", "second", "revalidate", "start"}
Waiting == {"start", "select", "exit", "judge", "got"}

\* The namespaces of a pinned acquisition are those of the process it inspected,
\* from the step on that checked them.
Pinned ==
  kind # "path" =>
    /\ helper # "enters"
    /\ step \in {"user", "net", "second", "revalidate"} \cup Waiting => dir = seen
    /\ step \in {"net", "second", "revalidate"} \cup Waiting => user = seen
    /\ step \in {"second", "revalidate"} \cup Waiting => net = seen

\* A descriptor, or the end of the socket, is on its way to a receiver that waits
\* once the helper is done, and nothing is before the helper starts.
Transferring ==
  /\ step \in Preparing => helper = "none"
  /\ helper = "none" => received = "waiting" /\ ~held /\ socket = "none" /\ step # "judge"
  /\ step \in {"select", "exit", "judge", "got"} => helper # "none"
  /\ step = "exit" => received # "waiting"
  /\ step = "judge" => Exited
  /\ helper \in {"sent", "ok"} => received # "waiting" \/ socket # "none"
  /\ NothingLeaks

\* What went wrong with a connection that is refused.
Excused ==
  kind = "connection" =>
    /\ socket = "text" \/ received = "text" => helper = "failed"
    /\ doomed \/ socket = "closed" \/ received = "error" => expired \/ helper = "failed"
    /\ ConnectionHandedOver

AcquireInv == NetnsTypeOK /\ Pinned /\ Transferring /\ Excused

-----------------------------------------------------------------------------
\* Serve handles one connection at a time, and none once it has returned.
OneServed ==
  /\ \A c, e \in Conns: at[c] \in InServe /\ at[e] \in InServe => c = e
  /\ ~serving => \A c \in Conns: at[c] \notin InServe

\* An outbound connection is open only between dial and untrack, a client's only
\* between accept and close.
Closed ==
  \A c \in Conns:
    /\ out[c] = "open" => at[c] \in {"dialed", "relay", "ending"}
    /\ at[c] = "idle" => client[c] = "closed"

\* RevokeAll has stored its flag, and then left no policy.
Revoked ==
  /\ revoke # "no" => stopped
  /\ revoke = "done" => \A d \in Dests: durable[d] = 0 /\ grants[d] = 0

\* An attempt of stopEgress that has joined Serve and counted no handler.
Joining ==
  /\ fin # "no" => revoke = "done"
  /\ serveJoined => ~serving
  /\ fin = "summary" /\ serveJoined => \A c \in Conns: at[c] = "idle"
  /\ fin = "done" => ~serving /\ \A c \in Conns: at[c] = "idle"

EgressInv ==
  /\ EgressTypeOK /\ NamesDestination /\ HoldsAdmission
  /\ OneServed /\ Closed /\ Revoked /\ Joining /\ NoTunnelAfterRevoke

-----------------------------------------------------------------------------
Undecided == {"accepted", "admitted", "spawned", "tracked", "reading", "asked", "dialing", "dialed"}

Recording == {c \in Conns: rec[c] # "no"}
Deciding == {c \in Conns: at[c] \in Undecided}

\* Every decision is counted once and is then retained, omitted, lost, or still in
\* the hands of its handler, which does not end before.
Accounted ==
  /\ counted \in Nat /\ omitted \in Nat /\ contended \in Nat /\ opened \in Nat
  /\ rec \in [Conns -> {"no", "due", "locked"}]
  /\ events \in Seq(Sizes) /\ Len(events) <= MaxEvents
  /\ \A c \in Conns: rec[c] # "no" => at[c] \in {"ending", "relay"}
  /\ counted = Len(events) + omitted + contended + Cardinality(Recording)
  /\ counted + Cardinality(Deciding) <= opened
  /\ opened <= MaxOpened

\* The evidence is that of the account.
Evident ==
  /\ evidence \in [counted: Counts, retained: Counts, omitted: Counts]
  /\ EvidenceAccounts

DoorInv == AcquireInv /\ EgressInv /\ Accounted /\ Evident

-----------------------------------------------------------------------------
(* The acquisition *)

\* Every step of the call, of its helper and of the host keeps the types.
LEMMA NetnsType == ASSUME NetnsTypeOK, NetnsNext PROVE NetnsTypeOK'
<1> USE NetnsConstants
  DEF NetnsTypeOK, process, pins, transfer, At, Try, Alive, Put, Exited, Killed, Usable
<1>1. CASE Exit BY <1>1 DEF Exit
<1>2. CASE Reuse BY <1>2 DEF Reuse
<1>3. CASE Deadline BY <1>3 DEF Deadline
<1>4. CASE Inspect BY <1>4 DEF Inspect
<1>5. CASE OpenProc BY <1>5 DEF OpenProc
<1>6. CASE CheckStart BY <1>6 DEF CheckStart
<1>7. CASE PinUser BY <1>7 DEF PinUser
<1>8. CASE PinNetwork BY <1>8 DEF PinNetwork
<1>9. CASE Revalidate BY <1>9 DEF Revalidate
<1>10. CASE StartHelper BY <1>10 DEF StartHelper
<1>11. CASE SelectMessage BY <1>11 DEF SelectMessage
<1>12. CASE SelectExit BY <1>12 DEF SelectExit
<1>13. CASE SelectDeadline BY <1>13 DEF SelectDeadline
<1>14. CASE AwaitExit BY <1>14 DEF AwaitExit
<1>15. CASE Judge BY <1>15 DEF Judge
<1>16. CASE EnterPaths BY <1>16 DEF EnterPaths
<1>17. CASE HelperSends BY <1>17 DEF HelperSends
<1>18. CASE HelperExits BY <1>18 DEF HelperExits
<1>19. CASE Receive BY <1>19 DEF Receive
<1>20. CASE ReceiveTimesOut BY <1>20 DEF ReceiveTimesOut
<1> QED BY <1>1, <1>2, <1>3, <1>4, <1>5, <1>6, <1>7, <1>8, <1>9, <1>10, <1>11, <1>12, <1>13,
           <1>14, <1>15, <1>16, <1>17, <1>18, <1>19, <1>20 DEF NetnsNext, Call, Helper

\* They keep Pinned.
LEMMA NetnsPinned == ASSUME AcquireInv, Acquiring, NetnsNext PROVE Pinned'
<1> USE DEF process, pins, transfer, At, Try, Alive, Put, Exited, Killed, Usable, Acquiring
<1>0. NetnsTypeOK /\ Pinned /\ Transferring /\ Excused BY DEF AcquireInv
<1>1. CASE Exit BY <1>0, <1>1 DEF Exit, NetnsTypeOK, Pinned, Waiting
<1>2. CASE Reuse BY <1>0, <1>2 DEF Reuse, NetnsTypeOK, Pinned, Waiting
<1>3. CASE Deadline BY <1>0, <1>3 DEF Deadline, NetnsTypeOK, Pinned, Waiting
<1>4. CASE Inspect BY <1>0, <1>4 DEF Inspect, NetnsTypeOK, Pinned, Waiting
<1>5. CASE OpenProc BY <1>0, <1>5 DEF OpenProc, NetnsTypeOK, Pinned, Waiting
<1>6. CASE CheckStart BY <1>0, <1>6 DEF CheckStart, NetnsTypeOK, Pinned, Waiting
<1>7. CASE PinUser BY <1>0, <1>7 DEF PinUser, NetnsTypeOK, Pinned, Waiting
<1>8. CASE PinNetwork BY <1>0, <1>8 DEF PinNetwork, NetnsTypeOK, Pinned, Waiting
<1>9. CASE Revalidate BY <1>0, <1>9 DEF Revalidate, NetnsTypeOK, Pinned, Waiting
<1>10. CASE StartHelper BY <1>0, <1>10 DEF StartHelper, NetnsTypeOK, Pinned, Waiting
<1>11. CASE SelectMessage BY <1>0, <1>11 DEF SelectMessage, NetnsTypeOK, Pinned, Waiting
<1>12. CASE SelectExit
  BY <1>0, <1>12, NetnsConstants DEF SelectExit, NetnsTypeOK, Pinned, Waiting
<1>13. CASE SelectDeadline BY <1>0, <1>13 DEF SelectDeadline, NetnsTypeOK, Pinned, Waiting
<1>14. CASE AwaitExit BY <1>0, <1>14 DEF AwaitExit, NetnsTypeOK, Pinned, Waiting
<1>15. CASE Judge BY <1>0, <1>15 DEF Judge, NetnsTypeOK, Pinned, Waiting
<1>16. CASE EnterPaths BY <1>0, <1>16 DEF EnterPaths, NetnsTypeOK, Pinned, Waiting
<1>17. CASE HelperSends BY <1>0, <1>17 DEF HelperSends, NetnsTypeOK, Pinned, Waiting
<1>18. CASE HelperExits BY <1>0, <1>18 DEF HelperExits, NetnsTypeOK, Pinned, Waiting
<1>19. CASE Receive BY <1>0, <1>19 DEF Receive, NetnsTypeOK, Pinned, Waiting
<1>20. CASE ReceiveTimesOut BY <1>0, <1>20 DEF ReceiveTimesOut, NetnsTypeOK, Pinned, Waiting
<1> QED BY <1>1, <1>2, <1>3, <1>4, <1>5, <1>6, <1>7, <1>8, <1>9, <1>10, <1>11, <1>12, <1>13,
           <1>14, <1>15, <1>16, <1>17, <1>18, <1>19, <1>20 DEF NetnsNext, Call, Helper

\* They keep Transferring.
LEMMA NetnsTransferring == ASSUME AcquireInv, Acquiring, NetnsNext PROVE Transferring'
<1> USE DEF process, pins, transfer, At, Try, Alive, Put, Exited, Killed, Usable, Acquiring
<1>0. NetnsTypeOK /\ Pinned /\ Transferring /\ Excused BY DEF AcquireInv
<1>1. CASE Exit BY <1>0, <1>1 DEF Exit, NetnsTypeOK, Transferring, NothingLeaks, Preparing
<1>2. CASE Reuse BY <1>0, <1>2 DEF Reuse, NetnsTypeOK, Transferring, NothingLeaks, Preparing
<1> USE DEF NetnsTypeOK, Transferring, NothingLeaks, Preparing
<1>3. CASE Deadline BY <1>0, <1>3 DEF Deadline
<1>4. CASE Inspect BY <1>0, <1>4 DEF Inspect
<1>5. CASE OpenProc BY <1>0, <1>5 DEF OpenProc
<1>6. CASE CheckStart BY <1>0, <1>6 DEF CheckStart
<1>7. CASE PinUser BY <1>0, <1>7 DEF PinUser
<1>8. CASE PinNetwork BY <1>0, <1>8 DEF PinNetwork
<1>9. CASE Revalidate BY <1>0, <1>9 DEF Revalidate
<1>10. CASE StartHelper BY <1>0, <1>10 DEF StartHelper
<1>11. CASE SelectMessage BY <1>0, <1>11 DEF SelectMessage
<1>12. CASE SelectExit BY <1>0, <1>12, NetnsConstants DEF SelectExit
<1>13. CASE SelectDeadline BY <1>0, <1>13 DEF SelectDeadline
<1>14. CASE AwaitExit BY <1>0, <1>14 DEF AwaitExit
<1>15. CASE Judge BY <1>0, <1>15 DEF Judge
<1>16. CASE EnterPaths BY <1>0, <1>16 DEF EnterPaths
<1>17. CASE HelperSends BY <1>0, <1>17 DEF HelperSends
<1>18. CASE HelperExits BY <1>0, <1>18 DEF HelperExits
<1>19. CASE Receive BY <1>0, <1>19 DEF Receive
<1>20. CASE ReceiveTimesOut BY <1>0, <1>20 DEF ReceiveTimesOut
<1> QED BY <1>1, <1>2, <1>3, <1>4, <1>5, <1>6, <1>7, <1>8, <1>9, <1>10, <1>11, <1>12, <1>13,
           <1>14, <1>15, <1>16, <1>17, <1>18, <1>19, <1>20 DEF NetnsNext, Call, Helper

\* They keep Excused.
LEMMA NetnsExcused == ASSUME AcquireInv, Acquiring, NetnsNext PROVE Excused'
<1> USE DEF process, pins, transfer, At, Try, Alive, Put, Exited, Killed, Usable, Acquiring
<1>0. NetnsTypeOK /\ Pinned /\ Transferring /\ Excused BY DEF AcquireInv
<1> USE DEF NetnsTypeOK, Excused, ConnectionHandedOver, Transferring, NothingLeaks,
            Preparing
<1>1. CASE Exit BY <1>0, <1>1 DEF Exit
<1>2. CASE Reuse BY <1>0, <1>2 DEF Reuse
<1>3. CASE Deadline BY <1>0, <1>3 DEF Deadline
<1>4. CASE Inspect BY <1>0, <1>4 DEF Inspect
<1>5. CASE OpenProc BY <1>0, <1>5 DEF OpenProc
<1>6. CASE CheckStart BY <1>0, <1>6 DEF CheckStart
<1>7. CASE PinUser BY <1>0, <1>7 DEF PinUser
<1>8. CASE PinNetwork BY <1>0, <1>8 DEF PinNetwork
<1>9. CASE Revalidate BY <1>0, <1>9 DEF Revalidate
<1>10. CASE StartHelper BY <1>0, <1>10 DEF StartHelper
<1>11. CASE SelectMessage BY <1>0, <1>11 DEF SelectMessage
<1>12. CASE SelectExit BY <1>0, <1>12, NetnsConstants DEF SelectExit
<1>13. CASE SelectDeadline BY <1>0, <1>13 DEF SelectDeadline
<1>14. CASE AwaitExit BY <1>0, <1>14 DEF AwaitExit
<1>15. CASE Judge BY <1>0, <1>15 DEF Judge
<1>16. CASE EnterPaths BY <1>0, <1>16 DEF EnterPaths
<1>17. CASE HelperSends BY <1>0, <1>17 DEF HelperSends
<1>18. CASE HelperExits BY <1>0, <1>18 DEF HelperExits
<1>19. CASE Receive BY <1>0, <1>19 DEF Receive
<1>20. CASE ReceiveTimesOut BY <1>0, <1>20 DEF ReceiveTimesOut
<1> QED BY <1>1, <1>2, <1>3, <1>4, <1>5, <1>6, <1>7, <1>8, <1>9, <1>10, <1>11, <1>12, <1>13,
           <1>14, <1>15, <1>16, <1>17, <1>18, <1>19, <1>20 DEF NetnsNext, Call, Helper

-----------------------------------------------------------------------------
(* Revocation and join *)

\* A connection's step keeps what each handler holds: an admission once it was
\* allowed.
LEMMA TrafficHolds ==
  ASSUME TypeOK, HoldsAdmission, NEW c \in Conns, Traffic(c)
  PROVE  HoldsAdmission'
<1> USE DEF TypeOK, HoldsAdmission, Move
<1>1. CASE Accept(c) BY <1>1 DEF Accept
<1>2. CASE CheckServe(c) BY <1>2 DEF CheckServe
<1>3. CASE Spawn(c) BY <1>3 DEF Spawn
<1>4. CASE Track(c) BY <1>4 DEF Track
<1>5. CASE CheckHandler(c) BY <1>5 DEF CheckHandler
<1>6. CASE Read(c) BY <1>6 DEF Read
<1>7. CASE Allowed(c) BY <1>7 DEF Allowed
<1>8. CASE Dial(c) BY <1>8 DEF Dial
<1>9. CASE Bind(c) BY <1>9 DEF Bind
<1>10. CASE RelayClosed(c) BY <1>10 DEF RelayClosed
<1>11. CASE PeersEnd(c) BY <1>11 DEF PeersEnd
<1>12. CASE Untrack(c) BY <1>12 DEF Untrack
<1>13. CASE Leave(c) BY <1>13 DEF Leave
<1> QED BY <1>1, <1>2, <1>3, <1>4, <1>5, <1>6, <1>7, <1>8, <1>9, <1>10, <1>11, <1>12, <1>13
  DEF Traffic, Serve, Handle

\* Serve takes connections one by one.
LEMMA TrafficServed ==
  ASSUME TypeOK, OneServed, NEW c \in Conns, Traffic(c)
  PROVE  OneServed'
<1> USE DEF TypeOK, OneServed, InServe, Move
<1>1. CASE Accept(c) BY <1>1 DEF Accept
<1>2. CASE CheckServe(c) BY <1>2 DEF CheckServe
<1>3. CASE Spawn(c) BY <1>3 DEF Spawn
<1>4. CASE Track(c) BY <1>4 DEF Track
<1>5. CASE CheckHandler(c) BY <1>5 DEF CheckHandler
<1>6. CASE Read(c) BY <1>6 DEF Read
<1>7. CASE Allowed(c) BY <1>7 DEF Allowed
<1>8. CASE Dial(c) BY <1>8 DEF Dial
<1>9. CASE Bind(c) BY <1>9 DEF Bind
<1>10. CASE RelayClosed(c) BY <1>10 DEF RelayClosed
<1>11. CASE PeersEnd(c) BY <1>11 DEF PeersEnd
<1>12. CASE Untrack(c) BY <1>12 DEF Untrack
<1>13. CASE Leave(c) BY <1>13 DEF Leave
<1> QED BY <1>1, <1>2, <1>3, <1>4, <1>5, <1>6, <1>7, <1>8, <1>9, <1>10, <1>11, <1>12, <1>13
  DEF Traffic, Serve, Handle

\* Connections are open only while their handler needs them.
LEMMA TrafficClosed ==
  ASSUME TypeOK, Closed, NEW c \in Conns, Traffic(c)
  PROVE  Closed'
<1> USE DEF TypeOK, Closed, Move, CloseTracked, CloseClients, CloseOutbounds
<1>1. CASE Accept(c) BY <1>1 DEF Accept
<1>2. CASE CheckServe(c) BY <1>2 DEF CheckServe
<1>3. CASE Spawn(c) BY <1>3 DEF Spawn
<1>4. CASE Track(c) BY <1>4 DEF Track
<1>5. CASE CheckHandler(c) BY <1>5 DEF CheckHandler
<1>6. CASE Read(c) BY <1>6 DEF Read
<1>7. CASE Allowed(c) BY <1>7 DEF Allowed
<1>8. CASE Dial(c) BY <1>8 DEF Dial
<1>9. CASE Bind(c) BY <1>9 DEF Bind
<1>10. CASE RelayClosed(c) BY <1>10 DEF RelayClosed
<1>11. CASE PeersEnd(c) BY <1>11 DEF PeersEnd
<1>12. CASE Untrack(c) BY <1>12 DEF Untrack
<1>13. CASE Leave(c) BY <1>13 DEF Leave
<1> QED BY <1>1, <1>2, <1>3, <1>4, <1>5, <1>6, <1>7, <1>8, <1>9, <1>10, <1>11, <1>12, <1>13
  DEF Traffic, Serve, Handle

\* Without a policy no handler is bound, and a relay that is closed stays closed.
LEMMA TrafficRevoked ==
  ASSUME TypeOK, HoldsAdmission, Revoked, NoTunnelAfterRevoke, revoke = "done",
         NEW c \in Conns, Traffic(c), UNCHANGED egress
  PROVE  Revoked' /\ NoTunnelAfterRevoke'
<1>0. \A d \in Dests: durable[d] = 0 /\ grants[d] = 0 /\ Unexpired[d] = 0
  BY DEF Revoked, Unexpired
<1>a. durable' = durable /\ (grants' = grants \/ grants' = Unexpired) /\ (stopped' = stopped)
  BY
  DEF Traffic, Serve, Handle, Accept, CheckServe, Spawn, Track, CheckHandler, Read, Allowed,
      Dial, Bind, RelayClosed, PeersEnd, Untrack, Leave, policy
<1>b. Revoked' BY <1>0, <1>a DEF Revoked, egress
<1>c. \A e \in Conns: at'[e] = "relay" =>
        /\ at[e] = "relay"
        /\ client'[e] \in {client[e], "closed"} /\ out'[e] \in {out[e], "closed"}
  <2> USE DEF TypeOK, Move, CloseTracked, CloseClients, CloseOutbounds
  <2>1. CASE Accept(c) BY <2>1 DEF Accept
  <2>2. CASE CheckServe(c) BY <2>2 DEF CheckServe
  <2>3. CASE Spawn(c) BY <2>3 DEF Spawn
  <2>4. CASE Track(c) BY <2>4 DEF Track
  <2>5. CASE CheckHandler(c) BY <2>5 DEF CheckHandler
  <2>6. CASE Read(c) BY <2>6 DEF Read
  <2>7. CASE Allowed(c) BY <2>7 DEF Allowed
  <2>8. CASE Dial(c) BY <2>8 DEF Dial
  <2>9. CASE Bind(c)
    <3>1. ~StillCurrent(c) BY <2>9, <1>0 DEF Bind, HoldsAdmission, StillCurrent, Current
    <3> QED BY <2>9, <3>1 DEF Bind
  <2>10. CASE RelayClosed(c) BY <2>10 DEF RelayClosed
  <2>11. CASE PeersEnd(c) BY <2>11 DEF PeersEnd
  <2>12. CASE Untrack(c) BY <2>12 DEF Untrack
  <2>13. CASE Leave(c) BY <2>13 DEF Leave
  <2> QED BY <2>1, <2>2, <2>3, <2>4, <2>5, <2>6, <2>7, <2>8, <2>9, <2>10, <2>11, <2>12,
             <2>13 DEF Traffic, Serve, Handle
<1> QED BY <1>b, <1>c DEF NoTunnelAfterRevoke, egress

\* A proxy that is idle, whose Serve has returned, stays so.
LEMMA TrafficIdle ==
  ASSUME TypeOK, ~serving, NEW c \in Conns, Traffic(c)
  PROVE  at[c] # "idle" /\ ~serving'
<1> USE DEF TypeOK, Move
<1>1. CASE Accept(c) BY <1>1 DEF Accept
<1>2. CASE CheckServe(c) BY <1>2 DEF CheckServe
<1>3. CASE Spawn(c) BY <1>3 DEF Spawn
<1>4. CASE Track(c) BY <1>4 DEF Track
<1>5. CASE CheckHandler(c) BY <1>5 DEF CheckHandler
<1>6. CASE Read(c) BY <1>6 DEF Read
<1>7. CASE Allowed(c) BY <1>7 DEF Allowed
<1>8. CASE Dial(c) BY <1>8 DEF Dial
<1>9. CASE Bind(c) BY <1>9 DEF Bind
<1>10. CASE RelayClosed(c) BY <1>10 DEF RelayClosed
<1>11. CASE PeersEnd(c) BY <1>11 DEF PeersEnd
<1>12. CASE Untrack(c) BY <1>12 DEF Untrack
<1>13. CASE Leave(c) BY <1>13 DEF Leave
<1> QED BY <1>1, <1>2, <1>3, <1>4, <1>5, <1>6, <1>7, <1>8, <1>9, <1>10, <1>11, <1>12, <1>13
  DEF Traffic, Serve, Handle

\* A connection's step keeps the invariant of the egress.
LEMMA TrafficInv ==
  ASSUME EgressInv, NEW c \in Conns, Traffic(c), UNCHANGED egress
  PROVE  EgressInv'
<1>0. /\ EgressTypeOK /\ TypeOK /\ NamesDestination /\ HoldsAdmission /\ OneServed
      /\ Closed /\ Revoked /\ Joining /\ NoTunnelAfterRevoke
  BY DEF EgressInv, EgressTypeOK
<1>1. TypeOK' /\ NamesDestination'
  <2>1. [Next]_vars BY DEF Next
  <2> QED BY <1>0, <2>1, StepType, StepNamesDestination
<1>2. EgressTypeOK' BY <1>0, <1>1 DEF EgressTypeOK, egress
<1>3. HoldsAdmission' /\ OneServed' /\ Closed'
  BY <1>0, TrafficHolds, TrafficServed, TrafficClosed
<1>4. Revoked' /\ NoTunnelAfterRevoke'
  <2>1. stopped' = stopped
    BY
    DEF Traffic, Serve, Handle, Accept, CheckServe, Spawn, Track, CheckHandler, Read,
        Allowed, Dial, Bind, RelayClosed, PeersEnd, Untrack, Leave
  <2>2. CASE revoke = "done" BY <1>0, <2>2, TrafficRevoked
  <2>3. CASE revoke # "done" BY <1>0, <2>1, <2>3 DEF Revoked, NoTunnelAfterRevoke, egress
  <2> QED BY <2>2, <2>3
<1>5. Joining'
  <2>1. ~serving => at[c] # "idle" /\ ~serving' BY <1>0, TrafficIdle
  <2> QED BY <1>0, <2>1 DEF Joining, egress
<1> QED BY <1>1, <1>2, <1>3, <1>4, <1>5 DEF EgressInv

\* RevokeAll keeps it.
LEMMA RevokeInv == ASSUME EgressInv, RevokeStore \/ RevokePolicy PROVE EgressInv'
<1>0. /\ EgressTypeOK /\ TypeOK /\ NamesDestination /\ HoldsAdmission /\ OneServed
      /\ Closed /\ Revoked /\ Joining /\ NoTunnelAfterRevoke
  BY DEF EgressInv, EgressTypeOK
<1>1. CASE RevokeStore
  <2> USE DEF RevokeStore, policy, conn
  <2>1. EgressTypeOK' BY <1>0, <1>1 DEF EgressTypeOK, TypeOK
  <2> QED BY <1>0, <1>1, <2>1
    DEF EgressInv, NamesDestination, HoldsAdmission, OneServed, Closed,
        Revoked, Joining, NoTunnelAfterRevoke
<1>2. CASE RevokePolicy
  <2> USE DEF RevokePolicy
  <2>1. EgressTypeOK'
    <3>1. 0 \in 0..MaxAdm BY ProxyConstants
    <3>2. /\ durable' \in [Dests -> 0..MaxAdm] /\ grants' \in [Dests -> 0..MaxAdm]
          /\ client' \in [Conns -> {"open", "closed"}]
          /\ out' \in [Conns -> {"none", "open", "closed"}]
      BY <1>0, <1>2, <3>1 DEF TypeOK
    <3> QED BY <1>0, <1>2, <3>2 DEF EgressTypeOK, TypeOK
  <2>2. NamesDestination' /\ HoldsAdmission' /\ OneServed' /\ Joining'
    BY <1>0, <1>2 DEF NamesDestination, HoldsAdmission, OneServed, Joining
  <2>3. Closed' BY <1>0, <1>2 DEF Closed, TypeOK
  <2>4. Revoked' BY <1>0, <1>2 DEF Revoked
  <2>5. NoTunnelAfterRevoke'
    BY <1>0, <1>2 DEF NoTunnelAfterRevoke, HoldsAdmission, Bound, Tracked
  <2> QED BY <2>1, <2>2, <2>3, <2>4, <2>5 DEF EgressInv
<1> QED BY <1>1, <1>2

\* The end of Serve and every step of stopEgress keep it.
LEMMA FinishInv == ASSUME EgressInv, ServeReturn \/ FinStart \/ FinLate \/ Finish PROVE EgressInv'
<1>0. /\ EgressTypeOK /\ TypeOK /\ NamesDestination /\ HoldsAdmission /\ OneServed
      /\ Closed /\ Revoked /\ Joining /\ NoTunnelAfterRevoke
  BY DEF EgressInv, EgressTypeOK
<1>a. UNCHANGED <<policy, conn, stopped, revoke>>
  BY
  DEF ServeReturn, Finish, FinDeadline, FinStart, FinLate, FinClose, FinJoin,
      FinActive, FinHandlers, FinSummary, FinStep, Return, vars, policy, conn, egress
<1>b. serving' = serving \/ (serving' = FALSE /\ \A c \in Conns: at[c] \notin InServe)
  BY
  DEF ServeReturn, Finish, FinDeadline, FinStart, FinLate, FinClose, FinJoin,
      FinActive, FinHandlers, FinSummary, FinStep, Return, vars
<1>c. fin' \in FinLabels /\ listening' \in BOOLEAN /\ serveJoined' \in BOOLEAN
  BY <1>0 DEF EgressTypeOK, FinLabels, ServeReturn, Finish, FinDeadline, FinStart,
      FinLate, FinClose,
      FinJoin, FinActive, FinHandlers, FinSummary, FinStep, Return, egress
<1>d. late' \in BOOLEAN
  BY <1>0 DEF EgressTypeOK, ServeReturn, Finish, FinDeadline, FinStart, FinLate, FinClose,
    FinJoin, FinActive, FinHandlers, FinSummary, Return, egress
<1>e. tries' \in 0..Callers
  <2>1. tries \in 0..2 BY <1>0 DEF EgressTypeOK, Callers
  <2>2. tries' = tries \/ (tries < 2 /\ tries' = tries + 1)
    BY DEF ServeReturn, Finish, FinDeadline, FinStart, FinLate, FinClose, FinJoin,
      FinActive, FinHandlers, FinSummary, Callers, egress
  <2> QED BY <2>1, <2>2 DEF Callers
<1>1. EgressTypeOK'
  <2>1. TypeOK' BY <1>0, <1>a, <1>b DEF TypeOK, policy, conn
  <2> QED BY <1>0, <1>a, <1>c, <1>d, <1>e, <2>1 DEF EgressTypeOK
<1>2. NamesDestination' /\ HoldsAdmission' /\ Closed' /\ Revoked' /\ NoTunnelAfterRevoke'
  BY <1>0, <1>a DEF NamesDestination, HoldsAdmission, Closed, Revoked, NoTunnelAfterRevoke,
    policy, conn
<1>3. OneServed' BY <1>0, <1>a, <1>b DEF OneServed, conn
<1>4. Joining'
  <2> USE <1>0, <1>a DEF Joining, FinStep, conn
  <2>1. CASE ServeReturn BY <2>1 DEF ServeReturn, egress
  <2>2. CASE FinDeadline \/ FinLate BY <2>2 DEF FinDeadline, FinLate, Return, vars
  <2>3. CASE FinClose \/ FinActive
    <3>1. fin' \in {"join", "handlers"} /\ fin \in {"close", "active"}
          /\ UNCHANGED <<serving, serveJoined, revoke>>
      BY <2>3 DEF FinClose, FinActive, vars
    <3> QED BY <3>1
  <2>7. CASE FinStart
    <3>1. fin = "no" /\ fin' \in {"close", "join", "no"} /\ revoke = "done"
          /\ UNCHANGED <<serving, serveJoined>>
      BY <2>7 DEF FinStart, vars
    <3> QED BY <3>1
  <2>4. CASE FinJoin BY <2>4 DEF FinJoin, vars
  <2>5. CASE FinHandlers
    <3>1. Handlers = {} /\ ~serving => \A c \in Conns: at[c] = "idle"
      BY DEF Handlers, OneServed, TypeOK
    <3> QED BY <2>5, <3>1 DEF FinHandlers, vars
  <2>6. CASE FinSummary
    <3>1. fin = "summary" /\ fin' \in {"done", "no"} /\ (fin' = "done" => serveJoined)
          /\ serveJoined' = FALSE /\ serving' = serving
      BY <2>6 DEF FinSummary, Return, Joined, vars
    <3> QED BY <3>1
  <2> QED BY <2>1, <2>2, <2>3, <2>4, <2>5, <2>6, <2>7 DEF Finish
<1> QED BY <1>1, <1>2, <1>3, <1>4 DEF EgressInv

\* So does every step of the egress.
LEMMA EgressStep == ASSUME EgressInv, EgressNext PROVE EgressInv'
BY TrafficInv, RevokeInv, FinishInv DEF EgressNext, Traffic

-----------------------------------------------------------------------------
(* The account *)

\* The newest n of a sequence are n of its elements.
LEMMA NewestLength ==
  ASSUME NEW S, NEW s \in Seq(S), NEW n \in 0..Len(s)
  PROVE  Newest(s, n) \in Seq(S) /\ Len(Newest(s, n)) = n
<1>1. Len(s) \in Nat /\ Len(s) - n + 1 \in Int OBVIOUS
<1>2. \A i \in (Len(s) - n + 1)..Len(s): s[i] \in S OBVIOUS
<1>3. /\ SubSeq(s, Len(s) - n + 1, Len(s)) \in Seq(S)
      /\ Len(SubSeq(s, Len(s) - n + 1, Len(s))) =
           IF Len(s) - n + 1 <= Len(s) THEN Len(s) - (Len(s) - n + 1) + 1 ELSE 0
  BY <1>1, <1>2, SubSeqProperties
<1> QED BY <1>1, <1>3 DEF Newest

\* A set of connections has a size, and loses or gains one with its element.
LEMMA ConnCount ==
  ASSUME NEW S \in SUBSET Conns
  PROVE  /\ IsFiniteSet(S) /\ Cardinality(S) \in Nat
         /\ \A c \in Conns \ S: Cardinality(S \cup {c}) = Cardinality(S) + 1
         /\ \A c \in S: Cardinality(S \ {c}) = Cardinality(S) - 1
<1>1. IsFiniteSet(S) BY DoorConstants, FS_Subset
<1>2. \A c \in Conns \ S: Cardinality(S \cup {c}) = Cardinality(S) + 1
  BY <1>1, FS_AddElement
<1>3. \A c \in S: Cardinality(S \ {c}) = Cardinality(S) - 1 BY <1>1, FS_RemoveElement
<1> QED BY <1>1, <1>2, <1>3, FS_CardinalityType

\* How a handler moves: to its end by way of one decision at most.
Moves(c) ==
  \/ at[c] = "idle" /\ at'[c] \in Undecided
  \/ at[c] \in Undecided
  \/ at[c] \notin Undecided \cup {"idle"} /\ at'[c] \notin Undecided

\* A step of the egress moves one handler or none.
LEMMA OneMoves ==
  ASSUME TypeOK, EgressNext
  PROVE  at' = at \/ \E c \in Conns: Moves(c) /\ \A e \in Conns \ {c}: at'[e] = at[e]
<1> USE DEF TypeOK, Moves, Undecided, Move, InServe, Handling, Tracked
<1>1. ASSUME NEW c \in Conns, Traffic(c)
      PROVE  Moves(c) /\ \A e \in Conns \ {c}: at'[e] = at[e]
  <2>1. CASE Accept(c) BY <2>1 DEF Accept
  <2>2. CASE CheckServe(c) BY <2>2 DEF CheckServe
  <2>3. CASE Spawn(c) BY <2>3 DEF Spawn
  <2>4. CASE Track(c) BY <2>4 DEF Track
  <2>5. CASE CheckHandler(c) BY <2>5 DEF CheckHandler
  <2>6. CASE Read(c) BY <2>6 DEF Read
  <2>7. CASE Allowed(c) BY <2>7 DEF Allowed
  <2>8. CASE Dial(c) BY <2>8 DEF Dial
  <2>9. CASE Bind(c) BY <2>9 DEF Bind
  <2>10. CASE RelayClosed(c) BY <2>10 DEF RelayClosed
  <2>11. CASE PeersEnd(c) BY <2>11 DEF PeersEnd
  <2>12. CASE Untrack(c) BY <2>12 DEF Untrack
  <2>13. CASE Leave(c) BY <2>13 DEF Leave
  <2> QED BY <1>1, <2>1, <2>2, <2>3, <2>4, <2>5, <2>6, <2>7, <2>8, <2>9, <2>10, <2>11,
             <2>12, <2>13 DEF Traffic, Serve, Handle
<1>2. CASE RevokeStore \/ RevokePolicy \/ ServeReturn \/ FinStart \/ FinLate \/ Finish
  BY <1>2
  DEF RevokeStore, RevokePolicy, ServeReturn, Finish, FinDeadline, FinStart, FinLate, FinClose,
    FinJoin, FinActive, FinHandlers, FinSummary, FinStep, Return, vars, conn
<1> QED BY <1>1, <1>2 DEF EgressNext, Traffic

\* The account of a step of the egress.
LEMMA ObserveAccounted ==
  ASSUME EgressInv, Accounted, EgressNext, Observe
  PROVE  Accounted'
<1> DEFINE D == {c \in Conns: Decides(c)}
           O == {c \in Conns: at[c] = "idle" /\ at'[c] # "idle"}
<1>0. TypeOK BY DEF EgressInv, EgressTypeOK
<1>a. /\ counted' = counted + Cardinality(D) /\ opened' = opened + Cardinality(O)
      /\ opened' <= MaxOpened /\ UNCHANGED <<events, omitted, contended>>
      /\ rec' = [c \in Conns |-> IF Decides(c) THEN "due" ELSE rec[c]]
      /\ \A c \in Conns: rec[c] # "no" => at'[c] = at[c]
  BY DEF Observe
<1>b. /\ counted \in Nat /\ omitted \in Nat /\ contended \in Nat /\ opened \in Nat
      /\ rec \in [Conns -> {"no", "due", "locked"}]
      /\ events \in Seq(Sizes) /\ Len(events) <= MaxEvents
      /\ \A c \in Conns: rec[c] # "no" => at[c] \in {"ending", "relay"}
      /\ counted = Len(events) + omitted + contended + Cardinality(Recording)
      /\ counted + Cardinality(Deciding) <= opened
  BY DEF Accounted
<1>c. /\ Len(events) \in Nat /\ Cardinality(Recording) \in Nat /\ Cardinality(Deciding) \in Nat
      /\ Cardinality({}) = 0
  BY <1>b, ConnCount, FS_EmptySet DEF Recording, Deciding
<1>d. \A c \in Conns: Decides(c) => at'[c] # at[c] /\ rec[c] = "no"
  BY <1>a DEF Decides
<1>e. /\ rec' \in [Conns -> {"no", "due", "locked"}]
      /\ \A c \in Conns: rec'[c] # "no" => at'[c] \in {"ending", "relay"}
  BY <1>a, <1>b DEF Decides
<1>f. Recording' = Recording \cup D BY <1>a DEF Recording
<1>1. CASE at' = at
  <2>1. D = {} /\ O = {} BY <1>1 DEF Decides
  <2>2. Recording' = Recording /\ Deciding' = Deciding BY <1>1, <1>f, <2>1 DEF Deciding
  <2> HIDE DEF D, O
  <2> QED BY <1>a, <1>b, <1>c, <1>e, <2>1, <2>2 DEF Accounted
<1>2. ASSUME NEW c \in Conns, Moves(c), \A e \in Conns \ {c}: at'[e] = at[e]
      PROVE  Accounted'
  <2>1. D \in {{}, {c}} BY <1>2, <1>d
  <2>2. O \in {{}, {c}} BY <1>2
  <2>3. Cardinality({c}) = 1 BY FS_Singleton
  <2>4. Cardinality(Recording') = Cardinality(Recording) + Cardinality(D)
    <3>1. CASE D = {}
      <4>1. Recording' = Recording BY <1>f, <3>1
      <4> HIDE DEF D
      <4> QED BY <1>c, <3>1, <4>1
    <3>2. CASE D = {c}
      <4>1. c \in Conns \ Recording BY <1>d, <3>2 DEF Recording
      <4>2. Cardinality(Recording \cup {c}) = Cardinality(Recording) + 1
        BY <4>1, ConnCount DEF Recording
      <4> QED BY <1>f, <2>3, <3>2, <4>2
    <3> QED BY <2>1, <3>1, <3>2
  <2>5. Cardinality(D) + Cardinality(Deciding') <= Cardinality(O) + Cardinality(Deciding)
    <3>0. /\ c \in Conns \ Deciding => Cardinality(Deciding \cup {c}) = Cardinality(Deciding) + 1
          /\ c \in Deciding => Cardinality(Deciding \ {c}) = Cardinality(Deciding) - 1
      BY ConnCount DEF Deciding
    <3>1. CASE at[c] = "idle" /\ at'[c] \in Undecided
      <4>1. D = {} /\ O = {c} BY <1>2, <3>1, <2>1, <2>2 DEF Decides, Undecided
      <4>2. Deciding' = Deciding \cup {c} /\ c \notin Deciding
        BY <1>2, <3>1 DEF Deciding, Undecided
      <4> HIDE DEF D, O
      <4> QED BY <1>c, <2>3, <3>0, <4>1, <4>2
    <3>2. CASE at[c] \in Undecided /\ at'[c] \in Undecided
      <4>1. D = {} /\ O = {} BY <3>2, <2>1, <2>2 DEF Decides, Undecided
      <4>2. Deciding' = Deciding BY <1>2, <3>2 DEF Deciding
      <4> HIDE DEF D, O
      <4> QED BY <1>c, <4>1, <4>2
    <3>3. CASE at[c] \in Undecided /\ at'[c] \notin Undecided
      <4>1. O = {} BY <3>3, <2>2 DEF Undecided
      <4>2. Deciding' = Deciding \ {c} /\ c \in Deciding BY <1>2, <3>3 DEF Deciding
      <4> HIDE DEF D, O
      <4>3. Cardinality(D) \in {0, 1} BY <1>c, <2>1, <2>3
      <4> QED BY <1>c, <3>0, <4>1, <4>2, <4>3
    <3>4. CASE at[c] \notin Undecided \cup {"idle"} /\ at'[c] \notin Undecided
      <4>1. D = {} /\ O = {} BY <3>4, <2>1, <2>2 DEF Decides, Undecided
      <4>2. Deciding' = Deciding BY <1>2, <3>4 DEF Deciding
      <4> HIDE DEF D, O
      <4> QED BY <1>c, <4>1, <4>2
    <3> QED BY <1>2, <3>1, <3>2, <3>3, <3>4 DEF Moves
  <2>6. /\ Cardinality(D) \in Nat /\ Cardinality(O) \in Nat /\ Cardinality(Deciding') \in Nat
    BY ConnCount DEF Deciding
  <2> HIDE DEF D, O
  <2>7. /\ counted' \in Nat /\ opened' \in Nat
        /\ counted' = Len(events) + omitted + contended + Cardinality(Recording')
        /\ counted' + Cardinality(Deciding') <= opened'
    <3>1. /\ counted \in Nat /\ opened \in Nat /\ omitted \in Nat /\ contended \in Nat
          /\ counted = Len(events) + omitted + contended + Cardinality(Recording)
          /\ counted + Cardinality(Deciding) <= opened
      BY <1>b
    <3>2. counted' = counted + Cardinality(D) /\ opened' = opened + Cardinality(O) BY <1>a
    <3>3. /\ Len(events) \in Nat /\ Cardinality(Recording) \in Nat /\ Cardinality(Deciding) \in Nat
      BY <1>c
    <3>4. counted' \in Nat /\ opened' \in Nat BY <2>6, <3>1, <3>2
    <3>5. counted' = Len(events) + omitted + contended + Cardinality(Recording')
      BY <2>4, <2>6, <3>1, <3>2, <3>3
    <3>6. counted' + Cardinality(Deciding') <= opened'
      <4> DEFINE a == Cardinality(D)
                 b == Cardinality(O)
                 x == Cardinality(Deciding')
                 y == Cardinality(Deciding)
      <4>1. a \in Nat /\ b \in Nat /\ x \in Nat /\ y \in Nat /\ a + x <= b + y
        BY <2>5, <2>6, <3>3
      <4>2. counted' = counted + a /\ opened' = opened + b /\ counted + y <= opened
        BY <3>1, <3>2
      <4> HIDE DEF a, b, x, y
      <4>3. counted' + x <= opened' BY <3>1, <4>1, <4>2
      <4> QED BY <4>3 DEF x
    <3> QED BY <3>4, <3>5, <3>6
  <2> QED BY <1>a, <1>b, <1>e, <2>7 DEF Accounted
<1> QED BY <1>0, <1>1, <1>2, OneMoves

\* The account of a handler that takes the buffer, or finds it locked.
LEMMA TryLockAccounted ==
  ASSUME Accounted, NEW c \in Conns, TryLock(c)
  PROVE  Accounted'
<1>a. /\ counted \in Nat /\ omitted \in Nat /\ contended \in Nat /\ opened \in Nat
      /\ rec \in [Conns -> {"no", "due", "locked"}]
      /\ events \in Seq(Sizes) /\ Len(events) <= MaxEvents
      /\ \A e \in Conns: rec[e] # "no" => at[e] \in {"ending", "relay"}
      /\ counted = Len(events) + omitted + contended + Cardinality(Recording)
      /\ counted + Cardinality(Deciding) <= opened /\ opened <= MaxOpened
  BY DEF Accounted
<1>b. UNCHANGED <<at, counted, events, omitted, opened>> BY DEF TryLock, evars, vars, conn
<1>c. /\ rec' \in [Conns -> {"no", "due", "locked"}]
      /\ \A e \in Conns: rec'[e] # "no" => at'[e] \in {"ending", "relay"}
  BY <1>a, <1>b DEF TryLock
<1>d. Deciding' = Deciding BY <1>b DEF Deciding
<1>e. c \in Recording /\ Cardinality(Recording) \in Nat /\ Len(events) \in Nat
  BY <1>a, ConnCount DEF TryLock, Recording
<1>1. contended' \in Nat
  BY <1>a DEF TryLock
<1>2. counted' = Len(events) + omitted + contended' + Cardinality(Recording')
  <2>1. CASE Locked
    <3>1. Recording' = Recording \ {c} BY <1>a, <2>1 DEF TryLock, Recording
    <3>2. Cardinality(Recording \ {c}) = Cardinality(Recording) - 1
      BY <1>e, ConnCount DEF Recording
    <3>3. contended' = contended + 1 BY <2>1 DEF TryLock
    <3> QED BY <1>a, <1>b, <1>e, <3>1, <3>2, <3>3
  <2>2. CASE ~Locked
    <3>1. Recording' = Recording BY <1>a, <2>2 DEF TryLock, Recording
    <3>2. contended' = contended BY <2>2 DEF TryLock
    <3> QED BY <1>a, <1>b, <3>1, <3>2
  <2> QED BY <2>1, <2>2
<1> QED BY <1>a, <1>b, <1>c, <1>d, <1>1, <1>2 DEF Accounted

\* The account of a handler that stores its record, whatever that evicts.
LEMMA StoreAccounted ==
  ASSUME Accounted, NEW c \in Conns, Store(c)
  PROVE  Accounted'
<1>a. /\ counted \in Nat /\ omitted \in Nat /\ contended \in Nat /\ opened \in Nat
      /\ rec \in [Conns -> {"no", "due", "locked"}]
      /\ events \in Seq(Sizes) /\ Len(events) <= MaxEvents
      /\ \A e \in Conns: rec[e] # "no" => at[e] \in {"ending", "relay"}
      /\ counted = Len(events) + omitted + contended + Cardinality(Recording)
      /\ counted + Cardinality(Deciding) <= opened /\ opened <= MaxOpened
  BY DEF Accounted
<1>b. UNCHANGED <<at, counted, contended, opened>> BY DEF Store, evars, vars, conn
<1>c. rec[c] = "locked" /\ rec' = [rec EXCEPT ![c] = "no"] BY DEF Store
<1>d. /\ rec' \in [Conns -> {"no", "due", "locked"}]
      /\ \A e \in Conns: rec'[e] # "no" => at'[e] \in {"ending", "relay"}
  BY <1>a, <1>b, <1>c
<1>e. Deciding' = Deciding BY <1>b DEF Deciding
<1>f. Recording' = Recording \ {c} /\ c \in Recording BY <1>a, <1>c DEF Recording
<1>g. /\ Cardinality(Recording') = Cardinality(Recording) - 1
      /\ Cardinality(Recording) \in Nat /\ Len(events) \in Nat
  <2>1. Recording \in SUBSET Conns BY DEF Recording
  <2>2. Cardinality(Recording \ {c}) = Cardinality(Recording) - 1 BY <1>f, <2>1, ConnCount
  <2> QED BY <1>a, <1>f, <2>1, <2>2, ConnCount
<1>1. /\ events' \in Seq(Sizes) /\ Len(events') <= MaxEvents
      /\ omitted' \in Nat /\ Len(events') + omitted' = Len(events) + omitted + 1
  <2>1. PICK size \in Sizes:
          LET all == Append(events, size) IN
          IF size > MaxBytes
            THEN omitted' = omitted + 1 /\ UNCHANGED events
            ELSE \E n \in 0..Len(all):
                   /\ Retains(all, n)
                   /\ events' = Newest(all, n) /\ omitted' = omitted + Len(all) - n
    BY DEF Store
  <2> DEFINE all == Append(events, size)
  <2>2. all \in Seq(Sizes) /\ Len(all) = Len(events) + 1 BY <1>a, AppendProperties
  <2>3. CASE size > MaxBytes BY <1>a, <1>g, <2>1, <2>3
  <2>4. CASE ~(size > MaxBytes)
    <3>1. PICK n \in 0..Len(all):
            Retains(all, n) /\ events' = Newest(all, n) /\ omitted' = omitted + Len(all) - n
      BY <2>1, <2>4
    <3> HIDE DEF all
    <3>2. events' \in Seq(Sizes) /\ Len(events') = n BY <2>2, <3>1, NewestLength
    <3>3. Len(events') <= MaxEvents BY <3>1 DEF Retains, Fits
    <3>4. Len(all) \in Nat /\ n \in Nat /\ n <= Len(all) BY <1>g, <2>2, <3>1
    <3> QED BY <1>a, <1>g, <2>2, <3>1, <3>2, <3>3, <3>4
  <2> QED BY <2>3, <2>4
<1>2. counted' = Len(events') + omitted' + contended' + Cardinality(Recording')
  <2>1. \A x, l, r, o, p, k \in Nat: x + p = l + o + 1 => l + o + k + r = x + p + k + (r - 1)
    OBVIOUS
  <2>2. Len(events') \in Nat BY <1>1
  <2>3. Len(events) + omitted + contended + Cardinality(Recording) =
          Len(events') + omitted' + contended + (Cardinality(Recording) - 1)
    BY <1>a, <1>g, <1>1, <2>1, <2>2
  <2> QED BY <1>a, <1>b, <1>g, <2>3
<1> QED BY <1>a, <1>b, <1>d, <1>e, <1>1, <1>2 DEF Accounted

\* The evidence after a step of the egress: it is written by the attempt that
\* joins, when no handler has anything left to record.
LEMMA ObserveEvident ==
  ASSUME EgressInv, Accounted, Evident, EgressNext, Observe, Summarise
  PROVE  Evident'
<1>0. /\ Joining /\ TypeOK /\ fin \in FinLabels BY DEF EgressInv, EgressTypeOK
<1>a. /\ counted \in Nat /\ omitted \in Nat /\ contended \in Nat /\ opened \in Nat
      /\ events \in Seq(Sizes)
      /\ \A c \in Conns: rec[c] # "no" => at[c] \in {"ending", "relay"}
      /\ counted = Len(events) + omitted + contended + Cardinality(Recording)
      /\ counted + Cardinality(Deciding) <= opened /\ opened <= MaxOpened
  BY DEF Accounted
<1>b. Cardinality(Recording) \in Nat /\ Cardinality(Deciding) \in Nat /\ Len(events) \in Nat
  BY <1>a, ConnCount DEF Recording, Deciding
<1>c. counted \in Counts BY <1>a, <1>b, DoorConstants DEF Counts
<1>d. (\A c \in Conns: at[c] = "idle") => counted' = counted
  <2>1. SUFFICES ASSUME \A c \in Conns: at[c] = "idle" PROVE counted' = counted OBVIOUS
  <2>2. {c \in Conns: Decides(c)} = {} BY <2>1 DEF Decides
  <2>3. counted' = counted + Cardinality({}) BY <2>2 DEF Observe
  <2> QED BY <1>a, <2>3, FS_EmptySet
<1>1. CASE fin # "summary"
  <2>1. evidence' = evidence BY <1>1 DEF Summarise
  <2>2. fin' = "done" => fin = "done"
    BY <1>1
    DEF EgressNext, RevokeStore, RevokePolicy, ServeReturn, Finish, FinDeadline, FinStart, FinLate,
      FinClose, FinJoin, FinActive, FinHandlers, FinSummary, FinStep, egress
  <2>3. fin = "done" => counted' = counted BY <1>0, <1>d DEF Joining
  <2> QED BY <2>1, <2>2, <2>3 DEF Evident, EvidenceAccounts
<1>2. CASE fin = "summary"
  <2>1. PICK n \in 0..Len(events):
          evidence' = [counted |-> counted, retained |-> n,
                       omitted |-> omitted + contended + Len(events) - n]
    BY <1>2 DEF Summarise, Snapshot
  <2> DEFINE lost == omitted + contended + Len(events) - n
  <2>2. n \in Nat /\ n <= Len(events) /\ lost \in Nat /\ n <= counted /\ lost <= counted
    BY <1>a, <1>b, <2>1
  <2>3. n \in Counts /\ lost \in Counts BY <1>c, <2>2, DoorConstants DEF Counts
  <2>4. evidence' \in [counted: Counts, retained: Counts, omitted: Counts]
    BY <1>c, <2>1, <2>3
  <2>5. ASSUME fin' = "done"
        PROVE  evidence'.counted = counted' /\ evidence'.retained + evidence'.omitted = counted'
    <3>1. \A c \in Conns: at[c] = "idle"
      <4>1. FinSummary
        BY <1>2, <2>5
        DEF EgressNext, RevokeStore, RevokePolicy, ServeReturn, Finish, FinDeadline,
          FinStart, FinLate, FinClose, FinJoin, FinActive, FinHandlers, FinStep, egress
      <4>2. serveJoined BY <2>5, <4>1 DEF FinSummary, FinStep, Joined
      <4> QED BY <1>0, <1>2, <4>2 DEF Joining
    <3>2. Cardinality(Recording) = 0
      <4>1. Recording = {} BY <1>a, <3>1 DEF Recording
      <4> QED BY <4>1, FS_EmptySet
    <3>3. counted = n + lost BY <1>a, <1>b, <2>2, <3>2
    <3> QED BY <1>d, <2>1, <3>1, <3>3
  <2> QED BY <2>4, <2>5 DEF Evident, EvidenceAccounts
<1> QED BY <1>1, <1>2

-----------------------------------------------------------------------------
(* The door *)

\* A state that only passes keeps the invariant of the acquisition, and so does
\* the step that goes on with the listener.
LEMMA AcquireKept ==
  ASSUME AcquireInv
  PROVE  /\ UNCHANGED nvars => AcquireInv'
         /\ StartServing => AcquireInv'
<1> USE DEF AcquireInv
<1>1. UNCHANGED nvars => AcquireInv'
  BY
  DEF nvars, process, pins, transfer, NetnsTypeOK, Pinned, Transferring, NothingLeaks,
      Excused, ConnectionHandedOver, Exited, Usable, Killed
<1>2. ASSUME StartServing PROVE AcquireInv'
  <2> USE <1>2 DEF StartServing, transfer
  <2>1. NetnsTypeOK' BY NetnsConstants DEF NetnsTypeOK
  <2>2. Pinned' BY DEF Pinned, Waiting, NetnsTypeOK
  <2>3. Transferring' BY DEF Transferring, NothingLeaks, Preparing, Exited
  <2>4. Excused' BY DEF Excused, ConnectionHandedOver
  <2> QED BY <2>1, <2>2, <2>3, <2>4
<1> QED BY <1>1, <1>2

\* Nothing of the egress changes in a step of the acquisition or of a record.
LEMMA EgressKept == ASSUME EgressInv, UNCHANGED evars PROVE EgressInv'
BY DEF EgressInv, evars, vars, egress, policy, conn, EgressTypeOK, TypeOK, NamesDestination,
  HoldsAdmission, OneServed, Closed, Revoked, Joining, NoTunnelAfterRevoke

\* Nor does the account in a step of the acquisition.
LEMMA AccountKept ==
  ASSUME Accounted, Evident, UNCHANGED <<evars, diagnostics>>
  PROVE  Accounted' /\ Evident'
<1>1. UNCHANGED <<at, fin, rec, counted, events, omitted, contended, evidence, opened>>
  BY DEF evars, vars, conn, egress, diagnostics
<1>2. Recording' = Recording /\ Deciding' = Deciding BY <1>1 DEF Recording, Deciding
<1> QED BY <1>1, <1>2 DEF Accounted, Evident, EvidenceAccounts

\* No record is due once the egress has joined.
LEMMA RecordEvident ==
  ASSUME EgressInv, Accounted, Evident, NEW c \in Conns, Record(c)
  PROVE  Evident'
<1>1. fin # "done"
  <2>1. rec[c] # "no" BY DEF Record, TryLock, Store
  <2>2. at[c] # "idle" BY <2>1 DEF Accounted
  <2> QED BY <2>2 DEF EgressInv, Joining
<1>2. UNCHANGED <<fin, evidence>> BY DEF Record, TryLock, Store, evars, egress
<1> QED BY <1>1, <1>2 DEF Evident, EvidenceAccounts

\* The door starts with the invariant.
LEMMA InitDoor == DoorInit => DoorInv
<1> SUFFICES ASSUME DoorInit PROVE DoorInv OBVIOUS
<1> USE DEF DoorInit
<1>1. AcquireInv
  <2> USE DEF NetnsInit
  <2>1. NetnsTypeOK
    <3>1. 0 \in 0..MaxProc /\ 1 \in 0..MaxProc /\ 1 \in 1..MaxProc BY NetnsConstants
    <3> QED BY <3>1 DEF NetnsTypeOK
  <2>2. Pinned BY DEF Pinned, Waiting
  <2>3. Transferring BY DEF Transferring, NothingLeaks, Preparing, Exited
  <2>4. Excused BY DEF Excused, ConnectionHandedOver
  <2> QED BY <2>1, <2>2, <2>3, <2>4 DEF AcquireInv
<1>2. EgressInv
  <2>1. TypeOK BY InitType DEF EgressInit
  <2>2. EgressTypeOK
    <3>1. tries \in 0..Callers
      <4>1. tries = 0 BY DEF EgressInit
      <4> QED BY <4>1 DEF Callers
    <3>2. late \in BOOLEAN BY DEF EgressInit
    <3> QED BY <2>1, <3>1, <3>2 DEF EgressInit, EgressTypeOK, FinLabels
  <2> QED BY <2>2, ProxyConstants
    DEF EgressInit, Init, EgressInv, NamesDestination, HoldsAdmission,
        OneServed, Closed, Revoked, Joining, NoTunnelAfterRevoke, InServe, Handling, Tracked
<1>3. Accounted
  <2>1. Recording = {} BY DEF Recording
  <2>2. Deciding = {} BY DEF Deciding, EgressInit, Init, Undecided
  <2>3. events \in Seq(Sizes) /\ Len(events) = 0 OBVIOUS
  <2>4. /\ counted = 0 /\ omitted = 0 /\ contended = 0 /\ opened = 0
        /\ rec \in [Conns -> {"no", "due", "locked"}] /\ \A c \in Conns: rec[c] = "no"
    OBVIOUS
  <2>5. Cardinality({}) = 0 BY FS_EmptySet
  <2> QED BY <2>1, <2>2, <2>3, <2>4, <2>5, DoorConstants DEF Accounted
<1>4. Evident
  BY DoorConstants DEF EgressInit, Evident, EvidenceAccounts, NoSummary, Counts
<1> QED BY <1>1, <1>2, <1>3, <1>4 DEF DoorInv

\* Every step keeps it.
LEMMA DoorStep == DoorInv /\ [DoorNext]_dvars => DoorInv'
<1> SUFFICES ASSUME DoorInv, [DoorNext]_dvars PROVE DoorInv' OBVIOUS
<1>0. AcquireInv /\ EgressInv /\ Accounted /\ Evident BY DEF DoorInv
<1>1. CASE Acquire(NetnsNext)
  <2>1. Acquiring /\ NetnsNext /\ UNCHANGED <<evars, diagnostics>> BY <1>1 DEF Acquire
  <2>2. AcquireInv'
    BY <1>0, <2>1, NetnsType, NetnsPinned, NetnsTransferring, NetnsExcused DEF AcquireInv
  <2> QED BY <1>0, <2>1, <2>2, EgressKept, AccountKept DEF DoorInv
<1>2. CASE StartServing
  <2>1. UNCHANGED <<evars, diagnostics>> BY <1>2 DEF StartServing
  <2> QED BY <1>0, <1>2, <2>1, AcquireKept, EgressKept, AccountKept DEF DoorInv
<1>3. CASE Lift(EgressNext)
  <2>1. EgressNext /\ Observe /\ Summarise /\ UNCHANGED nvars BY <1>3 DEF Lift
  <2> QED BY <1>0, <2>1, AcquireKept, EgressStep, ObserveAccounted, ObserveEvident
    DEF DoorInv
<1>4. ASSUME NEW c \in Conns, Record(c) PROVE DoorInv'
  <2>1. UNCHANGED <<evars, nvars>> BY <1>4 DEF Record, TryLock, Store
  <2>2. Accounted' BY <1>0, <1>4, TryLockAccounted, StoreAccounted DEF Record
  <2> QED BY <1>0, <1>4, <2>1, <2>2, AcquireKept, EgressKept, RecordEvident DEF DoorInv
<1>5. CASE UNCHANGED dvars
  <2>1. UNCHANGED <<evars, diagnostics>> /\ UNCHANGED nvars BY <1>5 DEF dvars
  <2> QED BY <1>0, <2>1, AcquireKept, EgressKept, AccountKept DEF DoorInv
<1> QED BY <1>1, <1>2, <1>3, <1>4, <1>5 DEF DoorNext

\* DoorInv is an invariant of the acquisition, the proxy and the evidence together.
THEOREM DoorInvariant == DoorSpec => []DoorInv
BY InitDoor, DoorStep, PTL DEF DoorSpec

\* The types, the limit of the buffer and those of every counter.
THEOREM DoorType == DoorSpec => []DoorTypeOK
<1>1. ASSUME DoorInv PROVE DoorTypeOK
  <2>1. EgressTypeOK /\ NetnsTypeOK BY <1>1 DEF DoorInv, EgressInv, AcquireInv
  <2>2. /\ counted \in Nat /\ omitted \in Nat /\ contended \in Nat /\ opened \in Nat
        /\ events \in Seq(Sizes)
        /\ counted = Len(events) + omitted + contended + Cardinality(Recording)
        /\ counted + Cardinality(Deciding) <= opened /\ opened <= MaxOpened
    BY <1>1 DEF DoorInv, Accounted
  <2>3. /\ Cardinality(Recording) \in Nat /\ Cardinality(Deciding) \in Nat /\ Len(events) \in Nat
    BY <2>2, ConnCount DEF Recording, Deciding
  <2>4. counted \in Counts /\ omitted \in Counts /\ contended \in Counts /\ opened \in 0..MaxOpened
    BY <2>2, <2>3, DoorConstants DEF Counts
  <2> QED BY <1>1, <2>1, <2>4 DEF DoorInv, Accounted, Evident, DoorTypeOK
<1> QED BY <1>1, DoorInvariant, PTL

\* After RevokeAll has returned no handler relays a byte, whatever it was about
\* to do when the flag was stored.
THEOREM RevokedIsDark == DoorSpec => []NoTunnelAfterRevoke
BY DoorInvariant, PTL DEF DoorInv, EgressInv

\* A joined egress has no handler, no open connection and no Serve that could
\* start one.
THEOREM JoinedStaysIdle == DoorSpec => []JoinedIsIdle
<1>1. DoorInv => JoinedIsIdle BY DEF DoorInv, EgressInv, Joining, Closed, JoinedIsIdle
<1> QED BY <1>1, DoorInvariant, PTL

\* The evidence of a joined egress accounts for every decision.
THEOREM EvidenceIsHonest == DoorSpec => []EvidenceAccounts
BY DoorInvariant, PTL DEF DoorInv, Evident

\* A listener or connection that was acquired is in the namespaces of the process
\* that podman reported, whatever the host does with the pid.
THEOREM WorldIsPinned == DoorSpec => []PinnedInWorld
<1>1. DoorInv => PinnedInWorld
  BY DEF DoorInv, AcquireInv, Pinned, Waiting, PinnedInWorld, NetnsTypeOK
<1> QED BY <1>1, DoorInvariant, PTL

\* A failed acquisition leaves no descriptor behind.
THEOREM FailureLeaksNothing == DoorSpec => []NothingLeaks
BY DoorInvariant, PTL DEF DoorInv, AcquireInv, Transferring

\* A connection that its helper has handed over is not refused.
THEOREM HandedOver == DoorSpec => []ConnectionHandedOver
<1>1. DoorInv => ConnectionHandedOver
  BY DEF DoorInv, AcquireInv, Excused, ConnectionHandedOver
<1> QED BY <1>1, DoorInvariant, PTL
-----------------------------------------------------------------------------
(* The policy of a job *)

\* A job's egress has no control socket, so its policy is the declared one until
\* it is revoked: a handler that was allowed holds the admission of the
\* destination it asked for.
Declared ==
  /\ superseded = {}
  /\ \A d \in Dests: grants[d] = 0
  /\ \A c \in Conns: at[c] \in {"dialing", "dialed", "relay"} =>
       /\ dest[c] \in Dests
       /\ revoke # "done" => adm[c] = durable[dest[c]]

\* Where there is no grant expireLocked finds nothing to drop or to close.
LEMMA NothingExpires ==
  ASSUME TypeOK, Declared
  PROVE  /\ \A d \in Dests: Unexpired[d] = 0
         /\ CloseClients(Expired) = client /\ CloseOutbounds(Expired) = out
<1>1. Expired = {}
  BY DEF Expired, Declared, TypeOK, Ids
<1>2. CloseClients({}) = client /\ CloseOutbounds({}) = out
  BY DEF CloseClients, CloseOutbounds, TypeOK
<1> QED BY <1>1, <1>2 DEF Unexpired, Declared

\* A connection's step leaves the policy as it was declared, and only allowed()
\* takes an admission: the one of the destination asked for.
LEMMA TrafficDeclared ==
  ASSUME EgressInv, Declared, NEW c \in Conns, Traffic(c), UNCHANGED egress
  PROVE  Declared'
<1>0. TypeOK /\ NamesDestination
  BY DEF EgressInv, EgressTypeOK
<1>1. /\ durable' = durable /\ superseded' = superseded
      /\ grants' = grants \/ grants' = Unexpired
  BY DEF Traffic, Serve, Handle, Accept, CheckServe, Spawn, Track, CheckHandler, Read, Allowed,
      Dial, Bind, RelayClosed, PeersEnd, Untrack, Leave, policy
<1>2. superseded' = {} /\ \A d \in Dests: grants'[d] = 0
  BY <1>0, <1>1, NothingExpires DEF Declared
<1>3. \A e \in Conns: at'[e] \in {"dialing", "dialed", "relay"} =>
        /\ dest'[e] = dest[e]
        /\ \/ at[e] \in {"dialing", "dialed", "relay"} /\ adm'[e] = adm[e]
           \/ at[e] = "asked" /\ adm'[e] = Admission(dest[e]) /\ adm'[e] # 0
  <2>1. [Next]_vars BY DEF Next
  <2> QED BY <1>0, <2>1, HandlersKeep
<1>4. \A e \in Conns: at[e] = "asked" /\ Admission(dest[e]) # 0 =>
        dest[e] \in Dests /\ Admission(dest[e]) = durable[dest[e]]
  BY <1>0, NothingExpires DEF NamesDestination, Admission
<1>5. revoke' = revoke
  BY DEF egress
<1>6. \A e \in Conns: at'[e] \in {"dialing", "dialed", "relay"} =>
        /\ dest'[e] \in Dests
        /\ revoke' # "done" => adm'[e] = durable'[dest'[e]]
  BY <1>1, <1>3, <1>4, <1>5 DEF Declared
<1> QED BY <1>2, <1>6 DEF Declared

\* RevokeAll empties the policy, and nothing else of the egress changes it.
LEMMA EgressDeclared ==
  ASSUME EgressInv, Declared, EgressNext
  PROVE  Declared'
<1>1. ASSUME NEW c \in Conns, Traffic(c), UNCHANGED egress PROVE Declared'
  BY <1>1, TrafficDeclared
<1>2. CASE RevokePolicy
  BY <1>2 DEF RevokePolicy, Declared
<1>3. CASE RevokeStore
  BY <1>3 DEF RevokeStore, Declared, policy, conn
<1>4. CASE ServeReturn \/ FinStart \/ FinLate \/ Finish
  <2>1. UNCHANGED <<superseded, grants, durable, at, dest, adm, revoke>>
    BY <1>4 DEF ServeReturn, Finish, FinDeadline, FinStart, FinLate, FinClose, FinJoin, FinActive,
      FinHandlers, FinSummary, FinStep, Return, vars, policy, conn, egress
  <2> QED BY <2>1 DEF Declared
<1> QED BY <1>1, <1>2, <1>3, <1>4 DEF EgressNext, Traffic

\* A step of the door is one of the egress, or leaves its proxy alone.
LEMMA DoorIsEgress == ASSUME [DoorNext]_dvars PROVE EgressNext \/ UNCHANGED evars
<1>1. CASE Acquire(NetnsNext) BY <1>1 DEF Acquire
<1>2. CASE StartServing BY <1>2 DEF StartServing
<1>3. CASE Lift(EgressNext) BY <1>3 DEF Lift
<1>4. ASSUME NEW c \in Conns, Record(c) PROVE UNCHANGED evars
  BY <1>4 DEF Record, TryLock, Store
<1>5. CASE UNCHANGED dvars BY <1>5 DEF dvars
<1> QED BY <1>1, <1>2, <1>3, <1>4, <1>5 DEF DoorNext

\* Until the revocation the policy of a job is the declared one.
LEMMA PolicyIsDeclared == DoorSpec => [](DoorInv /\ Declared)
<1>1. DoorInit => Declared
  BY DEF DoorInit, EgressInit, Init, Declared
<1>2. DoorInv /\ Declared /\ [DoorNext]_dvars => Declared'
  <2> SUFFICES ASSUME DoorInv, Declared, [DoorNext]_dvars PROVE Declared'
    OBVIOUS
  <2>1. CASE EgressNext
    BY <2>1, EgressDeclared DEF DoorInv
  <2>2. CASE UNCHANGED evars
    BY <2>2 DEF Declared, evars, vars, egress
  <2> QED BY <2>1, <2>2, DoorIsEgress
<1> QED BY <1>1, <1>2, DoorInvariant, PTL DEF DoorSpec

\* The tunnels of a governed job go to destinations that its declaration allows,
\* and every one is under an admission in force: without a control socket there is
\* no grant that a second one could replace, which is how the door of a world comes
\* to relay to a destination it no longer allows.
THEOREM JobTunnelsAllowed == DoorSpec => [](TunnelsAllowed /\ TunnelsAdmitted)
<1>1. ASSUME DoorInv, Declared PROVE TunnelsAllowed /\ TunnelsAdmitted
  <2> SUFFICES ASSUME NEW c \in Conns, Tunnel(c)
               PROVE  /\ durable[dest[c]] # 0
                      /\ Current(adm[c], durable, grants)
    BY DEF TunnelsAllowed, TunnelsAdmitted
  <2>1. at[c] = "relay" /\ client[c] = "open"
    BY DEF Tunnel
  <2>2. revoke # "done"
    BY <1>1, <2>1 DEF DoorInv, EgressInv, NoTunnelAfterRevoke
  <2>3. adm[c] # 0
    BY <1>1, <2>1 DEF DoorInv, EgressInv, HoldsAdmission
  <2>4. dest[c] \in Dests /\ adm[c] = durable[dest[c]]
    BY <1>1, <2>1, <2>2 DEF Declared
  <2> QED BY <2>3, <2>4 DEF Current
<1> QED BY <1>1, PolicyIsDeclared, PTL

\* Nothing but RevokeAll and its own handler ends a tunnel of a job from this
\* side: expiry finds no grant, and there is no Remove or Reconcile.
THEOREM JobTunnelsSurvive == DoorSpec => RetainedTunnelsSurvive
<1>1. ASSUME DoorInv, Declared, [DoorNext]_dvars PROVE [Survives]_vars
  <2>0. TypeOK /\ HoldsAdmission
    BY <1>1 DEF DoorInv, EgressInv, EgressTypeOK
  <2>1. ASSUME NEW c \in Conns, Traffic(c) PROVE Survives
    <3>1. CASE Allowed(c) \/ Bind(c)
      <4>1. client' = client /\ out' = out
        BY <1>1, <2>0, <3>1, NothingExpires DEF Allowed, Bind, CloseTracked
      <4> QED BY <4>1 DEF Survives, Tunnel
    <3>2. CASE ~(Allowed(c) \/ Bind(c))
      <4> SUFFICES ASSUME NEW e \in Conns, at[e] = "relay", at'[e] = "relay"
                   PROVE  client'[e] = client[e] /\ out'[e] = out[e]
        BY DEF Survives, Tunnel
      <4> QED BY <2>0, <2>1, <3>2 DEF Traffic, Handle, TypeOK, Accept, Serve, CheckServe,
            Spawn, PeersEnd, Track, Move, CheckHandler, Read, Dial, RelayClosed, Untrack, Leave
    <3> QED BY <3>1, <3>2
  <2>2. CASE RevokePolicy
    <3>1. \A d \in Dests: durable'[d] = 0 /\ grants'[d] = 0
      BY <2>2 DEF RevokePolicy
    <3> QED BY <2>0, <3>1 DEF Survives, Tunnel, Current, HoldsAdmission
  <2>3. CASE RevokeStore \/ ServeReturn \/ FinStart \/ FinLate \/ Finish
    <3>1. UNCHANGED conn
      BY <2>3 DEF RevokeStore, ServeReturn, Finish, FinDeadline, FinStart, FinLate,
          FinClose, FinJoin, FinActive, FinHandlers, FinSummary, FinStep, Return, vars, conn
    <3> QED BY <3>1 DEF Survives, Tunnel, conn
  <2>4. CASE UNCHANGED evars
    BY <2>4 DEF evars
  <2> QED BY <1>1, <2>1, <2>2, <2>3, <2>4, DoorIsEgress DEF EgressNext, Traffic
<1>2. [Survives]_vars => [\A c \in Conns:
         Tunnel(c) /\ at'[c] = "relay" /\ Current(adm[c], durable', grants')
           => client'[c] = "open" /\ out'[c] = out[c]]_vars
  BY DEF Survives
<1> QED BY <1>1, <1>2, PolicyIsDeclared, PTL DEF DoorSpec, RetainedTunnelsSurvive
=============================================================================
