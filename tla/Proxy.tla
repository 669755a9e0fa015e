------------------------------- MODULE Proxy -------------------------------
(***************************************************************************)
(* The exact-destination proxy of internal/proxy: Serve and its connection *)
(* handlers, the policy that the control socket changes under p.mu, and    *)
(* the timers of temporary grants.  Each section between Lock and Unlock,  *)
(* and each use of an atomic, is one step; a handler holds nothing while   *)
(* it parses, resolves and dials, so policy changes fall in between.       *)
(***************************************************************************)
EXTENDS Integers, FiniteSets

CONSTANTS
  Conns,            \* names for client connections; reused when one ends
  Dests,            \* canonical host:port keys
  GrantDests,       \* those an operator may allow temporarily
  MaxConnections,   \* Options.MaxConnections, the capacity of p.sem
  MaxAdm            \* bound on admission ids ever issued

ASSUME ProxyConstants ==
  /\ GrantDests \subseteq Dests
  /\ MaxConnections \in Nat \ {0}
  /\ MaxAdm \in Nat

VARIABLES
  durable,      \* p.durable: admission id per destination, 0 if none
  grants,       \* p.grants: id of the temporary grant per destination, or 0
  issued,       \* p.admission: the counter ids come from
  timers,       \* time.AfterFunc timers not yet run: <<destination, id>>
  due,          \* grant ids whose deadline has passed
  superseded,   \* history: grant ids that a later Grant of the key replaced
  at,           \* where the handler of each connection is
  dest,         \* the destination it asked for, None before
  adm,          \* the admission it holds, 0 before
  client,       \* the client connection: "open" or "closed"
  out,          \* the outbound connection: "none", "open" or "closed"
  stopped,      \* p.stopped, and p.ctx cancelled
  serving       \* Serve has not returned

policy == <<durable, grants, issued, timers, due, superseded>>
conn == <<at, dest, adm, client, out>>
vars == <<durable, grants, issued, timers, due, superseded, at, dest, adm,
          client, out, stopped, serving>>

Ids == 1..MaxAdm
None == "none"

\* Serve has accepted the connection but no handler runs yet.
InServe == {"accepted", "admitted"}
\* The connection is in p.active; from "relay" on with outbound and admission.
Tracked == {"tracked", "reading", "asked", "dialing", "dialed", "relay", "ending"}
\* A handler goroutine runs and holds a slot of p.sem.
Handling == {"spawned"} \cup Tracked \cup {"untracked"}

TypeOK ==
  /\ durable \in [Dests -> 0..MaxAdm]
  /\ grants \in [Dests -> 0..MaxAdm]
  /\ issued \in 0..MaxAdm
  /\ timers \subseteq Dests \X Ids
  /\ due \subseteq Ids
  /\ superseded \subseteq Ids
  /\ at \in [Conns -> {"idle"} \cup InServe \cup Handling]
  /\ dest \in [Conns -> {None} \cup Dests]
  /\ adm \in [Conns -> 0..MaxAdm]
  /\ client \in [Conns -> {"open", "closed"}]
  /\ out \in [Conns -> {"none", "open", "closed"}]
  /\ stopped \in BOOLEAN
  /\ serving \in BOOLEAN

-----------------------------------------------------------------------------
(* Policy *)

\* f admits exactly S: ids that `kept` holds are retained, the others are new,
\* issued one by one after number n, the last being m.
Admits(f, S, kept, n, m) ==
  LET fresh == {d \in S: kept[d] = 0} IN
  /\ \A d \in Dests \ S: f[d] = 0
  /\ \A d \in S \ fresh: f[d] = kept[d]
  /\ {f[d]: d \in fresh} = (n + 1)..m
  /\ \A d, e \in fresh: f[d] = f[e] => d = e

Init ==
  /\ \E S \in SUBSET Dests, m \in 0..MaxAdm:
       /\ durable \in [Dests -> 0..MaxAdm]
       /\ Admits(durable, S, [d \in Dests |-> 0], 0, m)
       /\ issued = m
  /\ grants = [d \in Dests |-> 0]
  /\ timers = {} /\ due = {} /\ superseded = {}
  /\ at = [c \in Conns |-> "idle"]
  /\ dest = [c \in Conns |-> None]
  /\ adm = [c \in Conns |-> 0]
  /\ client = [c \in Conns |-> "closed"]
  /\ out = [c \in Conns |-> "none"]
  /\ stopped = FALSE /\ serving = TRUE

\* admissionCurrentLocked
Current(i, dur, gr) == \E d \in Dests: dur[d] = i \/ gr[d] = i

\* The tracked entry of c carries admission i.
Bound(c) == at[c] \in {"relay", "ending"} /\ adm[c] # 0

\* closeTracked of every active entry whose admission is in I.
CloseClients(I) ==
  [c \in Conns |-> IF Bound(c) /\ adm[c] \in I THEN "closed" ELSE client[c]]
CloseOutbounds(I) ==
  [c \in Conns |-> IF Bound(c) /\ adm[c] \in I THEN "closed" ELSE out[c]]

\* Mutant: the outbound side stays open.
CloseTrackedClients(I) ==
  /\ client' = CloseClients(I)
  /\ UNCHANGED out

CloseTracked(I) ==
  /\ client' = CloseClients(I)
  /\ out' = CloseOutbounds(I)

\* expireLocked: the grants that remain and the ids that go.
Expired == {i \in due: \E d \in Dests: grants[d] = i}
Unexpired == [d \in Dests |-> IF grants[d] \in due THEN 0 ELSE grants[d]]

-----------------------------------------------------------------------------
(* Serve *)

Accept(c) ==
  /\ serving /\ at[c] = "idle"
  /\ \A e \in Conns: at[e] \notin InServe
  /\ at' = [at EXCEPT ![c] = "accepted"]
  /\ client' = [client EXCEPT ![c] = "open"]
  /\ out' = [out EXCEPT ![c] = "none"]
  /\ UNCHANGED <<policy, dest, adm, stopped, serving>>

\* A stopped proxy drops the connection and ends Serve.
CheckServe(c) ==
  /\ at[c] = "accepted"
  /\ IF stopped
       THEN /\ at' = [at EXCEPT ![c] = "idle"]
            /\ client' = [client EXCEPT ![c] = "closed"]
            /\ serving' = FALSE
       ELSE /\ at' = [at EXCEPT ![c] = "admitted"]
            /\ UNCHANGED <<client, serving>>
  /\ UNCHANGED <<policy, dest, adm, out, stopped>>

Handlers == {c \in Conns: at[c] \in Handling}

\* admitRate may refuse; otherwise a free slot of p.sem is taken or the
\* connection is dropped.
Spawn(c) ==
  /\ at[c] = "admitted"
  /\ \/ /\ Cardinality(Handlers) < MaxConnections
        /\ at' = [at EXCEPT ![c] = "spawned"]
        /\ UNCHANGED client
     \/ /\ at' = [at EXCEPT ![c] = "idle"]
        /\ client' = [client EXCEPT ![c] = "closed"]
  /\ UNCHANGED <<policy, dest, adm, out, stopped, serving>>

-----------------------------------------------------------------------------
(* handle *)

Move(c, from, to) == at[c] = from /\ at' = [at EXCEPT ![c] = to]

Track(c) ==
  /\ Move(c, "spawned", "tracked")
  /\ UNCHANGED <<policy, dest, adm, client, out, stopped, serving>>

CheckHandler(c) ==
  /\ Move(c, "tracked", IF stopped THEN "ending" ELSE "reading")
  /\ UNCHANGED <<policy, dest, adm, client, out, stopped, serving>>

\* The header arrives and names a destination, or is refused, times out, or
\* the connection has been closed.
Read(c) ==
  /\ \/ /\ client[c] = "open"
        /\ Move(c, "reading", "asked")
        /\ \E d \in Dests: dest' = [dest EXCEPT ![c] = d]
     \/ Move(c, "reading", "ending") /\ UNCHANGED dest
  /\ UNCHANGED <<policy, adm, client, out, stopped, serving>>

\* The admission that allowed returns: the declaration's before a grant's.
Admission(d) == IF durable[d] # 0 THEN durable[d] ELSE Unexpired[d]

Allowed(c) ==
  /\ Move(c, "asked", IF Admission(dest[c]) # 0 THEN "dialing" ELSE "ending")
  /\ adm' = [adm EXCEPT ![c] = Admission(dest[c])]
  /\ grants' = Unexpired
  /\ CloseTracked(Expired)
  /\ UNCHANGED <<durable, issued, timers, due, superseded, dest, stopped, serving>>

\* dialResolved succeeds or fails; a cancelled context may lose to success.
Dial(c) ==
  /\ \/ /\ Move(c, "dialing", "dialed")
        /\ out' = [out EXCEPT ![c] = "open"]
        /\ UNCHANGED adm
     \/ /\ Move(c, "dialing", "ending")
        /\ adm' = [adm EXCEPT ![c] = 0]
        /\ UNCHANGED out
  /\ UNCHANGED <<policy, dest, client, stopped, serving>>

\* bindAdmission: the admission captured before the dial must still be current.
StillCurrent(c) == Current(adm[c], durable, Unexpired)

\* Mutant: the admission taken before the dial is trusted after it.
BindUnchecked(c) ==
  /\ Move(c, "dialed", "relay")
  /\ grants' = Unexpired
  /\ CloseTracked(Expired)
  /\ UNCHANGED <<durable, issued, timers, due, superseded, dest, adm, stopped,
                 serving>>

Bind(c) ==
  /\ Move(c, "dialed", IF StillCurrent(c) THEN "relay" ELSE "ending")
  /\ adm' = [adm EXCEPT ![c] = IF StillCurrent(c) THEN @ ELSE 0]
  /\ grants' = Unexpired
  /\ CloseTracked(Expired)
  /\ UNCHANGED <<durable, issued, timers, due, superseded, dest, stopped, serving>>

\* relay waits for both directions.  Closed locally, each ends by itself; a
\* direction whose source is open ends only when that peer does something.
RelayClosed(c) ==
  /\ client[c] = "closed" /\ out[c] = "closed"
  /\ Move(c, "relay", "ending")
  /\ UNCHANGED <<policy, dest, adm, client, out, stopped, serving>>

PeersEnd(c) ==
  /\ Move(c, "relay", "ending")
  /\ UNCHANGED <<policy, dest, adm, client, out, stopped, serving>>

\* The deferred calls, last first: outbound.Close and untrack ...
Untrack(c) ==
  /\ Move(c, "ending", "untracked")
  /\ out' = [out EXCEPT ![c] = IF @ = "open" THEN "closed" ELSE @]
  /\ UNCHANGED <<policy, dest, adm, client, stopped, serving>>

\* ... client.Close, the slot of p.sem and the handler count.
Leave(c) ==
  /\ Move(c, "untracked", "idle")
  /\ client' = [client EXCEPT ![c] = "closed"]
  /\ dest' = [dest EXCEPT ![c] = None]
  /\ adm' = [adm EXCEPT ![c] = 0]
  /\ UNCHANGED <<policy, out, stopped, serving>>

-----------------------------------------------------------------------------
(* Control socket and grant timers *)

\* A second Grant of a key overwrites the first entry.
Grant(d) ==
  /\ issued < MaxAdm
  /\ issued' = issued + 1
  /\ grants' = [grants EXCEPT ![d] = issued + 1]
  /\ timers' = timers \cup {<<d, issued + 1>>}
  /\ superseded' = superseded \cup ({grants[d]} \ {0})
  /\ UNCHANGED <<durable, due, conn, stopped, serving>>

\* Time reaches the deadline of some grant.
Elapse(d, i) ==
  /\ <<d, i>> \in timers /\ i \notin due
  /\ due' = due \cup {i}
  /\ UNCHANGED <<durable, grants, issued, timers, superseded, conn, stopped,
                 serving>>

\* The timer runs: it closes the client side of the tunnels it admitted.
ExpireGrant(d, i) ==
  /\ <<d, i>> \in timers /\ i \in due
  /\ timers' = timers \ {<<d, i>>}
  /\ IF grants[d] = i
       THEN grants' = [grants EXCEPT ![d] = 0] /\ client' = CloseClients({i})
       ELSE UNCHANGED <<grants, client>>
  /\ UNCHANGED <<durable, issued, due, superseded, at, dest, adm, out, stopped,
                 serving>>

\* Mutant: a removed destination keeps an id that is none.
RemoveMarks(d) ==
  /\ durable' = [durable EXCEPT ![d] = -1]
  /\ grants' = [grants EXCEPT ![d] = 0]
  /\ CloseTracked({durable[d], grants[d]})
  /\ UNCHANGED <<issued, timers, due, superseded, at, dest, adm, stopped, serving>>

Remove(d) ==
  /\ durable' = [durable EXCEPT ![d] = 0]
  /\ grants' = [grants EXCEPT ![d] = 0]
  /\ CloseTracked({durable[d], grants[d]})
  /\ UNCHANGED <<issued, timers, due, superseded, at, dest, adm, stopped, serving>>

\* Mutant: every tunnel is closed, retained or not.
ReconcileClosesAll(S) ==
  /\ \E f \in [Dests -> 0..MaxAdm], m \in issued..MaxAdm:
       /\ Admits(f, S, durable, issued, m)
       /\ durable' = f /\ issued' = m
  /\ grants' = [d \in Dests |-> 0]
  /\ CloseTracked(Ids)
  /\ UNCHANGED <<timers, due, superseded, at, dest, adm, stopped, serving>>

\* An adopted declaration allows exactly S: retained destinations keep their
\* admission, every grant goes.
Reconcile(S) ==
  /\ \E f \in [Dests -> 0..MaxAdm], m \in issued..MaxAdm:
       /\ Admits(f, S, durable, issued, m)
       /\ durable' = f /\ issued' = m
  /\ grants' = [d \in Dests |-> 0]
  /\ CloseTracked({i \in Ids: ~Current(i, durable', grants')})
  /\ UNCHANGED <<timers, due, superseded, at, dest, adm, stopped, serving>>

-----------------------------------------------------------------------------
Handle(c) ==
  \/ Track(c) \/ CheckHandler(c) \/ Read(c) \/ Allowed(c) \/ Dial(c)
  \/ Bind(c) \/ RelayClosed(c) \/ Untrack(c) \/ Leave(c)

Serve(c) == CheckServe(c) \/ Spawn(c)

Traffic(c) == Accept(c) \/ Serve(c) \/ Handle(c) \/ PeersEnd(c)

Control ==
  \/ \E d \in GrantDests: Grant(d)
  \/ \E d \in Dests: Remove(d)
  \/ \E S \in SUBSET Dests: Reconcile(S)

Clock == \E d \in Dests, i \in Ids: Elapse(d, i) \/ ExpireGrant(d, i)

\* The door of a world: cmd/kenogram serves the listener and the control
\* socket until the process is ended.
Next == Control \/ Clock \/ \E c \in Conns: Traffic(c)

Spec == Init /\ [][Next]_vars

\* Goroutines run; peers, timers and operators owe nothing.
FairSpec == Spec /\ \A c \in Conns: WF_vars(Serve(c) \/ Handle(c))

-----------------------------------------------------------------------------
(* Properties *)

Tunnel(c) == at[c] = "relay" /\ client[c] = "open"

\* Every tunnel that still carries a client was admitted by an entry that is in
\* force, or by a grant that a later Grant of the same destination replaced:
\* policy that changes while a handler resolves and dials is caught by
\* bindAdmission, policy that changes later closes the tunnel.
TunnelsAdmitted ==
  \A c \in Conns:
    Tunnel(c) => Current(adm[c], durable, grants) \/ adm[c] \in superseded

\* "revoke: remove access and close admitted connections", and a temporary
\* grant closes its connections when it ends: a tunnel goes to a destination
\* that is allowed now.
TunnelsAllowed ==
  \A c \in Conns: Tunnel(c) => durable[dest[c]] # 0 \/ grants[dest[c]] # 0

\* Repeating or widening a declaration, a grant, or the end of another grant
\* never cuts a tunnel whose own admission stays in force.
RetainedTunnelsSurvive ==
  [][\A c \in Conns:
       Tunnel(c) /\ at'[c] = "relay" /\ Current(adm[c], durable', grants')
         => client'[c] = "open" /\ out'[c] = out[c]]_vars

\* A tunnel of the declaration's policy whose admission Remove or Reconcile has
\* withdrawn ends, whatever its peers do: both of its connections are closed.
\* (The end of a temporary grant closes the client's side only.)
WithdrawnTunnelsEnd ==
  \A c \in Conns:
    at[c] = "relay" /\ dest[c] \notin GrantDests /\ ~Current(adm[c], durable, grants)
      ~> at[c] # "relay"
=============================================================================
