---------------------------- MODULE ProxyProofs ----------------------------
(***************************************************************************)
(* For any connections, destinations and sequence of policy changes, every *)
(* tunnel of the proxy was admitted by an entry in force (or by a grant    *)
(* that was granted again), and no tunnel is cut whose admission stays.    *)
(* The first is almost inductive: it only needs that a handler past        *)
(* allowed() holds a real admission id.  The second is about steps and     *)
(* needs that an id names one entry.  The last section adds whose entry it *)
(* is: the one of the handler's own destination, for as long as the id is  *)
(* in force; so that withdrawing a destination closes all of its relays.   *)
(***************************************************************************)
EXTENDS Proxy, TLAPS

\* A handler between allowed() and the end of its relay holds an id.
HoldsAdmission ==
  \A c \in Conns: at[c] \in {"dialing", "dialed", "relay"} => adm[c] # 0

\* A request that has been read names a destination.
NamesDestination == \A c \in Conns: at[c] = "asked" => dest[c] \in Dests

ProxyInv == TypeOK /\ HoldsAdmission /\ TunnelsAdmitted

\* closeTracked and expireGrant leave well-typed connections.
LEMMA CloseType ==
  ASSUME TypeOK, NEW I
  PROVE  /\ CloseClients(I) \in [Conns -> {"open", "closed"}]
         /\ CloseOutbounds(I) \in [Conns -> {"none", "open", "closed"}]
BY DEF TypeOK, CloseClients, CloseOutbounds

\* expireLocked leaves a well-typed table of grants.
LEMMA UnexpiredType ==
  ASSUME TypeOK
  PROVE  Unexpired \in [Dests -> 0..MaxAdm]
<1>1. \A d \in Dests: grants[d] \in 0..MaxAdm /\ 0 \in 0..MaxAdm
  BY ProxyConstants DEF TypeOK
<1> QED BY <1>1 DEF Unexpired

\* What a step may do to the tunnels: if each admission that goes out of force
\* is in I or superseded, every tunnel of I is closed, and a new tunnel has an
\* admission in force, then TunnelsAdmitted survives.
LEMMA TunnelStep ==
  ASSUME TypeOK, HoldsAdmission, TunnelsAdmitted, NEW I,
         \A c \in Conns: Tunnel(c)' =>
            \/ Current(adm'[c], durable', grants')
            \/ at[c] = "relay" /\ adm'[c] = adm[c] /\ CloseClients(I)[c] = "open",
         superseded \subseteq superseded',
         \A i \in Ids: Current(i, durable, grants) =>
            \/ Current(i, durable', grants')
            \/ i \in I \/ i \in superseded'
  PROVE  TunnelsAdmitted'
<1> SUFFICES ASSUME NEW c \in Conns, Tunnel(c)',
                    ~Current(adm'[c], durable', grants')
             PROVE  adm'[c] \in superseded'
  BY DEF TunnelsAdmitted
<1>1. at[c] = "relay" /\ adm'[c] = adm[c] /\ CloseClients(I)[c] = "open"
  OBVIOUS
<1>2. adm[c] \in Ids
  BY <1>1, ProxyConstants DEF HoldsAdmission, TypeOK, Ids
<1>3. Bound(c)
  BY <1>1, <1>2 DEF Bound, HoldsAdmission
<1>4. adm[c] \notin I /\ client[c] = "open"
  BY <1>1, <1>3 DEF CloseClients
<1>5. Current(adm[c], durable, grants) \/ adm[c] \in superseded
  BY <1>1, <1>4 DEF TunnelsAdmitted, Tunnel
<1> QED BY <1>1, <1>2, <1>4, <1>5

\* expireLocked, as allowed and bindAdmission call it: the admissions that go
\* are those whose tunnels it closes.
LEMMA ExpireCloses ==
  ASSUME TypeOK, NEW i \in Ids, Current(i, durable, grants)
  PROVE  Current(i, durable, Unexpired) \/ i \in Expired
BY DEF Current, Unexpired, Expired, TypeOK

\* Serve, and the handler steps that leave the policy alone.
LEMMA QuietStep ==
  ASSUME ProxyInv, TypeOK', UNCHANGED policy, NEW c \in Conns,
         \/ Accept(c) \/ Serve(c) \/ PeersEnd(c) \/ Track(c) \/ CheckHandler(c)
         \/ Read(c) \/ Dial(c) \/ RelayClosed(c) \/ Untrack(c) \/ Leave(c)
  PROVE  ProxyInv'
<1>1. \A e \in Conns: at'[e] \in {"dialing", "dialed", "relay"} =>
        /\ at[e] = at'[e] \/ at[e] = "dialing"
        /\ adm'[e] = adm[e] /\ client'[e] = client[e]
        /\ at'[e] = "relay" => at[e] = "relay"
  BY DEF ProxyInv, TypeOK, Accept, Serve, CheckServe, Spawn, PeersEnd, Move,
         Track, CheckHandler, Read, Dial, RelayClosed, Untrack, Leave
<1>2. HoldsAdmission'
  BY <1>1 DEF ProxyInv, HoldsAdmission
<1>3. TunnelsAdmitted'
  BY <1>1 DEF ProxyInv, TunnelsAdmitted, Tunnel, policy
<1> QED BY <1>2, <1>3 DEF ProxyInv

\* The tables of proxy.go keep their types, and no id is issued twice over the
\* bound.
LEMMA StepType ==
  ASSUME TypeOK, NamesDestination, [Next]_vars
  PROVE  TypeOK'
<1> USE DEF TypeOK, Move, InServe, Handling, Tracked
<1>0. 0 \in 0..MaxAdm /\ Ids \subseteq 0..MaxAdm
  BY ProxyConstants DEF Ids
<1>1. CASE UNCHANGED vars
  BY <1>1 DEF vars
<1>2. ASSUME NEW c \in Conns, Accept(c) PROVE TypeOK'
  BY <1>2 DEF Accept, policy
<1>3. ASSUME NEW c \in Conns, CheckServe(c) PROVE TypeOK'
  BY <1>3 DEF CheckServe, policy
<1>4. ASSUME NEW c \in Conns, Spawn(c) PROVE TypeOK'
  BY <1>4 DEF Spawn, policy
<1>5. ASSUME NEW c \in Conns, Track(c) \/ CheckHandler(c) PROVE TypeOK'
  BY <1>5 DEF Track, CheckHandler, policy
<1>6. ASSUME NEW c \in Conns, Read(c) PROVE TypeOK'
  BY <1>6 DEF Read, policy
<1>7. ASSUME NEW c \in Conns, Allowed(c) PROVE TypeOK'
  <2>1. dest[c] \in Dests
    BY <1>7 DEF Allowed, NamesDestination
  <2>2. Admission(dest[c]) \in 0..MaxAdm
    BY <2>1, UnexpiredType DEF Admission
  <2> QED BY <1>7, <2>2, UnexpiredType, CloseType DEF Allowed, CloseTracked
<1>8. ASSUME NEW c \in Conns, Dial(c) PROVE TypeOK'
  BY <1>0, <1>8 DEF Dial, policy
<1>9. ASSUME NEW c \in Conns, Bind(c) PROVE TypeOK'
  BY <1>0, <1>9, UnexpiredType, CloseType DEF Bind, CloseTracked
<1>10. ASSUME NEW c \in Conns, RelayClosed(c) \/ PeersEnd(c) PROVE TypeOK'
  BY <1>10 DEF RelayClosed, PeersEnd, policy
<1>11. ASSUME NEW c \in Conns, Untrack(c) PROVE TypeOK'
  BY <1>11 DEF Untrack, policy
<1>12. ASSUME NEW c \in Conns, Leave(c) PROVE TypeOK'
  BY <1>0, <1>12 DEF Leave, policy
<1>13. ASSUME NEW d \in GrantDests, Grant(d) PROVE TypeOK'
  <2>1. d \in Dests /\ issued + 1 \in Ids
    BY <1>13, ProxyConstants DEF Grant, Ids
  <2>2. {grants[d]} \ {0} \subseteq Ids
    BY <2>1, ProxyConstants DEF Ids
  <2>3. timers' \subseteq Dests \X Ids /\ superseded' \subseteq Ids
    BY <1>13, <2>1, <2>2 DEF Grant
  <2>4. grants' \in [Dests -> 0..MaxAdm] /\ issued' \in 0..MaxAdm
    BY <1>0, <1>13, <2>1 DEF Grant
  <2> QED BY <1>13, <2>3, <2>4 DEF Grant, conn
<1>14. ASSUME NEW d \in Dests, Remove(d) PROVE TypeOK'
  BY <1>0, <1>14, CloseType DEF Remove, CloseTracked
<1>15. ASSUME NEW S \in SUBSET Dests, Reconcile(S) PROVE TypeOK'
  <2>1. issued' \in 0..MaxAdm /\ durable' \in [Dests -> 0..MaxAdm]
    BY <1>15, ProxyConstants DEF Reconcile
  <2> QED BY <1>0, <1>15, <2>1, CloseType DEF Reconcile, CloseTracked
<1>16. ASSUME NEW d \in Dests, NEW i \in Ids, Elapse(d, i) PROVE TypeOK'
  BY <1>16 DEF Elapse, conn
<1>17. ASSUME NEW d \in Dests, NEW i \in Ids, ExpireGrant(d, i) PROVE TypeOK'
  BY <1>0, <1>17, CloseType DEF ExpireGrant
<1> QED
  BY <1>1, <1>2, <1>3, <1>4, <1>5, <1>6, <1>7, <1>8, <1>9, <1>10, <1>11, <1>12,
     <1>13, <1>14, <1>15, <1>16, <1>17
  DEF Next, Control, Clock, Traffic, Serve, Handle

\* Only Read writes a destination, and only Leave forgets one.
LEMMA StepNamesDestination ==
  ASSUME TypeOK, NamesDestination, [Next]_vars
  PROVE  NamesDestination'
<1> USE DEF TypeOK, NamesDestination, Move
<1>1. CASE UNCHANGED vars
  BY <1>1 DEF vars
<1>2. ASSUME NEW c \in Conns, Traffic(c) PROVE NamesDestination'
  BY <1>2 DEF Traffic, Accept, Serve, CheckServe, Spawn, Handle, Track,
     CheckHandler, Read, Allowed, Dial, Bind, RelayClosed, Untrack, Leave, PeersEnd
<1>3. CASE Control \/ Clock
  BY <1>3 DEF Control, Clock, Grant, Remove, Reconcile, Elapse, ExpireGrant, conn
<1> QED BY <1>1, <1>2, <1>3 DEF Next

\* The proxy starts well typed, with no handler that names a destination.
LEMMA InitType == Init => TypeOK /\ NamesDestination
<1> SUFFICES ASSUME Init PROVE TypeOK /\ NamesDestination
  OBVIOUS
<1>1. 0 \in 0..MaxAdm
  BY ProxyConstants
<1>2. durable \in [Dests -> 0..MaxAdm] /\ issued \in 0..MaxAdm
  BY DEF Init
<1> QED BY <1>1, <1>2 DEF Init, TypeOK, NamesDestination, InServe, Handling, Tracked

\* Every state of the proxy is well typed: no admission id leaves its range, and
\* every handler is at a point of handle().
THEOREM ProxyType == Spec => []TypeOK
<1>1. TypeOK /\ NamesDestination /\ [Next]_vars => (TypeOK /\ NamesDestination)'
  BY StepType, StepNamesDestination
<1> QED BY <1>1, InitType, PTL DEF Spec

\* allowed(): expiry closes what it takes out of force.
LEMMA AllowedKeepsInv ==
  ASSUME ProxyInv, TypeOK', NEW c \in Conns, Allowed(c)
  PROVE  ProxyInv'
<1> USE DEF ProxyInv
<1>1. \A e \in Conns: at'[e] = "relay" => at[e] = "relay" /\ adm'[e] = adm[e]
  BY DEF Allowed, Move, TypeOK
<1>2. HoldsAdmission'
  BY DEF HoldsAdmission, Allowed, Move, TypeOK
<1>3. client' = CloseClients(Expired) /\ durable' = durable
        /\ grants' = Unexpired /\ superseded' = superseded
  BY DEF Allowed, CloseTracked
<1>4. \A e \in Conns: Tunnel(e)' =>
        at[e] = "relay" /\ adm'[e] = adm[e] /\ CloseClients(Expired)[e] = "open"
  BY <1>1, <1>3 DEF Tunnel
<1>5. \A i \in Ids: Current(i, durable, grants) =>
        Current(i, durable', grants') \/ i \in Expired
  BY <1>3, ExpireCloses
<1>6. TunnelsAdmitted'
  BY <1>3, <1>4, <1>5, TunnelStep
<1> QED BY <1>2, <1>6

\* bindAdmission(): a tunnel begins only with an admission in force.
LEMMA BindKeepsInv ==
  ASSUME ProxyInv, TypeOK', NEW c \in Conns, Bind(c)
  PROVE  ProxyInv'
<1> USE DEF ProxyInv
<1>1. \A e \in Conns: at'[e] = "relay" =>
        /\ adm'[e] = adm[e]
        /\ at[e] = "relay" \/ Current(adm[e], durable, Unexpired)
  BY DEF Bind, Move, TypeOK, StillCurrent
<1>2. HoldsAdmission'
  BY DEF HoldsAdmission, Bind, Move, TypeOK
<1>3. client' = CloseClients(Expired) /\ durable' = durable
        /\ grants' = Unexpired /\ superseded' = superseded
  BY DEF Bind, CloseTracked
<1>4. \A e \in Conns: Tunnel(e)' =>
        \/ Current(adm'[e], durable', grants')
        \/ at[e] = "relay" /\ adm'[e] = adm[e] /\ CloseClients(Expired)[e] = "open"
  BY <1>1, <1>3 DEF Tunnel
<1>5. \A i \in Ids: Current(i, durable, grants) =>
        Current(i, durable', grants') \/ i \in Expired
  BY <1>3, ExpireCloses
<1>6. TunnelsAdmitted'
  BY <1>3, <1>4, <1>5, TunnelStep
<1> QED BY <1>2, <1>6

\* A step that leaves the handlers alone: TunnelStep for Control and Clock.
LEMMA PolicyStep ==
  ASSUME ProxyInv, TypeOK', UNCHANGED <<at, adm>>, NEW I,
         \A c \in Conns: client'[c] = "open" => CloseClients(I)[c] = "open",
         superseded \subseteq superseded',
         \A i \in Ids: Current(i, durable, grants) =>
            \/ Current(i, durable', grants')
            \/ i \in I \/ i \in superseded'
  PROVE  ProxyInv'
<1> USE DEF ProxyInv
<1>1. HoldsAdmission'
  BY DEF HoldsAdmission
<1>2. \A c \in Conns: Tunnel(c)' =>
        \/ Current(adm'[c], durable', grants')
        \/ at[c] = "relay" /\ adm'[c] = adm[c] /\ CloseClients(I)[c] = "open"
  BY DEF Tunnel
<1>3. TunnelsAdmitted'
  BY <1>2, TunnelStep
<1> QED BY <1>1, <1>3

\* The control operations and the timers close what they withdraw; Grant alone
\* takes an admission out of force without closing its tunnels.
LEMMA PolicyKeepsInv ==
  ASSUME ProxyInv, TypeOK', Control \/ Clock
  PROVE  ProxyInv'
<1>1. \A c \in Conns: client[c] = "open" => CloseClients({})[c] = "open"
  BY DEF CloseClients
<1>2. ASSUME NEW d \in GrantDests, Grant(d) PROVE ProxyInv'
  <2>1. \A i \in Ids: Current(i, durable, grants) =>
          Current(i, durable', grants') \/ i \in superseded'
    BY <1>2, ProxyConstants DEF Current, Grant, ProxyInv, TypeOK, Ids
  <2>2. UNCHANGED <<at, adm, client>> /\ superseded \subseteq superseded'
    BY <1>2 DEF Grant, conn
  <2> QED BY <1>1, <2>1, <2>2, PolicyStep
<1>3. ASSUME NEW d \in Dests, Remove(d) PROVE ProxyInv'
  <2> DEFINE I == {durable[d], grants[d]}
  <2>1. \A i \in Ids: Current(i, durable, grants) =>
          Current(i, durable', grants') \/ i \in I
    BY <1>3 DEF Current, Remove, ProxyInv, TypeOK
  <2>2. /\ UNCHANGED <<at, adm, superseded>>
        /\ client' = CloseClients(I)
    BY <1>3 DEF Remove, CloseTracked
  <2> QED BY <2>1, <2>2, PolicyStep
<1>4. ASSUME NEW S \in SUBSET Dests, Reconcile(S) PROVE ProxyInv'
  <2> DEFINE I == {i \in Ids: ~Current(i, durable', grants')}
  <2>1. /\ UNCHANGED <<at, adm, superseded>>
        /\ client' = CloseClients(I)
    BY <1>4 DEF Reconcile, CloseTracked
  <2>2. \A i \in Ids: Current(i, durable', grants') \/ i \in I
    OBVIOUS
  <2> QED BY <2>1, <2>2, PolicyStep
<1>5. ASSUME NEW d \in Dests, NEW i \in Ids, Elapse(d, i) PROVE ProxyInv'
  <2>1. UNCHANGED <<at, adm, client, superseded, durable, grants>>
    BY <1>5 DEF Elapse, conn
  <2> QED BY <1>1, <2>1, PolicyStep
<1>6. ASSUME NEW d \in Dests, NEW i \in Ids, ExpireGrant(d, i) PROVE ProxyInv'
  <2>1. UNCHANGED <<at, adm, superseded, durable>>
    BY <1>6 DEF ExpireGrant
  <2>2. CASE grants[d] = i
    <3>1. client' = CloseClients({i}) /\ grants' = [grants EXCEPT ![d] = 0]
      BY <1>6, <2>2 DEF ExpireGrant
    <3>2. \A j \in Ids: Current(j, durable, grants) =>
            Current(j, durable', grants') \/ j \in {i}
      BY <2>1, <2>2, <3>1 DEF Current, ProxyInv, TypeOK
    <3> QED BY <2>1, <3>1, <3>2, PolicyStep
  <2>3. CASE grants[d] # i
    <3>1. UNCHANGED <<client, grants>>
      BY <1>6, <2>3 DEF ExpireGrant
    <3> QED BY <1>1, <2>1, <3>1, PolicyStep
  <2> QED BY <2>2, <2>3
<1> QED BY <1>2, <1>3, <1>4, <1>5, <1>6 DEF Control, Clock

\* Every step of the proxy keeps what its tunnels rest on.
LEMMA StepProxyInv ==
  ASSUME ProxyInv, TypeOK', [Next]_vars
  PROVE  ProxyInv'
<1>1. CASE UNCHANGED vars
  BY <1>1 DEF vars, ProxyInv, HoldsAdmission, TunnelsAdmitted, Tunnel
<1>2. CASE Control \/ Clock
  BY <1>2, PolicyKeepsInv
<1>3. ASSUME NEW c \in Conns, Allowed(c) PROVE ProxyInv'
  BY <1>3, AllowedKeepsInv
<1>4. ASSUME NEW c \in Conns, Bind(c) PROVE ProxyInv'
  BY <1>4, BindKeepsInv
<1>5. ASSUME NEW c \in Conns,
             \/ Accept(c) \/ Serve(c) \/ PeersEnd(c) \/ Track(c)
             \/ CheckHandler(c) \/ Read(c) \/ Dial(c) \/ RelayClosed(c)
             \/ Untrack(c) \/ Leave(c)
      PROVE  ProxyInv'
  <2>1. UNCHANGED policy
    BY <1>5 DEF Accept, Serve, CheckServe, Spawn, PeersEnd, Track,
       CheckHandler, Read, Dial, RelayClosed, Untrack, Leave, policy
  <2> QED BY <1>5, <2>1, QuietStep
<1> QED BY <1>1, <1>2, <1>3, <1>4, <1>5 DEF Next, Traffic, Handle

\* A revoked, expired or undeclared destination keeps no tunnel: every tunnel
\* the proxy relays was admitted by an entry in force, except under a grant that
\* a later Grant of the same destination replaced.  The dial that runs without
\* the lock and the policy that changes meanwhile are covered by bindAdmission.
THEOREM TunnelsAreAdmitted == Spec => []TunnelsAdmitted
<1>1. Init /\ TypeOK => ProxyInv
  BY DEF Init, ProxyInv, HoldsAdmission, TunnelsAdmitted, Tunnel
<1>2. ProxyInv /\ TypeOK' /\ [Next]_vars => ProxyInv'
  BY StepProxyInv
<1>3. ProxyInv => TunnelsAdmitted
  BY DEF ProxyInv
<1> QED BY <1>1, <1>2, <1>3, ProxyType, PTL DEF Spec

-----------------------------------------------------------------------------
(* Retained tunnels *)

\* p.admission numbers each entry of the two tables once, the numbers after
\* `issued` being unused: an id names one entry.
OneEntryPerId ==
  /\ \A d \in Dests: durable[d] <= issued /\ grants[d] <= issued
  /\ \A d, e \in Dests:
       /\ durable[d] # 0 => durable[d] # grants[e]
       /\ durable[d] # 0 /\ d # e => durable[d] # durable[e]
       /\ grants[d] # 0 /\ d # e => grants[d] # grants[e]

\* expireLocked only takes entries away.
LEMMA UnexpiredIs ==
  ASSUME TypeOK
  PROVE  \A d \in Dests: Unexpired[d] \in {0, grants[d]}
BY DEF Unexpired

\* A table of grants from which entries have gone names no id twice.
LEMMA FewerGrants ==
  ASSUME TypeOK, OneEntryPerId, UNCHANGED <<durable, issued>>,
         \A d \in Dests: grants'[d] \in {0, grants[d]}
  PROVE  OneEntryPerId'
<1>1. issued \in 0..MaxAdm
  BY DEF TypeOK
<1>2. \A d \in Dests: durable'[d] = durable[d] /\ issued' = issued
        /\ (grants'[d] = 0 \/ grants'[d] = grants[d])
  OBVIOUS
<1>3. \A d \in Dests: durable'[d] <= issued' /\ grants'[d] <= issued'
  BY <1>1, <1>2, ProxyConstants DEF OneEntryPerId
<1> QED BY <1>2, <1>3 DEF OneEntryPerId

\* Reconcile and New number what they add, and keep the number of what they keep.
LEMMA AdmitsOnce ==
  ASSUME TypeOK, OneEntryPerId, NEW S \in SUBSET Dests, Reconcile(S)
  PROVE  OneEntryPerId'
<1> USE DEF TypeOK
<1>1. PICK f \in [Dests -> 0..MaxAdm], m \in issued..MaxAdm:
        Admits(f, S, durable, issued, m) /\ durable' = f /\ issued' = m
  BY DEF Reconcile
<1>2. issued \in Nat /\ m \in Nat /\ issued <= m
  BY <1>1, ProxyConstants
<1>3. \A d \in Dests: grants'[d] = 0
  BY DEF Reconcile
<1>4. \A d \in S: durable[d] = 0 => f[d] \in (issued + 1)..m
  BY <1>1 DEF Admits
<1>5. \A d \in Dests:
        \/ f[d] = 0
        \/ d \in S /\ durable[d] # 0 /\ f[d] = durable[d]
        \/ d \in S /\ durable[d] = 0 /\ f[d] \in (issued + 1)..m
  BY <1>1, <1>4 DEF Admits
<1>6. \A d, e \in S: durable[d] = 0 /\ durable[e] = 0 /\ d # e => f[d] # f[e]
  BY <1>1 DEF Admits
<1>7. \A d \in Dests: durable[d] \in 0..MaxAdm /\ durable[d] <= issued
  BY DEF OneEntryPerId
<1>8. \A d \in Dests: f[d] <= m
  BY <1>2, <1>5, <1>7, ProxyConstants
<1>9. \A d, e \in Dests: f[d] # 0 /\ d # e => f[d] # f[e]
  <2> SUFFICES ASSUME NEW d \in Dests, NEW e \in Dests, f[d] # 0, d # e, f[d] = f[e]
               PROVE  FALSE
    OBVIOUS
  <2>1. CASE durable[d] = 0 /\ durable[e] = 0
    BY <1>5, <1>6, <2>1
  <2>2. CASE durable[d] # 0 /\ durable[e] # 0
    BY <1>2, <1>5, <1>7, <2>2 DEF OneEntryPerId
  <2>3. CASE durable[d] # 0 /\ durable[e] = 0
    BY <1>2, <1>5, <1>7, <2>3, ProxyConstants
  <2>4. CASE durable[d] = 0 /\ durable[e] # 0
    BY <1>2, <1>5, <1>7, <2>4, ProxyConstants
  <2> QED BY <2>1, <2>2, <2>3, <2>4
<1> QED BY <1>1, <1>2, <1>3, <1>8, <1>9 DEF OneEntryPerId

\* No operation of the control socket, no expiry and no handler reuses an id.
LEMMA StepOneEntryPerId ==
  ASSUME TypeOK, OneEntryPerId, [Next]_vars
  PROVE  OneEntryPerId'
<1>1. CASE UNCHANGED policy
  BY <1>1 DEF policy, OneEntryPerId
<1>2. ASSUME NEW c \in Conns, Allowed(c) \/ Bind(c) PROVE OneEntryPerId'
  BY <1>2, UnexpiredIs, FewerGrants DEF Allowed, Bind
<1>3. ASSUME NEW d \in GrantDests, Grant(d) PROVE OneEntryPerId'
  <2>1. d \in Dests /\ issued \in Nat /\ issued' = issued + 1 /\ durable' = durable
    BY <1>3, ProxyConstants DEF Grant, TypeOK
  <2>2. \A e \in Dests: grants'[e] = IF e = d THEN issued + 1 ELSE grants[e]
    BY <1>3, <2>1 DEF Grant, TypeOK
  <2>3. \A e \in Dests: /\ durable[e] \in Nat /\ durable[e] <= issued
                        /\ grants[e] \in Nat /\ grants[e] <= issued
    BY ProxyConstants DEF TypeOK, OneEntryPerId
  <2>4. \A e \in Dests: durable'[e] <= issued' /\ grants'[e] <= issued'
    BY <2>1, <2>2, <2>3
  <2>5. \A e \in Dests: durable[e] # issued + 1 /\ grants[e] # issued + 1
    BY <2>1, <2>3
  <2> QED BY <2>1, <2>2, <2>4, <2>5 DEF OneEntryPerId
<1>4. ASSUME NEW d \in Dests, Remove(d) PROVE OneEntryPerId'
  <2>1. \A e \in Dests: durable'[e] = IF e = d THEN 0 ELSE durable[e]
    BY <1>4 DEF Remove, TypeOK
  <2>2. \A e \in Dests: grants'[e] = IF e = d THEN 0 ELSE grants[e]
    BY <1>4 DEF Remove, TypeOK
  <2>3. issued' = issued /\ issued \in 0..MaxAdm
    BY <1>4 DEF Remove, TypeOK
  <2>4. \A e \in Dests: durable'[e] <= issued' /\ grants'[e] <= issued'
    BY <2>1, <2>2, <2>3, ProxyConstants DEF OneEntryPerId
  <2> QED BY <2>1, <2>2, <2>4 DEF OneEntryPerId
<1>5. ASSUME NEW S \in SUBSET Dests, Reconcile(S) PROVE OneEntryPerId'
  BY <1>5, AdmitsOnce
<1>6. ASSUME NEW d \in Dests, NEW i \in Ids, ExpireGrant(d, i) PROVE OneEntryPerId'
  <2>1. \A e \in Dests: grants'[e] \in {0, grants[e]}
    BY <1>6 DEF ExpireGrant, TypeOK
  <2> QED BY <1>6, <2>1, FewerGrants DEF ExpireGrant
<1>7. ASSUME NEW d \in Dests, NEW i \in Ids, Elapse(d, i) PROVE OneEntryPerId'
  BY <1>7 DEF Elapse, OneEntryPerId
<1>8. ASSUME NEW c \in Conns,
             \/ Accept(c) \/ Serve(c) \/ PeersEnd(c) \/ Track(c)
             \/ CheckHandler(c) \/ Read(c) \/ Dial(c) \/ RelayClosed(c)
             \/ Untrack(c) \/ Leave(c)
      PROVE  UNCHANGED policy
  BY <1>8 DEF Accept, Serve, CheckServe, Spawn, PeersEnd, Track,
     CheckHandler, Read, Dial, RelayClosed, Untrack, Leave, policy
<1>9. CASE UNCHANGED vars
  BY <1>1, <1>9 DEF vars, policy
<1> QED
  BY <1>1, <1>2, <1>3, <1>4, <1>5, <1>6, <1>7, <1>8, <1>9
  DEF Next, Control, Clock, Traffic, Handle

\* New numbers the declared destinations from one.
LEMMA InitOneEntryPerId == Init => OneEntryPerId
<1> SUFFICES ASSUME Init PROVE OneEntryPerId
  OBVIOUS
<1> DEFINE none == [d \in Dests |-> 0]
<1>1. PICK S \in SUBSET Dests, m \in 0..MaxAdm:
        Admits(durable, S, none, 0, m) /\ issued = m
  BY DEF Init
<1>2. {d \in S: none[d] = 0} = S
  OBVIOUS
<1>3. /\ \A d \in Dests \ S: durable[d] = 0
      /\ {durable[d]: d \in S} = (0 + 1)..m
      /\ \A d, e \in S: durable[d] = durable[e] => d = e
  BY <1>1, <1>2 DEF Admits
<1>4. \A d \in S: durable[d] \in 1..m
  BY <1>3
<1>5. \A d \in Dests: grants[d] = 0
  BY DEF Init
<1>6. m \in Nat
  BY <1>1, ProxyConstants
<1>7. \A d \in Dests: durable[d] <= issued /\ grants[d] <= issued
  BY <1>1, <1>3, <1>4, <1>5, <1>6
<1> QED BY <1>3, <1>4, <1>5, <1>7 DEF OneEntryPerId

\* What RetainedTunnelsSurvive says of one step.
Survives ==
  \A c \in Conns:
    Tunnel(c) /\ at'[c] = "relay" /\ Current(adm[c], durable', grants')
      => client'[c] = "open" /\ out'[c] = out[c]

\* A step that closes the tunnels of ids which it takes out of force cuts no
\* other: expireLocked, Remove, Reconcile and the timers.
LEMMA ClosesWithdrawn ==
  ASSUME TypeOK, NEW I,
         \A i \in I: i # 0 => ~Current(i, durable', grants'),
         client' = CloseClients(I),
         out' = out \/ out' = CloseOutbounds(I)
  PROVE  Survives
<1> SUFFICES ASSUME NEW c \in Conns, Tunnel(c), Current(adm[c], durable', grants')
             PROVE  client'[c] = "open" /\ out'[c] = out[c]
  BY DEF Survives
<1>1. ~(Bound(c) /\ adm[c] \in I)
  BY DEF Bound
<1>2. CloseClients(I)[c] = client[c] /\ CloseOutbounds(I)[c] = out[c]
  BY <1>1 DEF CloseClients, CloseOutbounds
<1> QED BY <1>2 DEF Tunnel

\* The ids that expireLocked drops are in force nowhere else.
LEMMA ExpiredAreOut ==
  ASSUME TypeOK, OneEntryPerId
  PROVE  \A i \in Expired: i # 0 => ~Current(i, durable, Unexpired)
<1> SUFFICES ASSUME NEW i \in Expired, i # 0, NEW e \in Dests,
                    durable[e] = i \/ Unexpired[e] = i
             PROVE  FALSE
  BY DEF Current
<1>1. PICK d \in Dests: grants[d] = i
  BY DEF Expired
<1>2. i \in due
  BY DEF Expired
<1>3. durable[e] # i
  BY <1>1 DEF OneEntryPerId
<1>4. Unexpired[e] # i
  BY <1>2 DEF Unexpired
<1> QED BY <1>3, <1>4

\* Every step of the proxy leaves the tunnels alone whose admission stays.
LEMMA StepSurvives ==
  ASSUME TypeOK, OneEntryPerId, Next
  PROVE  Survives
<1> USE DEF TypeOK
<1>1. ASSUME NEW c \in Conns, Allowed(c) \/ Bind(c) PROVE Survives
  BY <1>1, ExpiredAreOut, ClosesWithdrawn DEF Allowed, Bind, CloseTracked
<1>2. ASSUME NEW c \in Conns,
             \/ Accept(c) \/ Serve(c) \/ PeersEnd(c) \/ Track(c)
             \/ CheckHandler(c) \/ Read(c) \/ Dial(c) \/ RelayClosed(c)
             \/ Untrack(c) \/ Leave(c)
      PROVE  Survives
  <2> SUFFICES ASSUME NEW e \in Conns, at[e] = "relay", at'[e] = "relay"
               PROVE  client'[e] = client[e] /\ out'[e] = out[e]
    BY DEF Survives, Tunnel
  <2> QED
    BY <1>2 DEF Accept, Serve, CheckServe, Spawn, PeersEnd, Track, Move,
       CheckHandler, Read, Dial, RelayClosed, Untrack, Leave
<1>3. ASSUME NEW d \in GrantDests, Grant(d) PROVE Survives
  BY <1>3 DEF Grant, conn, Survives, Tunnel
<1>4. ASSUME NEW d \in Dests, Remove(d) PROVE Survives
  <2> DEFINE I == {durable[d], grants[d]}
  <2>1. \A e \in Dests: /\ durable'[e] = IF e = d THEN 0 ELSE durable[e]
                        /\ grants'[e] = IF e = d THEN 0 ELSE grants[e]
    BY <1>4 DEF Remove
  <2>2. \A i \in I: i # 0 => ~Current(i, durable', grants')
    BY <2>1 DEF Current, OneEntryPerId
  <2>3. client' = CloseClients(I) /\ out' = CloseOutbounds(I)
    BY <1>4 DEF Remove, CloseTracked
  <2> HIDE DEF I
  <2> QED BY <2>2, <2>3, ClosesWithdrawn
<1>5. ASSUME NEW S \in SUBSET Dests, Reconcile(S) PROVE Survives
  <2> DEFINE I == {i \in Ids: ~Current(i, durable', grants')}
  <2>1. client' = CloseClients(I) /\ out' = CloseOutbounds(I)
    BY <1>5 DEF Reconcile, CloseTracked
  <2>2. \A i \in I: i # 0 => ~Current(i, durable', grants')
    OBVIOUS
  <2> HIDE DEF I
  <2> QED BY <2>1, <2>2, ClosesWithdrawn
<1>6. ASSUME NEW d \in Dests, NEW i \in Ids, ExpireGrant(d, i) PROVE Survives
  <2>1. CASE grants[d] = i
    <3>1. client' = CloseClients({i}) /\ out' = out /\ durable' = durable
      BY <1>6, <2>1 DEF ExpireGrant
    <3>2. \A e \in Dests: grants'[e] = IF e = d THEN 0 ELSE grants[e]
      BY <1>6, <2>1 DEF ExpireGrant
    <3>3. \A j \in {i}: j # 0 => ~Current(j, durable', grants')
      BY <2>1, <3>1, <3>2 DEF Current, OneEntryPerId
    <3> QED BY <3>1, <3>3, ClosesWithdrawn
  <2>2. CASE grants[d] # i
    BY <1>6, <2>2 DEF ExpireGrant, Survives, Tunnel
  <2> QED BY <2>1, <2>2
<1>7. ASSUME NEW d \in Dests, NEW i \in Ids, Elapse(d, i) PROVE Survives
  BY <1>7 DEF Elapse, conn, Survives, Tunnel
<1> QED
  BY <1>1, <1>2, <1>3, <1>4, <1>5, <1>6, <1>7
  DEF Next, Control, Clock, Traffic, Handle

\* A wider declaration, a repeated one, a grant, or the end of another grant cuts
\* no tunnel whose own admission stays in force: Remove, Reconcile, expireLocked
\* and the timers close by admission id, and an id names one entry.
THEOREM RetainedSurvive == Spec => RetainedTunnelsSurvive
<1> DEFINE Inv == TypeOK /\ NamesDestination /\ OneEntryPerId
<1>1. Init => Inv
  BY InitType, InitOneEntryPerId
<1>2. Inv /\ [Next]_vars => Inv'
  BY StepType, StepNamesDestination, StepOneEntryPerId
<1>3. Inv /\ [Next]_vars => [Survives]_vars
  BY StepSurvives
<1>4. [Survives]_vars => [\A c \in Conns:
         Tunnel(c) /\ at'[c] = "relay" /\ Current(adm[c], durable', grants')
           => client'[c] = "open" /\ out'[c] = out[c]]_vars
  BY DEF Survives
<1> QED BY <1>1, <1>2, <1>3, <1>4, PTL DEF Spec, RetainedTunnelsSurvive
-----------------------------------------------------------------------------
(* The entry of the destination *)

\* A handler that was allowed holds an id of its own destination: no entry of
\* another has it, and none will, since it has been issued.
OwnEntry ==
  \A c \in Conns: at[c] \in {"dialing", "dialed", "relay"} =>
    /\ dest[c] \in Dests /\ adm[c] <= issued
    /\ \A d \in Dests: d # dest[c] => durable[d] # adm[c] /\ grants[d] # adm[c]

\* Temporary grants are for the destinations an operator may allow.
GrantsAllowed == \A d \in Dests: grants[d] # 0 => d \in GrantDests

\* A relay to a destination that only declarations allow is that of its entry, or
\* both of its connections have been closed.
DeclaredOrClosed ==
  \A c \in Conns: at[c] = "relay" /\ dest[c] \notin GrantDests =>
    durable[dest[c]] = adm[c] \/ (client[c] = "closed" /\ out[c] = "closed")

EntryInv ==
  ProxyInv /\ NamesDestination /\ OneEntryPerId /\ OwnEntry /\ GrantsAllowed /\ DeclaredOrClosed

\* Entries stay, go, or come with an id that was never issued before.
LEMMA EntriesAreFresh ==
  ASSUME TypeOK, [Next]_vars
  PROVE  /\ issued' >= issued
         /\ \A d \in Dests: /\ durable'[d] \in {0, durable[d]} \/ durable'[d] > issued
                            /\ grants'[d] \in {0, grants[d]} \/ grants'[d] > issued
<1>0. issued \in Nat /\ issued <= MaxAdm
  BY ProxyConstants DEF TypeOK
<1>1. CASE UNCHANGED policy
  BY <1>0, <1>1 DEF policy
<1>2. ASSUME NEW c \in Conns, Allowed(c) \/ Bind(c) PROVE
        UNCHANGED <<durable, issued>> /\ grants' = Unexpired
  BY <1>2 DEF Allowed, Bind
<1>3. CASE UNCHANGED <<durable, issued>> /\ grants' = Unexpired
  BY <1>0, <1>3, UnexpiredIs
<1>4. ASSUME NEW d \in GrantDests, Grant(d)
      PROVE  /\ issued' >= issued
             /\ \A e \in Dests: durable'[e] = durable[e]
                                /\ (grants'[e] = grants[e] \/ grants'[e] > issued)
  BY <1>0, <1>4 DEF Grant, TypeOK
<1>5. ASSUME NEW d \in Dests, Remove(d)
      PROVE  /\ issued' >= issued
             /\ \A e \in Dests: durable'[e] \in {0, durable[e]} /\ grants'[e] \in {0, grants[e]}
  BY <1>0, <1>5 DEF Remove, TypeOK
<1>6. ASSUME NEW S \in SUBSET Dests, Reconcile(S)
      PROVE  /\ issued' >= issued
             /\ \A e \in Dests: /\ durable'[e] \in {0, durable[e]} \/ durable'[e] > issued
                                /\ grants'[e] = 0
  <2>1. PICK f \in [Dests -> 0..MaxAdm], m \in issued..MaxAdm:
          Admits(f, S, durable, issued, m) /\ durable' = f /\ issued' = m
    BY <1>6 DEF Reconcile
  <2>2. \A e \in Dests: grants'[e] = 0
    BY <1>6 DEF Reconcile
  <2>3. \A e \in S: durable[e] = 0 => f[e] \in (issued + 1)..m
    BY <2>1 DEF Admits
  <2>4. \A e \in Dests: f[e] = 0 \/ f[e] = durable[e] \/ f[e] \in (issued + 1)..m
    BY <2>1, <2>3 DEF Admits
  <2>5. \A n \in (issued + 1)..m: n > issued
    BY <1>0
  <2>6. m >= issued
    BY <1>0, ProxyConstants
  <2> QED BY <2>1, <2>2, <2>4, <2>5, <2>6
<1>7. ASSUME NEW d \in Dests, NEW i \in Ids, ExpireGrant(d, i) \/ Elapse(d, i)
      PROVE  /\ issued' >= issued
             /\ \A e \in Dests: durable'[e] = durable[e] /\ grants'[e] \in {0, grants[e]}
  BY <1>0, <1>7 DEF ExpireGrant, Elapse, TypeOK
<1>8. ASSUME NEW c \in Conns,
             \/ Accept(c) \/ Serve(c) \/ PeersEnd(c) \/ Track(c)
             \/ CheckHandler(c) \/ Read(c) \/ Dial(c) \/ RelayClosed(c)
             \/ Untrack(c) \/ Leave(c)
      PROVE  UNCHANGED policy
  BY <1>8 DEF Accept, Serve, CheckServe, Spawn, PeersEnd, Track,
     CheckHandler, Read, Dial, RelayClosed, Untrack, Leave, policy
<1>9. CASE UNCHANGED vars
  BY <1>1, <1>9 DEF vars, policy
<1> QED
  BY <1>1, <1>2, <1>3, <1>4, <1>5, <1>6, <1>7, <1>8, <1>9
  DEF Next, Control, Clock, Traffic, Handle

\* A handler that holds an admission after a step held it before, for the same
\* destination, or has just been allowed.
LEMMA HandlersKeep ==
  ASSUME TypeOK, [Next]_vars
  PROVE  \A e \in Conns: at'[e] \in {"dialing", "dialed", "relay"} =>
           /\ dest'[e] = dest[e]
           /\ \/ at[e] \in {"dialing", "dialed", "relay"} /\ adm'[e] = adm[e]
              \/ /\ at[e] = "asked" /\ at'[e] = "dialing"
                 /\ Allowed(e) /\ adm'[e] = Admission(dest[e]) /\ adm'[e] # 0
<1> USE DEF TypeOK, Move
<1>1. CASE UNCHANGED vars BY <1>1 DEF vars
<1>2. CASE Control \/ Clock
  BY <1>2 DEF Control, Clock, Grant, Remove, Reconcile, Elapse, ExpireGrant, conn
<1>3. ASSUME NEW c \in Conns, Allowed(c)
      PROVE  \A e \in Conns: at'[e] \in {"dialing", "dialed", "relay"} =>
               /\ dest'[e] = dest[e]
               /\ \/ at[e] \in {"dialing", "dialed", "relay"} /\ adm'[e] = adm[e]
                  \/ /\ at[e] = "asked" /\ at'[e] = "dialing"
                     /\ Allowed(e) /\ adm'[e] = Admission(dest[e]) /\ adm'[e] # 0
  <2>1. /\ at[c] = "asked"
        /\ at' = [at EXCEPT ![c] = IF Admission(dest[c]) # 0 THEN "dialing" ELSE "ending"]
        /\ adm' = [adm EXCEPT ![c] = Admission(dest[c])] /\ dest' = dest
    BY <1>3 DEF Allowed
  <2> QED BY <1>3, <2>1
<1>4. ASSUME NEW c \in Conns,
             \/ Accept(c) \/ Serve(c) \/ PeersEnd(c) \/ Track(c)
             \/ CheckHandler(c) \/ Read(c) \/ Dial(c) \/ Bind(c) \/ RelayClosed(c)
             \/ Untrack(c) \/ Leave(c)
      PROVE  \A e \in Conns: at'[e] \in {"dialing", "dialed", "relay"} =>
               /\ dest'[e] = dest[e]
               /\ at[e] \in {"dialing", "dialed", "relay"} /\ adm'[e] = adm[e]
  BY <1>4 DEF Accept, Serve, CheckServe, Spawn, PeersEnd, Track, CheckHandler, Read, Dial, Bind,
     RelayClosed, Untrack, Leave
<1> QED BY <1>1, <1>2, <1>3, <1>4 DEF Next, Traffic, Handle

\* allowed() takes an id of the destination asked for, and ids are not reused.
LEMMA StepOwnEntry ==
  ASSUME EntryInv, [Next]_vars
  PROVE  OwnEntry'
<1>0. TypeOK /\ HoldsAdmission /\ NamesDestination /\ OneEntryPerId /\ OwnEntry
  BY DEF EntryInv, ProxyInv
<1>a. TypeOK'
  BY <1>0, StepType
<1>1. issued \in Nat /\ issued' \in Nat /\ issued' >= issued
  BY <1>0, <1>a, EntriesAreFresh, ProxyConstants DEF TypeOK
<1>2. SUFFICES ASSUME NEW c \in Conns, at'[c] \in {"dialing", "dialed", "relay"}
               PROVE  /\ dest'[c] \in Dests /\ adm'[c] <= issued'
                      /\ \A d \in Dests: d # dest'[c] =>
                           durable'[d] # adm'[c] /\ grants'[d] # adm'[c]
  BY DEF OwnEntry
<1>3. /\ dest'[c] = dest[c] /\ dest[c] \in Dests
      /\ adm'[c] \in Nat \ {0} /\ adm'[c] <= issued
      /\ \A d \in Dests: d # dest[c] => durable[d] # adm'[c] /\ grants[d] # adm'[c]
  <2>1. CASE at[c] \in {"dialing", "dialed", "relay"} /\ adm'[c] = adm[c]
    <3>1. adm[c] \in Nat /\ adm[c] # 0
      BY <1>0, <2>1, ProxyConstants DEF TypeOK, HoldsAdmission
    <3> QED BY <1>0, <1>2, <2>1, <3>1, HandlersKeep DEF OwnEntry
  <2>2. CASE at[c] = "asked" /\ adm'[c] = Admission(dest[c]) /\ adm'[c] # 0
    <3>1. dest[c] \in Dests
      BY <1>0, <2>2 DEF NamesDestination
    <3>2. adm'[c] = durable[dest[c]] \/ adm'[c] = grants[dest[c]]
      BY <1>0, <2>2, <3>1, UnexpiredIs DEF Admission
    <3>3. durable[dest[c]] \in Nat /\ grants[dest[c]] \in Nat
      BY <1>0, <3>1, ProxyConstants DEF TypeOK
    <3>4. dest'[c] = dest[c]
      BY <1>0, <1>2, HandlersKeep
    <3> QED BY <1>0, <2>2, <3>1, <3>2, <3>3, <3>4 DEF OneEntryPerId
  <2> QED BY <1>0, <1>2, <2>1, <2>2, HandlersKeep
<1>4. \A d \in Dests: /\ durable'[d] \in {0, durable[d]} \/ durable'[d] > issued
                      /\ grants'[d] \in {0, grants[d]} \/ grants'[d] > issued
  BY <1>0, EntriesAreFresh
<1>5. \A n: n > issued => n # adm'[c]
  BY <1>1, <1>3
<1> QED BY <1>1, <1>3, <1>4, <1>5

\* Only Grant adds a temporary entry.
LEMMA StepGrantsAllowed ==
  ASSUME TypeOK, GrantsAllowed, [Next]_vars
  PROVE  GrantsAllowed'
<1>1. ASSUME NEW d \in GrantDests, Grant(d) PROVE GrantsAllowed'
  BY <1>1 DEF Grant, TypeOK, GrantsAllowed
<1>2. CASE \A d \in Dests: grants'[d] \in {0, grants[d]}
  BY <1>2 DEF GrantsAllowed
<1>3. ASSUME NEW c \in Conns, Allowed(c) \/ Bind(c)
      PROVE  \A d \in Dests: grants'[d] \in {0, grants[d]}
  BY <1>3, UnexpiredIs DEF Allowed, Bind
<1>4. ASSUME NEW d \in Dests, Remove(d) PROVE \A e \in Dests: grants'[e] \in {0, grants[e]}
  BY <1>4 DEF Remove, TypeOK
<1>5. ASSUME NEW S \in SUBSET Dests, Reconcile(S)
      PROVE  \A e \in Dests: grants'[e] \in {0, grants[e]}
  BY <1>5 DEF Reconcile
<1>6. ASSUME NEW d \in Dests, NEW i \in Ids, ExpireGrant(d, i) \/ Elapse(d, i)
      PROVE  \A e \in Dests: grants'[e] \in {0, grants[e]}
  BY <1>6 DEF ExpireGrant, Elapse, TypeOK
<1>7. ASSUME NEW c \in Conns,
             \/ Accept(c) \/ Serve(c) \/ PeersEnd(c) \/ Track(c)
             \/ CheckHandler(c) \/ Read(c) \/ Dial(c) \/ RelayClosed(c)
             \/ Untrack(c) \/ Leave(c)
      PROVE  grants' = grants
  BY <1>7 DEF Accept, Serve, CheckServe, Spawn, PeersEnd, Track,
     CheckHandler, Read, Dial, RelayClosed, Untrack, Leave, policy
<1>8. CASE UNCHANGED vars
  BY <1>2, <1>8 DEF vars
<1> QED
  BY <1>1, <1>2, <1>3, <1>4, <1>5, <1>6, <1>7, <1>8
  DEF Next, Control, Clock, Traffic, Handle

\* Remove and Reconcile, which alone withdraw a declared entry, close both
\* connections of its relays, and no step opens a connection of a relay.
LEMMA RelaysClose ==
  ASSUME TypeOK, [Next]_vars,
         NEW c \in Conns, at[c] = "relay", at'[c] = "relay", adm[c] \in Ids,
         NEW d \in Dests, durable[d] = adm[c]
  PROVE  \/ durable'[d] = adm[c]
         \/ client'[c] = "closed" /\ out'[c] = "closed"
         \/ \E e \in Dests \ {d}: durable'[e] = adm[c] \/ grants'[e] = adm[c]
         \/ grants'[d] = adm[c]
<1>0. Bound(c)
  BY ProxyConstants DEF Bound, Ids
<1>1. \A I: adm[c] \in I => CloseClients(I)[c] = "closed" /\ CloseOutbounds(I)[c] = "closed"
  BY <1>0 DEF CloseClients, CloseOutbounds
<1>2. ASSUME NEW e \in Dests, Remove(e)
      PROVE  durable'[d] = adm[c] \/ (client'[c] = "closed" /\ out'[c] = "closed")
  <2>1. client' = CloseClients({durable[e], grants[e]})
        /\ out' = CloseOutbounds({durable[e], grants[e]})
    BY <1>2 DEF Remove, CloseTracked
  <2>2. CASE e = d BY <1>1, <2>1, <2>2
  <2>3. CASE e # d BY <1>2, <2>3 DEF Remove, TypeOK
  <2> QED BY <2>2, <2>3
<1>3. ASSUME NEW S \in SUBSET Dests, Reconcile(S)
      PROVE  \/ Current(adm[c], durable', grants')
             \/ client'[c] = "closed" /\ out'[c] = "closed"
  <2> DEFINE I == {i \in Ids: ~Current(i, durable', grants')}
  <2>1. client' = CloseClients(I) /\ out' = CloseOutbounds(I)
    BY <1>3 DEF Reconcile, CloseTracked
  <2>2. adm[c] \in I \/ Current(adm[c], durable', grants')
    OBVIOUS
  <2> HIDE DEF I
  <2> QED BY <1>1, <2>1, <2>2
<1>4. Current(adm[c], durable', grants') =>
        \/ durable'[d] = adm[c] \/ grants'[d] = adm[c]
        \/ \E e \in Dests \ {d}: durable'[e] = adm[c] \/ grants'[e] = adm[c]
  BY DEF Current
<1>5. CASE UNCHANGED durable
  BY <1>5
<1>6. ASSUME NEW e \in Conns, Traffic(e) PROVE UNCHANGED durable
  BY <1>6 DEF Traffic, Serve, Handle, Accept, CheckServe, Spawn, Track, CheckHandler, Read,
     Allowed, Dial, Bind, RelayClosed, PeersEnd, Untrack, Leave, policy
<1>7. CASE Clock \/ (\E e \in GrantDests: Grant(e)) \/ UNCHANGED vars
  BY <1>7 DEF Clock, Elapse, ExpireGrant, Grant, vars
<1> QED BY <1>2, <1>3, <1>4, <1>5, <1>6, <1>7 DEF Next, Control

\* A relay that goes on keeps closed what was closed.
LEMMA ClosedStays ==
  ASSUME TypeOK, [Next]_vars, NEW c \in Conns, at[c] = "relay", at'[c] = "relay"
  PROVE  client'[c] \in {client[c], "closed"} /\ out'[c] \in {out[c], "closed"}
<1> USE DEF TypeOK, Move
<1>1. \A I: /\ CloseClients(I)[c] \in {client[c], "closed"}
            /\ CloseOutbounds(I)[c] \in {out[c], "closed"}
  BY DEF CloseClients, CloseOutbounds
<1>2. CASE UNCHANGED vars BY <1>2 DEF vars
<1>3. ASSUME NEW e \in Conns, Allowed(e) \/ Bind(e)
      PROVE  client'[c] \in {client[c], "closed"} /\ out'[c] \in {out[c], "closed"}
  BY <1>1, <1>3 DEF Allowed, Bind, CloseTracked
<1>4. ASSUME NEW e \in Conns,
             \/ Accept(e) \/ Serve(e) \/ PeersEnd(e) \/ Track(e)
             \/ CheckHandler(e) \/ Read(e) \/ Dial(e) \/ RelayClosed(e)
             \/ Untrack(e) \/ Leave(e)
      PROVE  client'[c] = client[c] /\ out'[c] = out[c]
  BY <1>4 DEF Accept, Serve, CheckServe, Spawn, PeersEnd, Track, CheckHandler, Read, Dial,
     RelayClosed, Untrack, Leave
<1>5. CASE Control \/ Clock
  BY <1>1, <1>5 DEF Control, Clock, Grant, Remove, Reconcile, Elapse, ExpireGrant, CloseTracked,
     conn
<1> QED BY <1>2, <1>3, <1>4, <1>5 DEF Next, Traffic, Handle

\* bindAdmission starts a relay only under the entry of its destination.
LEMMA StepDeclaredOrClosed ==
  ASSUME EntryInv, OwnEntry', GrantsAllowed', TypeOK', HoldsAdmission', [Next]_vars
  PROVE  DeclaredOrClosed'
<1>0. TypeOK /\ HoldsAdmission /\ OwnEntry /\ GrantsAllowed /\ DeclaredOrClosed
  BY DEF EntryInv, ProxyInv
<1> SUFFICES ASSUME NEW c \in Conns, at'[c] = "relay", dest'[c] \notin GrantDests
             PROVE  \/ durable'[dest'[c]] = adm'[c]
                    \/ client'[c] = "closed" /\ out'[c] = "closed"
  BY DEF DeclaredOrClosed
<1>1. /\ dest'[c] = dest[c] /\ adm'[c] = adm[c]
      /\ at[c] \in {"dialing", "dialed", "relay"}
  BY <1>0, HandlersKeep
<1>2. dest[c] \in Dests /\ adm[c] # 0 /\ adm[c] \in Ids
  BY <1>0, <1>1, ProxyConstants DEF OwnEntry, HoldsAdmission, TypeOK, Ids
<1>3. grants'[dest[c]] = 0 /\ grants[dest[c]] = 0
  BY <1>0, <1>1, <1>2 DEF GrantsAllowed
<1>4. \A e \in Dests \ {dest[c]}: durable'[e] # adm[c] /\ grants'[e] # adm[c]
  BY <1>1 DEF OwnEntry
<1>5. CASE at[c] = "relay"
  <2>1. CASE durable[dest[c]] = adm[c]
    BY <1>0, <1>1, <1>2, <1>3, <1>4, <1>5, <2>1, RelaysClose
  <2>2. CASE client[c] = "closed" /\ out[c] = "closed"
    BY <1>0, <1>5, <2>2, ClosedStays
  <2> QED BY <1>0, <1>1, <1>5, <2>1, <2>2 DEF DeclaredOrClosed
<1>6. CASE at[c] # "relay"
  <2>1. Bind(c)
    <3> USE DEF Move, TypeOK
    <3>1. ASSUME NEW e \in Conns, Traffic(e) PROVE Bind(c)
      <4>1. CASE Bind(e) BY <1>0, <1>6, <4>1 DEF Bind
      <4>2. CASE ~Bind(e)
        BY <1>0, <1>6, <3>1, <4>2 DEF Traffic, Serve, Handle, Accept, CheckServe, Spawn, Track,
           CheckHandler, Read, Allowed, Dial, RelayClosed, PeersEnd, Untrack, Leave
      <4> QED BY <4>1, <4>2
    <3>2. CASE Control \/ Clock \/ UNCHANGED vars
      BY <1>6, <3>2 DEF Control, Clock, Grant, Remove, Reconcile, Elapse, ExpireGrant, conn, vars
    <3> QED BY <3>1, <3>2 DEF Next
  <2>2. durable' = durable /\ Current(adm[c], durable, Unexpired)
    BY <1>0, <2>1 DEF Bind, Move, StillCurrent, TypeOK
  <2>3. \A e \in Dests: Unexpired[e] \in {0, grants[e]}
    BY <1>0, UnexpiredIs
  <2>4. \A e \in Dests \ {dest[c]}: durable[e] # adm[c] /\ grants[e] # adm[c]
    BY <1>0, <1>1 DEF OwnEntry
  <2> QED BY <1>1, <1>2, <1>3, <2>2, <2>3, <2>4 DEF Current
<1> QED BY <1>5, <1>6

\* EntryInv is an invariant of the proxy.
LEMMA EntryInvariant == Spec => []EntryInv
<1>1. Init => EntryInv
  <2> SUFFICES ASSUME Init PROVE EntryInv
    OBVIOUS
  <2>1. TypeOK /\ NamesDestination /\ OneEntryPerId
    BY InitType, InitOneEntryPerId
  <2> QED BY <2>1 DEF Init, EntryInv, ProxyInv, HoldsAdmission, TunnelsAdmitted, Tunnel,
        OwnEntry, GrantsAllowed, DeclaredOrClosed
<1>2. EntryInv /\ [Next]_vars => EntryInv'
  <2> SUFFICES ASSUME EntryInv, [Next]_vars PROVE EntryInv'
    OBVIOUS
  <2>0. TypeOK /\ NamesDestination /\ OneEntryPerId /\ GrantsAllowed /\ ProxyInv
    BY DEF EntryInv, ProxyInv
  <2>1. TypeOK' /\ NamesDestination' /\ OneEntryPerId' /\ GrantsAllowed'
    BY <2>0, StepType, StepNamesDestination, StepOneEntryPerId, StepGrantsAllowed
  <2>2. ProxyInv'
    BY <2>0, <2>1, StepProxyInv
  <2>3. OwnEntry'
    BY StepOwnEntry
  <2>4. DeclaredOrClosed'
    BY <2>1, <2>2, <2>3, StepDeclaredOrClosed DEF ProxyInv
  <2> QED BY <2>1, <2>2, <2>3, <2>4 DEF EntryInv
<1> QED BY <1>1, <1>2, PTL DEF Spec

\* A tunnel relays under the entry of the destination it was asked for, not of any
\* other that came to be in force meanwhile, or under a superseded grant.
AdmittedForItsDestination ==
  \A c \in Conns: Tunnel(c) =>
    \/ durable[dest[c]] = adm[c] \/ grants[dest[c]] = adm[c]
    \/ adm[c] \in superseded

\* A relay of the declaration's policy whose admission is withdrawn has both of
\* its connections closed, so its handler ends without its peers.
WithdrawnAreClosed ==
  \A c \in Conns:
    at[c] = "relay" /\ dest[c] \notin GrantDests /\ ~Current(adm[c], durable, grants)
      => client[c] = "closed" /\ out[c] = "closed"

\* An admission id taken before the dial names the entry of the destination that
\* was dialed for as long as anything holds it: ids are not reused.
THEOREM TunnelsAreOfTheirDestination == Spec => []AdmittedForItsDestination
<1>1. EntryInv => AdmittedForItsDestination
  BY DEF EntryInv, ProxyInv, TunnelsAdmitted, Current, OwnEntry, Tunnel,
     AdmittedForItsDestination
<1> QED BY <1>1, EntryInvariant, PTL

\* What Remove and Reconcile withdraw they close on both sides, the relays that a
\* dial in progress was about to start included.
THEOREM WithdrawalCloses == Spec => []WithdrawnAreClosed
<1>1. EntryInv => WithdrawnAreClosed
  BY DEF EntryInv, DeclaredOrClosed, OwnEntry, Current, WithdrawnAreClosed
<1> QED BY <1>1, EntryInvariant, PTL
=============================================================================
