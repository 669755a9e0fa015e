-------------------------------- MODULE Door --------------------------------
(***************************************************************************)
(* The egress of a governed job from the acquisition of its listener       *)
(* (startEgress over Netns) to its evidence (stopEgress over Egress), with *)
(* what the handlers of the proxy record on the way: one counter per       *)
(* outcome and the bounded diagnostic buffer of                            *)
(* internal/proxy/diagnostics.go.  A handler never waits for the buffer:   *)
(* one that finds it locked counts its record as omitted.                  *)
(***************************************************************************)
EXTENDS Egress, Netns, Sequences, Folds

CONSTANTS
  Sizes,            \* encoded sizes of a diagnostic
  MaxEvents,        \* MaxDiagnosticLimit
  MaxBytes,         \* MaxDiagnosticBytes
  MaxOpened         \* bound on the connections of a behaviour

ASSUME DoorConstants ==
  /\ IsFiniteSet(Conns)
  /\ Sizes \subseteq Nat /\ MaxEvents \in Nat /\ MaxBytes \in Nat /\ MaxOpened \in Nat

VARIABLES
  rec,        \* per handler: "no" record due, "due", or "locked" the buffer
  counted,    \* accepted + refused + dialFailed
  events,     \* the sizes of the retained diagnostics, oldest first
  omitted,    \* evicted, or too large
  contended,  \* lost to a locked buffer
  evidence,   \* the summary of the evidence: what it retains and omits
  opened      \* connections so far

diagnostics == <<rec, counted, events, omitted, contended, evidence, opened>>
dvars == <<evars, nvars, diagnostics>>

NoSummary == [counted |-> 0, retained |-> 0, omitted |-> 0]

Counts == 0..MaxOpened

DoorTypeOK ==
  /\ EgressTypeOK /\ NetnsTypeOK
  /\ rec \in [Conns -> {"no", "due", "locked"}]
  /\ counted \in Counts /\ omitted \in Counts /\ contended \in Counts
  /\ events \in Seq(Sizes) /\ Len(events) <= MaxEvents
  /\ evidence \in [counted: Counts, retained: Counts, omitted: Counts]
  /\ opened \in 0..MaxOpened

DoorInit ==
  /\ EgressInit /\ NetnsInit
  /\ rec = [c \in Conns |-> "no"]
  /\ counted = 0 /\ events = <<>> /\ omitted = 0 /\ contended = 0
  /\ evidence = NoSummary /\ opened = 0

Total(s) == MapThenFoldSet(+, 0, LAMBDA i: s[i], LAMBDA S: CHOOSE i \in S: TRUE, DOMAIN s)

-----------------------------------------------------------------------------
(* Recording *)

\* The step decides what becomes of c's request: refused by the policy, not
\* dialed, or bound and about to be relayed.
Decides(c) ==
  \/ at[c] \in {"asked", "dialing"} /\ at'[c] = "ending"
  \/ at[c] = "dialed" /\ at'[c] = "relay"

\* A handler with a record due does nothing else first.
Observe ==
  /\ \A c \in Conns: rec[c] # "no" => at'[c] = at[c]
  /\ rec' = [c \in Conns |-> IF Decides(c) THEN "due" ELSE rec[c]]
  /\ counted' = counted + Cardinality({c \in Conns: Decides(c)})
  /\ opened' = opened + Cardinality({c \in Conns: at[c] = "idle" /\ at'[c] # "idle"})
  /\ opened' <= MaxOpened
  /\ UNCHANGED <<events, omitted, contended>>

Locked == \E c \in Conns: rec[c] = "locked"

\* Mutant: a handler that cannot lock the buffer forgets its record.
TryLockForgets(c) ==
  /\ rec[c] = "due"
  /\ rec' = [rec EXCEPT ![c] = IF Locked THEN "no" ELSE "locked"]
  /\ UNCHANGED <<evars, nvars, counted, events, omitted, contended, evidence, opened>>

TryLock(c) ==
  /\ rec[c] = "due"
  /\ rec' = [rec EXCEPT ![c] = IF Locked THEN "no" ELSE "locked"]
  /\ contended' = IF Locked THEN contended + 1 ELSE contended
  /\ UNCHANGED <<evars, nvars, counted, events, omitted, evidence, opened>>

Fits(s) == Len(s) <= MaxEvents /\ Total(s) <= MaxBytes

Newest(s, n) == SubSeq(s, Len(s) - n + 1, Len(s))

\* The oldest records go one by one until the newest n fit.
Retains(s, n) == Fits(Newest(s, n)) /\ \A m \in (n + 1)..Len(s): ~Fits(Newest(s, m))

Store(c) ==
  /\ rec[c] = "locked"
  /\ rec' = [rec EXCEPT ![c] = "no"]
  /\ \E size \in Sizes:
       LET all == Append(events, size) IN
       IF size > MaxBytes
         THEN omitted' = omitted + 1 /\ UNCHANGED events
         ELSE \E n \in 0..Len(all):
                /\ Retains(all, n)
                /\ events' = Newest(all, n) /\ omitted' = omitted + Len(all) - n
  /\ UNCHANGED <<evars, nvars, counted, contended, evidence, opened>>

\* snapshot, asked for no more than limit records of maxBytes together: the
\* newest that are no more than that.
Snapshot(limit, maxBytes) ==
  LET kept == {n \in 0..Len(events): n <= limit /\ Total(Newest(events, n)) <= maxBytes} IN
  \E n \in kept:
    /\ \A m \in kept: m <= n
    /\ evidence' = [counted |-> counted, retained |-> n,
                    omitted |-> omitted + contended + Len(events) - n]

\* Summary is taken when an attempt has found no handler left.
Summarise ==
  IF fin = "summary" THEN Snapshot(MaxEvents, MaxBytes) ELSE UNCHANGED evidence

-----------------------------------------------------------------------------
\* startEgress goes on with the listener: the call has returned, and what it
\* held and who has the pid no longer matter.
StartServing ==
  /\ step = "got" /\ kind = "listener"
  /\ step' = "serving"
  /\ holder' = 0 /\ procs' = 1 /\ container' = 0
  /\ seen' = 0 /\ dir' = 0 /\ user' = 0 /\ net' = 0
  /\ UNCHANGED <<kind, transfer, expired, doomed, evars, diagnostics>>

Ready == step = "serving"

Lift(A) == Ready /\ A /\ Observe /\ Summarise /\ UNCHANGED nvars

Acquire(A) == Acquiring /\ A /\ UNCHANGED <<evars, diagnostics>>

Record(c) == TryLock(c) \/ Store(c)

DoorNext ==
  \/ Acquire(NetnsNext) \/ StartServing
  \/ Lift(EgressNext)
  \/ \E c \in Conns: Record(c)

DoorSpec == DoorInit /\ [][DoorNext]_dvars

\* Threads that are running go on: Serve, the handlers, and a call of stopEgress
\* that has begun.  That it is called, and when its context ends, is open.
DoorFairSpec ==
  /\ DoorSpec
  /\ \A c \in Conns:
       WF_dvars(Lift((Serve(c) \/ Handle(c)) /\ UNCHANGED egress) \/ Record(c))
  /\ WF_dvars(Lift(ServeReturn)) /\ WF_dvars(Lift(Finish))

-----------------------------------------------------------------------------
(* Properties *)

\* "diagnostic loss is reported honestly": the evidence of a joined egress
\* accounts for every request that was decided, retained or omitted, also those
\* whose handlers met at the buffer and those that were evicted.
EvidenceAccounts ==
  fin = "done" =>
    /\ evidence.counted = counted
    /\ evidence.retained + evidence.omitted = counted
=============================================================================
