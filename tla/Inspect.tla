------------------------------- MODULE Inspect -------------------------------
(***************************************************************************)
(* inspect-workspace over the lifecycle of World: under the shared lock it *)
(* refuses a pending transition, reads the digests of all generations and  *)
(* the applied records of history, binds the one to the other, and reports *)
(* changes since a baseline only if whatever record the baseline may have  *)
(* is of the plan that is now in force, by whose loci it attributes them.  *)
(***************************************************************************)
EXTENDS World, Inspection

VARIABLES
  log,    \* the up/applied records of history.jsonl, in order
  made    \* the declaration each generation was committed with

inspectVars == <<vars, log, made>>

InspectInit ==
  /\ Init
  /\ log = <<>>
  /\ made = [g \in Gens |-> None]

\* The log follows the lifecycle's appends and its move to the tombstone.
Logs ==
  log' = IF last' = None THEN <<>>
         ELSE IF logged' # logged THEN Append(log, last') ELSE log

Makes ==
  made' = IF last' = None /\ state' = None /\ tr' = None THEN [g \in Gens |-> None]
          ELSE IF tr' # None /\ tr'.phase = "commit" /\ tr # tr'
            THEN [made EXCEPT ![tr'.succ.gen] = tr'.succ.decl]
          ELSE made

InspectNext == Next /\ Logs /\ Makes

InspectSpec == InspectInit /\ [][InspectNext]_inspectVars

-----------------------------------------------------------------------------
(* The command, which changes nothing *)

\* The transition, state and predecessor of InspectWorkspaceContext.
Authorised(baseline) ==
  /\ tr = None /\ state # None /\ state.status \in {"running", "down"}
  /\ baseline \in 1 .. state.gen
  /\ applied = state.decl /\ plan # None /\ Plan[plan] = Plan[state.decl]

CommittedRoots == [g \in 1 .. state.gen |-> digest[g]]
RecordedRoots == [i \in 1 .. Len(log) |-> log[i].ws]

Binding(baseline) == BindGenerations(CommittedRoots, RecordedRoots, baseline)

\* verifyInspectionHistory.
VerifyHistory(baseline) ==
  /\ log # <<>>
  /\ \A g \in 1 .. state.gen: digest[g] # -1
  /\ Binding(baseline).ok /\ Binding(baseline).records # {}
  /\ log[Len(log)].decl = state.decl
  /\ \A i \in Binding(baseline).records: Plan[log[i].decl] = Plan[state.decl]

Inspects(baseline) == Authorised(baseline) /\ VerifyHistory(baseline)

-----------------------------------------------------------------------------
(* Properties *)

\* "Committed g<N> digests are bound in order to up/applied history": whatever
\* was interrupted, recovered, rolled back or repeated, the evidence that a
\* world keeps between commands explains itself, so its current generation can
\* be inspected.
CurrentInspectable ==
  pc = "idle" /\ tr = None /\ state # None => Inspects(state.gen)

\* A baseline is reported on exactly if every way to give the generations their
\* records, in order and with none left over, gives it one of the plan in force,
\* by whose loci the report attributes changes; and then it was committed with
\* that plan ("rejecting ... ambiguous baseline plans").
AttributionIsExact ==
  pc = "idle" /\ tr = None /\ state # None =>
    LET fs == Explanations(CommittedRoots, RecordedRoots) IN
    \A g \in 1 .. state.gen:
      /\ Inspects(g) <=>
           fs # {} /\ \A f \in fs: Plan[log[f[g]].decl] = Plan[state.decl]
      /\ Inspects(g) => Plan[made[g]] = Plan[state.decl]
=============================================================================
