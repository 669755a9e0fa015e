----------------------------- MODULE Inspection -----------------------------
(***************************************************************************)
(* bindInspectionGenerations of internal/app/workspace_inspection.go: which *)
(* applied records of history may stand for which committed generation.    *)
(* Generations and records are matched by workspace root, run by run,      *)
(* because AppendOnce omits a record that repeats the one before it.       *)
(***************************************************************************)
EXTENDS Integers, Sequences

\* The first position after the run of equal values that begins at i.
RunEnd(s, i) ==
  CHOOSE j \in i + 1 .. Len(s) + 1:
    /\ \A k \in i .. j - 1: s[k] = s[i]
    /\ j <= Len(s) => s[j] # s[i]

Larger(m, n) == IF m < n THEN n ELSE m
Smaller(m, n) == IF m < n THEN m ELSE n

\* Mutant: the records of a run belong to its first generations.
FirstRecords(position, generations, records) == {Smaller(records - 1, position)}

\* Offsets of the records a generation of a run may have, each record being at
\* least one generation's and their order kept.
Candidates(position, generations, records) ==
  Larger(0, records - (generations - position)) .. Smaller(records - 1, position)

Unbound == [ok |-> FALSE, records |-> {}]

\* The loop is at generation h[1] and record h[2], given by the roots of both;
\* NextHead is where it goes from there.
Heads(roots, marks) == (1 .. Len(roots) + 1) \X (1 .. Len(marks) + 1)
NextHead(roots, marks, h) == <<RunEnd(roots, h[1]), RunEnd(marks, h[2])>>

\* One turn of the loop at h, if what remains after it is bound to `rest`.
Turn(roots, marks, baseline, h, rest) ==
  LET g == h[1]
      r == h[2]
      gEnd == RunEnd(roots, g)
      rEnd == RunEnd(marks, r)
      here == IF baseline \notin g .. gEnd - 1 THEN {}
              ELSE {r + c : c \in Candidates(baseline - g, gEnd - g, rEnd - r)}
  IN IF g > Len(roots) /\ r > Len(marks) THEN [ok |-> TRUE, records |-> {}]
     ELSE IF g > Len(roots) \/ r > Len(marks) THEN Unbound
     ELSE IF roots[g] # marks[r] \/ rEnd - r > gEnd - g \/ ~rest.ok THEN Unbound
     ELSE [ok |-> TRUE, records |-> here \cup rest.records]

\* The loop from each of its positions on.
BindFrom(roots, marks, baseline) ==
  LET bind[h \in Heads(roots, marks)] ==
        Turn(roots, marks, baseline, h, bind[NextHead(roots, marks, h)])
  IN bind

BindGenerations(roots, marks, baseline) ==
  IF Len(marks) > Len(roots) THEN Unbound
  ELSE BindFrom(roots, marks, baseline)[<<1, 1>>]

\* What the binding stands for: every way to give each generation a record of
\* its root so that records keep their order and none is left over.
Explanations(roots, marks) ==
  {f \in [1 .. Len(roots) -> 1 .. Len(marks)]:
     /\ f[1] = 1 /\ f[Len(roots)] = Len(marks)
     /\ \A g \in 1 .. Len(roots): roots[g] = marks[f[g]]
     /\ \A g \in 2 .. Len(roots): f[g] \in {f[g - 1], f[g - 1] + 1}}
=============================================================================
