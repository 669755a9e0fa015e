--------------------------- MODULE InspectProofs ---------------------------
(***************************************************************************)
(* What bindInspectionGenerations computes, for all sequences of roots,    *)
(* and that a world can be inspected between commands and is attributed    *)
(* the right plan, for any declarations, number of generations, crashes,   *)
(* reboots, exits and any failing host call that is Handled.               *)
(*                                                                         *)
(* The first part is induction over data: the loop goes from run to run,   *)
(* so it is shown for the suffixes of both sequences, the shortest first,  *)
(* with the least element of a set of natural numbers (Least) in place of  *)
(* an induction rule.  The second part adds to the invariant of module     *)
(* LifecycleProofs that there always is a way to give the generations that *)
(* are recorded their records, the last of which AppendOnce compares with. *)
(***************************************************************************)
EXTENDS Inspect, LifecycleProofs, FiniteSetTheorems

-----------------------------------------------------------------------------
(* Induction *)

\* A set of natural numbers has a least element: induction, over the set of
\* counterexamples.
LEMMA Least ==
  ASSUME NEW T, T \subseteq Nat, T # {}
  PROVE  \E x \in T: \A y \in T: x <= y
<1> DEFINE R == StrictSubsetOrdering(Nat)
           W == {0 .. x : x \in T}
<1>1. W \subseteq FiniteSubsetsOf(Nat)
  <2> SUFFICES ASSUME NEW x \in T PROVE 0 .. x \in FiniteSubsetsOf(Nat)
    OBVIOUS
  <2>1. IsFiniteSet(0 .. x)
    BY FS_Interval
  <2> QED BY <2>1 DEF FiniteSubsetsOf
<1>2. W # {}
  OBVIOUS
<1>3. PICK w \in W: \A v \in W: ~(<<v, w>> \in R)
  BY <1>1, <1>2, WFMin, FS_StrictSubsetOrderingWellFounded
<1>4. PICK x \in T: w = 0 .. x
  OBVIOUS
<1>5. ASSUME NEW y \in T, y < x PROVE FALSE
  <2>0. x \in Nat /\ y \in Nat
    OBVIOUS
  <2>1. 0 .. y \in W
    OBVIOUS
  <2>2. 0 .. y \subseteq 0 .. x /\ x \in 0 .. x /\ x \notin 0 .. y
    BY <2>0, <1>5
  <2>3. <<0 .. y, 0 .. x>> \in R
    BY <2>0, <2>2 DEF StrictSubsetOrdering
  <2> QED BY <1>3, <1>4, <2>1, <2>3
<1>6. \A y \in T: ~(y < x)
  BY <1>5
<1> QED BY <1>6

\* The runs of equal roots exist and have an end.
LEMMA RunEnds ==
  ASSUME NEW s, Len(s) \in Nat, NEW i \in 1 .. Len(s)
  PROVE  /\ RunEnd(s, i) \in i + 1 .. Len(s) + 1
         /\ \A k \in i .. RunEnd(s, i) - 1: s[k] = s[i]
         /\ RunEnd(s, i) <= Len(s) => s[RunEnd(s, i)] # s[i]
<1> DEFINE n == Len(s)
           T == {j \in i + 1 .. n + 1: j = n + 1 \/ s[j] # s[i]}
<1>1. T \subseteq Nat /\ n + 1 \in T
  OBVIOUS
<1>2. PICK x \in T: \A y \in T: x <= y
  BY <1>1, Least
<1>3. \A k \in i .. x - 1: s[k] = s[i]
  BY <1>2
<1>4. x \in i + 1 .. n + 1 /\ (x <= n => s[x] # s[i])
  OBVIOUS
<1> HIDE DEF T
<1> QED BY <1>3, <1>4 DEF RunEnd

\* j is where the run that begins at i ends.
IsEnd(s, i, j) ==
  /\ j \in i + 1 .. Len(s) + 1
  /\ \A k \in i .. j - 1: s[k] = s[i]
  /\ j <= Len(s) => s[j] # s[i]

-----------------------------------------------------------------------------

\* Ways to give the generations from g on the records from r on.
Suffixes(roots, marks, g, r) ==
  {f \in [g .. Len(roots) -> r .. Len(marks)]:
     /\ f[g] = r /\ f[Len(roots)] = Len(marks)
     /\ \A x \in g .. Len(roots): roots[x] = marks[f[x]]
     /\ \A x \in g + 1 .. Len(roots): f[x] \in {f[x - 1], f[x - 1] + 1}}

\* The parts that make one of them.
LEMMA IsSuffix ==
  ASSUME NEW roots, NEW marks, NEW g, NEW r,
         NEW f \in [g .. Len(roots) -> r .. Len(marks)],
         f[g] = r, f[Len(roots)] = Len(marks),
         \A x \in g .. Len(roots): roots[x] = marks[f[x]],
         \A x \in g + 1 .. Len(roots): f[x] \in {f[x - 1], f[x - 1] + 1}
  PROVE  f \in Suffixes(roots, marks, g, r)
BY Zenon DEF Suffixes

\* What a candidate is, in one line.
LEMMA CandidateIs ==
  ASSUME NEW q \in Int, NEW N \in Int, NEW K \in Int, NEW c \in Int
  PROVE  c \in Candidates(q, N, K) <=> 0 <= c /\ K - (N - q) <= c /\ c <= K - 1 /\ c <= q
BY DEF Candidates, Larger, Smaller

\* Such a function never falls, and never climbs faster than its argument.
LEMMA Climbs ==
  ASSUME NEW roots, NEW marks, Len(roots) \in Nat, Len(marks) \in Nat,
         NEW g \in 1 .. Len(roots), NEW r \in 1 .. Len(marks),
         NEW f \in Suffixes(roots, marks, g, r),
         NEW x \in g .. Len(roots), NEW y \in x .. Len(roots)
  PROVE  f[x] <= f[y] /\ f[y] <= f[x] + (y - x)
<1> DEFINE n == Len(roots)
           T == {z \in x .. n: ~(f[x] <= f[z] /\ f[z] <= f[x] + (z - x))}
<1>0. /\ \A z \in g .. n: f[z] \in Int
      /\ \A z \in g + 1 .. n: f[z] \in {f[z - 1], f[z - 1] + 1}
  <2>1. /\ f \in [g .. n -> r .. Len(marks)]
        /\ \A z \in g + 1 .. n: f[z] \in {f[z - 1], f[z - 1] + 1}
    BY DEF Suffixes
  <2> QED BY <2>1
<1>1. ASSUME T # {} PROVE FALSE
  <2>1. T \subseteq Nat
    OBVIOUS
  <2>2. PICK z \in T: \A w \in T: z <= w
    BY <1>1, <2>1, Least
  <2>3. z \in x .. n /\ z \in Int /\ z # x
    BY <1>0
  <2>4. z - 1 \in x .. n /\ z - 1 \notin T
    BY <2>2, <2>3
  <2>5. f[x] <= f[z - 1] /\ f[z - 1] <= f[x] + (z - 1 - x)
    BY <2>4
  <2>6. /\ f[z] = f[z - 1] \/ f[z] = f[z - 1] + 1
        /\ f[z - 1] \in Int /\ f[x] \in Int /\ f[z] \in Int /\ x \in Int
    BY <1>0, <2>3, <2>4
  <2>7. ~(f[x] <= f[z] /\ f[z] <= f[x] + (z - x))
    BY <2>2
  <2>8. \A a, b, c, d, e \in Int:
          a <= b /\ b <= a + (d - 1 - e) /\ (c = b \/ c = b + 1) => a <= c /\ c <= a + (d - e)
    OBVIOUS
  <2> QED BY <2>3, <2>5, <2>6, <2>7, <2>8
<1> QED BY <1>1

\* f gives the runs that end at G and R to each other and the rest to the rest.
Splits(roots, marks, g, r, G, R, f) ==
  /\ roots[g] = marks[r]
  /\ R - r <= G - g
  /\ G > Len(roots) <=> R > Len(marks)
  /\ \A x \in g .. G - 1: f[x] - r \in Candidates(x - g, G - g, R - r)
  /\ G <= Len(roots) =>
       [x \in G .. Len(roots) |-> f[x]] \in Suffixes(roots, marks, G, R)

\* In any of them the first run of generations takes the first run of records,
\* each generation one of its candidates; the rest takes the rest.
LEMMA FirstRun ==
  ASSUME NEW roots, NEW marks, Len(roots) \in Nat, Len(marks) \in Nat,
         NEW g \in 1 .. Len(roots), NEW r \in 1 .. Len(marks),
         NEW f \in Suffixes(roots, marks, g, r),
         NEW G \in Int, IsEnd(roots, g, G), NEW R \in Int, IsEnd(marks, r, R)
  PROVE  Splits(roots, marks, g, r, G, R, f)
<1> DEFINE n == Len(roots)
           m == Len(marks)
<1>g. /\ G \in g + 1 .. n + 1 /\ \A k \in g .. G - 1: roots[k] = roots[g]
      /\ G <= n => roots[G] # roots[g]
  BY DEF IsEnd
<1>r. /\ R \in r + 1 .. m + 1 /\ \A k \in r .. R - 1: marks[k] = marks[r]
      /\ R <= m => marks[R] # marks[r]
  BY DEF IsEnd
<1>i. G \in Int /\ R \in Int /\ g \in Int /\ r \in Int /\ n \in Int /\ m \in Int
  BY <1>g, <1>r
<1>f. /\ f \in [g .. n -> r .. m] /\ f[g] = r /\ f[n] = m
      /\ \A x \in g .. n: roots[x] = marks[f[x]]
      /\ \A x \in g + 1 .. n: f[x] \in {f[x - 1], f[x - 1] + 1}
  BY DEF Suffixes
<1>t. \A x \in g .. n: f[x] \in r .. m /\ f[x] \in Int
  BY <1>f
<1>1. roots[g] = marks[r]
  BY <1>f, <1>i
<1>2. \A x \in g .. G - 1: f[x] <= R - 1
  <2> DEFINE T == {x \in g .. G - 1: ~(f[x] <= R - 1)}
  <2>1. ASSUME T # {} PROVE FALSE
    <3>1. T \subseteq Nat
      BY <1>i
    <3>2. PICK z \in T: \A w \in T: z <= w
      BY <2>1, <3>1, Least
    <3>0. f[g] <= R - 1
      BY <1>f, <1>r, <1>i
    <3>3. z \in g .. G - 1 /\ z \in Int /\ z \in g .. n /\ z # g /\ ~(f[z] <= R - 1)
      BY <1>g, <1>i, <3>0, <3>2
    <3>4. z - 1 \in g .. G - 1 /\ z - 1 \notin T /\ z - 1 \in g .. n /\ z \in g + 1 .. n
      BY <1>i, <1>g, <3>2, <3>3
    <3>5. f[z - 1] <= R - 1 /\ f[z - 1] \in Int /\ f[z] \in Int /\ f[z] \in r .. m
      BY <3>3, <3>4, <1>t
    <3>6. f[z] = f[z - 1] \/ f[z] = f[z - 1] + 1
      BY <3>4, <1>f
    <3>7. f[z] = R
      <4>1. \A a, b \in Int: a <= R - 1 /\ (b = a \/ b = a + 1) /\ ~(b <= R - 1) => b = R
        BY <1>i
      <4> QED BY <3>3, <3>5, <3>6, <4>1
    <3>8. marks[R] = marks[r] /\ R <= m
      BY <3>3, <3>7, <3>5, <1>f, <1>g, <1>1, <1>i
    <3> QED BY <3>8, <1>r
  <2> QED BY <2>1
<1>3. \A x \in g .. G - 1: f[x] \in r .. R - 1
  BY <1>2, <1>t, <1>g, <1>i
<1>4. G - 1 \in g .. n /\ f[G - 1] \in r .. R - 1 /\ f[G - 1] \in Int
  BY <1>3, <1>g, <1>t, <1>i
<1>5. G <= n => f[G] = R /\ f[G - 1] = R - 1
  <2> SUFFICES ASSUME G <= n PROVE f[G] = R /\ f[G - 1] = R - 1
    OBVIOUS
  <2>1. G \in g .. n /\ G \in g + 1 .. n /\ f[G] \in Int /\ f[G] \in r .. m
    BY <1>g, <1>t, <1>i
  <2>2. f[G] = f[G - 1] \/ f[G] = f[G - 1] + 1
    BY <2>1, <1>f
  <2>3. marks[f[G]] # marks[r]
    BY <2>1, <1>f, <1>1, <1>g
  <2>4. f[G] \notin r .. R - 1
    BY <2>3, <1>r
  <2>5. \A a, b \in Int: a \in r .. R - 1 /\ (b = a \/ b = a + 1) /\ b \notin r .. R - 1
                         => b = R /\ a = R - 1
    BY <1>i
  <2> QED BY <2>1, <2>2, <2>4, <2>5, <1>4
<1>6. G > n => R = m + 1 /\ f[G - 1] = R - 1
  <2>1. G > n => G - 1 = n
    BY <1>g, <1>i
  <2>2. \A a \in r .. R - 1: a = m => R = m + 1 /\ a = R - 1
    BY <1>r, <1>i
  <2> QED BY <2>1, <2>2, <1>4, <1>f
<1>7. f[G - 1] = R - 1
  BY <1>5, <1>6, <1>i
<1>8. \A x \in g .. G - 1: /\ R - 1 <= f[x] + (G - 1 - x) /\ f[x] <= r + (x - g)
                           /\ f[x] \in Int /\ r <= f[x] /\ f[x] <= R - 1
  <2> SUFFICES ASSUME NEW x \in g .. G - 1
               PROVE  /\ R - 1 <= f[x] + (G - 1 - x) /\ f[x] <= r + (x - g)
                      /\ f[x] \in Int /\ r <= f[x] /\ f[x] <= R - 1
    OBVIOUS
  <2>1. x \in g .. n /\ G - 1 \in x .. n /\ g \in g .. n /\ x \in g .. n
    BY <1>g, <1>i
  <2>2. f[G - 1] <= f[x] + (G - 1 - x)
    BY <2>1, Climbs
  <2>3. f[x] <= f[g] + (x - g)
    BY <2>1, Climbs
  <2>4. f[x] \in Int /\ f[x] \in r .. R - 1
    BY <2>1, <1>3, <1>t
  <2> QED BY <2>2, <2>3, <2>4, <1>7, <1>f, <1>i
<1>9. R - r <= G - g
  <2>1. g \in g .. G - 1
    BY <1>g, <1>i
  <2>2. R - 1 <= f[g] + (G - 1 - g)
    BY <2>1, <1>8
  <2> QED BY <2>2, <1>f, <1>i
<1>10. \A x \in g .. G - 1: f[x] - r \in Candidates(x - g, G - g, R - r)
  <2> SUFFICES ASSUME NEW x \in g .. G - 1 PROVE f[x] - r \in Candidates(x - g, G - g, R - r)
    OBVIOUS
  <2>1. x \in Int /\ f[x] \in Int /\ R - 1 <= f[x] + (G - 1 - x) /\ f[x] <= r + (x - g)
        /\ r <= f[x] /\ f[x] <= R - 1
    BY <1>8, <1>i
  <2>2. ASSUME NEW a \in Int, R - 1 <= a + (G - 1 - x), a <= r + (x - g), r <= a, a <= R - 1
        PROVE  a - r \in Candidates(x - g, G - g, R - r)
    <3>1. /\ 0 <= a - r /\ (R - r) - ((G - g) - (x - g)) <= a - r
          /\ a - r <= (R - r) - 1 /\ a - r <= x - g
      <4>1. \A u, v, w, y, z \in Int:
              /\ u - 1 <= a + (v - 1 - y) /\ a <= z + (y - w) /\ z <= a /\ a <= u - 1
              => /\ 0 <= a - z /\ (u - z) - ((v - w) - (y - w)) <= a - z
                 /\ a - z <= (u - z) - 1 /\ a - z <= y - w
        OBVIOUS
      <4> QED BY <4>1, <2>1, <2>2, <1>i
    <3>2. x - g \in Int /\ G - g \in Int /\ R - r \in Int /\ a - r \in Int
      BY <2>1, <1>i
    <3> QED BY <3>1, <3>2, CandidateIs
  <2> QED BY <2>1, <2>2
<1>11. G > n <=> R > m
  <2>1. ASSUME G <= n PROVE R <= m
    <3>1. G \in g .. n
      BY <2>1, <1>g, <1>i
    <3>2. f[G] \in r .. m
      BY <3>1, <1>t
    <3> QED BY <2>1, <3>2, <1>5, <1>i
  <2> QED BY <2>1, <1>6, <1>i
<1>12. ASSUME G <= n
       PROVE  [x \in G .. n |-> f[x]] \in Suffixes(roots, marks, G, R)
  <2> DEFINE h == [x \in G .. n |-> f[x]]
  <2>1. \A x \in G .. n: x \in g .. n /\ x \in Int /\ h[x] = f[x]
    BY <1>g, <1>i
  <2>2. \A x \in G .. n: h[x] \in R .. m
    <3> SUFFICES ASSUME NEW x \in G .. n PROVE h[x] \in R .. m
      OBVIOUS
    <3>1. x \in g .. n /\ G \in g .. n /\ x \in G .. n
      BY <1>12, <1>g, <1>i
    <3>2. f[G] <= f[x]
      BY <3>1, Climbs
    <3>3. f[x] \in r .. m /\ f[x] \in Int
      BY <3>1, <1>t
    <3> QED BY <3>2, <3>3, <1>5, <1>12, <2>1, <1>i
  <2>3. h \in [G .. n -> R .. m]
    BY <2>2
  <2>4. h[G] = R /\ h[n] = m
    BY <1>12, <1>5, <1>f, <1>g, <1>i
  <2>5. \A x \in G .. n: roots[x] = marks[h[x]]
    BY <2>1, <1>f
  <2>6. \A x \in G + 1 .. n: h[x] \in {h[x - 1], h[x - 1] + 1}
    <3> SUFFICES ASSUME NEW x \in G + 1 .. n PROVE h[x] \in {h[x - 1], h[x - 1] + 1}
      OBVIOUS
    <3>1. x \in G .. n /\ x - 1 \in G .. n /\ x \in g + 1 .. n
      BY <1>g, <1>i
    <3> QED BY <3>1, <2>1, <1>f
  <2>7. h \in Suffixes(roots, marks, G, R)
    <3> HIDE DEF h
    <3> QED BY <2>3, <2>4, <2>5, <2>6, IsSuffix
  <2> QED BY <2>7
<1> QED BY <1>1, <1>9, <1>10, <1>11, <1>12, <1>i DEF Splits

\* Some f gives p the record r + c and goes on from G as e.
Filled(roots, marks, g, r, G, e, p, c) ==
  \E f \in Suffixes(roots, marks, g, r):
    f[p] = r + c /\ \A x \in G .. Len(roots): f[x] = e[x]

\* And each candidate is taken: the first run filled so that p gets it, any way
\* to explain the rest put behind.
LEMMA FillRun ==
  ASSUME NEW roots, NEW marks, Len(roots) \in Nat, Len(marks) \in Nat,
         NEW g \in 1 .. Len(roots), NEW r \in 1 .. Len(marks),
         NEW G \in Int, IsEnd(roots, g, G), NEW R \in Int, IsEnd(marks, r, R),
         roots[g] = marks[r], R - r <= G - g, G > Len(roots) <=> R > Len(marks),
         NEW e, G <= Len(roots) => e \in Suffixes(roots, marks, G, R),
         NEW p \in g .. G - 1,
         NEW c \in Int, c \in Candidates(p - g, G - g, R - r)
  PROVE  Filled(roots, marks, g, r, G, e, p, c)
<1> DEFINE n == Len(roots)
           m == Len(marks)
           up(x) == IF 0 < c - (p - x) THEN r + (c - (p - x)) ELSE r
           on(x) == IF c + (x - p) < R - r - 1 THEN r + (c + (x - p)) ELSE R - 1
           f == [x \in g .. n |-> IF x >= G THEN e[x] ELSE IF x <= p THEN up(x) ELSE on(x)]
<1>g. /\ G \in g + 1 .. n + 1 /\ \A k \in g .. G - 1: roots[k] = roots[g]
  BY DEF IsEnd
<1>r. /\ R \in r + 1 .. m + 1 /\ \A k \in r .. R - 1: marks[k] = marks[r]
  BY DEF IsEnd
<1>i. G \in Int /\ R \in Int /\ g \in Int /\ r \in Int /\ n \in Int /\ m \in Int /\ p \in Int
  BY <1>g, <1>r
<1>c. c \in Int /\ 0 <= c /\ R - r - (G - p) <= c /\ c <= R - r - 1 /\ c <= p - g
  <2>1. p - g \in Int /\ G - g \in Int /\ R - r \in Int
    BY <1>i
  <2>2. 0 <= c /\ (R - r) - ((G - g) - (p - g)) <= c /\ c <= (R - r) - 1 /\ c <= p - g
    BY <2>1, <1>i, CandidateIs
  <2> QED BY <2>1, <2>2, <1>i
<1>u. \A x \in g .. p: up(x) \in r .. R - 1
  BY <1>i, <1>c, <1>r
<1>o. \A x \in p + 1 .. G - 1: on(x) \in r .. R - 1
  BY <1>i, <1>c, <1>r
<1>1. \A x \in g .. G - 1: f[x] \in r .. R - 1
  <2> SUFFICES ASSUME NEW x \in g .. G - 1 PROVE f[x] \in r .. R - 1
    OBVIOUS
  <2>1. CASE x \in g .. p
    <3>1. f[x] = up(x)
      BY <2>1, <1>i, <1>g
    <3> HIDE DEF f, up
    <3> QED BY <2>1, <3>1, <1>u
  <2>2. CASE x \in p + 1 .. G - 1
    <3>1. f[x] = on(x)
      BY <2>2, <1>i, <1>g
    <3> HIDE DEF f, on
    <3> QED BY <2>2, <3>1, <1>o
  <2> QED BY <2>1, <2>2, <1>i
<1>2. \A x \in G .. n: f[x] = e[x]
  BY <1>i, <1>g
<1>e. ASSUME G <= n
      PROVE  /\ e \in [G .. n -> R .. m] /\ e[G] = R /\ e[n] = m
             /\ \A x \in G .. n: roots[x] = marks[e[x]]
             /\ \A x \in G + 1 .. n: e[x] \in {e[x - 1], e[x - 1] + 1}
  BY <1>e DEF Suffixes
<1>3. \A x \in g .. n: f[x] \in r .. m
  <2> SUFFICES ASSUME NEW x \in g .. n PROVE f[x] \in r .. m
    OBVIOUS
  <2>1. CASE x \in G .. n
    <3>0. G <= n
      BY <2>1, <1>i
    <3>1. e[x] \in R .. m
      BY <2>1, <3>0, <1>e
    <3>2. f[x] = e[x]
      BY <2>1, <1>2
    <3> HIDE DEF f
    <3> QED BY <3>1, <3>2, <1>r, <1>i
  <2>2. CASE x \in g .. G - 1
    <3>1. f[x] \in r .. R - 1
      BY <2>2, <1>1
    <3> HIDE DEF f
    <3> QED BY <3>1, <1>r, <1>i
  <2> QED BY <2>1, <2>2, <1>i, <1>g
<1>4. f \in [g .. n -> r .. m]
  BY <1>3
<1>5. f[g] = r
  <2>1. f[g] = up(g)
    BY <1>i, <1>g
  <2> QED BY <2>1, <1>i, <1>c
<1>6. f[G - 1] = R - 1
  <2>1. CASE p = G - 1
    <3>1. f[G - 1] = up(p)
      BY <2>1, <1>i, <1>g
    <3>2. c = R - r - 1
      BY <2>1, <1>i, <1>c
    <3>3. up(p) = r + c
      BY <1>i, <1>c
    <3> HIDE DEF f, up
    <3> QED BY <3>1, <3>2, <3>3, <1>i
  <2>2. CASE p < G - 1
    <3>1. f[G - 1] = on(G - 1)
      BY <2>2, <1>i, <1>g
    <3> QED BY <2>2, <3>1, <1>i, <1>c
  <2> QED BY <2>1, <2>2, <1>i
<1>7. f[n] = m
  <2>1. CASE G <= n
    BY <2>1, <1>2, <1>e, <1>i
  <2>2. CASE G > n
    <3>1. R > m
      BY <2>2
    <3>2. G <= n + 1 /\ R <= m + 1
      BY <1>g, <1>r, <1>i
    <3>3. G - 1 = n
      BY <2>2, <3>2, <1>i
    <3>4. R - 1 = m
      BY <3>1, <3>2, <1>i
    <3> QED BY <3>3, <3>4, <1>6
  <2> QED BY <2>1, <2>2, <1>i
<1>8. \A x \in g .. n: roots[x] = marks[f[x]]
  <2> SUFFICES ASSUME NEW x \in g .. n PROVE roots[x] = marks[f[x]]
    OBVIOUS
  <2>1. CASE x \in G .. n
    BY <2>1, <1>2, <1>e, <1>i
  <2>2. CASE x \in g .. G - 1
    <3>1. f[x] \in r .. R - 1 /\ roots[x] = roots[g]
      BY <2>2, <1>1, <1>g
    <3> HIDE DEF f
    <3> QED BY <3>1, <1>r
  <2> QED BY <2>1, <2>2, <1>i, <1>g
<1>9. \A x \in g + 1 .. n: f[x] \in {f[x - 1], f[x - 1] + 1}
  <2> SUFFICES ASSUME NEW x \in g + 1 .. n PROVE f[x] \in {f[x - 1], f[x - 1] + 1}
    OBVIOUS
  <2>0. x \in Int
    BY <1>i
  <2>1. CASE x > G
    <3>1. x \in G + 1 .. n /\ x \in G .. n /\ x - 1 \in G .. n /\ G <= n
      BY <2>1, <1>i
    <3>2. f[x] = e[x] /\ f[x - 1] = e[x - 1]
      BY <3>1, <1>2
    <3> HIDE DEF f
    <3> QED BY <3>1, <3>2, <1>e
  <2>2. CASE x = G
    <3>1. G <= n /\ f[x] = R /\ f[x - 1] = R - 1
      BY <2>2, <1>2, <1>6, <1>e, <1>i
    <3> HIDE DEF f
    <3> QED BY <3>1, <1>i
  <2>3. CASE x < G /\ x <= p
    <3>1. f[x] = up(x) /\ f[x - 1] = up(x - 1)
      BY <2>3, <1>i, <1>g
    <3>2. up(x) \in {up(x - 1), up(x - 1) + 1}
      BY <2>0, <1>i, <1>c
    <3> QED BY <3>1, <3>2
  <2>4. CASE x < G /\ x > p + 1
    <3>1. f[x] = on(x) /\ f[x - 1] = on(x - 1)
      BY <2>4, <1>i, <1>g
    <3>2. on(x) \in {on(x - 1), on(x - 1) + 1}
      BY <2>0, <1>i, <1>c
    <3> QED BY <3>1, <3>2
  <2>5. CASE x < G /\ x = p + 1
    <3>1. f[x] = on(x) /\ f[x - 1] = up(p)
      BY <2>5, <1>i, <1>g
    <3>2. up(p) = r + c
      BY <1>i, <1>c
    <3>3. on(p + 1) \in {r + c, r + c + 1}
      BY <1>i, <1>c
    <3> QED BY <2>5, <3>1, <3>2, <3>3
  <2> QED BY <2>0, <2>1, <2>2, <2>3, <2>4, <2>5, <1>i
<1>10. f[p] = r + c
  <2>1. f[p] = up(p)
    BY <1>i, <1>g
  <2> QED BY <2>1, <1>i, <1>c
<1>11. f \in Suffixes(roots, marks, g, r)
  <2> HIDE DEF f
  <2> QED BY <1>4, <1>5, <1>7, <1>8, <1>9, IsSuffix
<1> HIDE DEF f
<1> QED BY <1>2, <1>10, <1>11 DEF Filled

\* A run without a rival has a candidate for each of its generations.
LEMMA SomeCandidate ==
  ASSUME NEW N \in Int, NEW K \in Int, 1 <= K, K <= N, NEW q \in 0 .. N - 1
  PROVE  \E c \in Int: c \in Candidates(q, N, K)
<1>1. CASE K - (N - q) <= 0
  <2>1. 0 \in Candidates(q, N, K)
    BY <1>1, CandidateIs
  <2> QED BY <2>1
<1>2. CASE K - (N - q) > 0
  <2>1. K - (N - q) \in Int /\ K - (N - q) \in Candidates(q, N, K)
    BY <1>2, CandidateIs
  <2> QED BY <2>1
<1> QED BY <1>1, <1>2

-----------------------------------------------------------------------------

\* What Turn returns where the loop ends does not depend on a rest.
LEMMA TurnEnds ==
  ASSUME NEW roots, NEW marks, NEW b, NEW h, NEW d, NEW e,
         h[1] > Len(roots) \/ h[2] > Len(marks)
  PROVE  Turn(roots, marks, b, h, d) = Turn(roots, marks, b, h, e)
BY DEF Turn

\* Elsewhere the loop goes on to a later generation.
LEMMA TurnGoesOn ==
  ASSUME NEW roots, NEW marks, Len(roots) \in Nat, Len(marks) \in Nat,
         NEW h \in Heads(roots, marks), ~(h[1] > Len(roots) \/ h[2] > Len(marks))
  PROVE  /\ NextHead(roots, marks, h) \in Heads(roots, marks)
         /\ NextHead(roots, marks, h)[1] > h[1]
<1>1. h[1] \in 1 .. Len(roots) /\ h[2] \in 1 .. Len(marks)
  BY DEF Heads
<1>2. /\ RunEnd(roots, h[1]) \in h[1] + 1 .. Len(roots) + 1
      /\ RunEnd(marks, h[2]) \in h[2] + 1 .. Len(marks) + 1
  BY <1>1, RunEnds
<1> QED BY <1>1, <1>2 DEF NextHead, Heads

\* f satisfies the equation by which BindFrom is defined.
Binds(roots, marks, b, f) ==
  f = [h \in Heads(roots, marks) |-> Turn(roots, marks, b, h, f[NextHead(roots, marks, h)])]

\* The loop has a result from every position.
LEMMA BindingExists ==
  ASSUME NEW roots, NEW marks, NEW b, Len(roots) \in Nat, Len(marks) \in Nat
  PROVE  \E f: Binds(roots, marks, b, f)
<1> DEFINE n == Len(roots)
           H == Heads(roots, marks)
           next(h) == NextHead(roots, marks, h)
           T(h, e) == Turn(roots, marks, b, h, e)
           Upto(f, k) == \A h \in H: h[1] > n - k => f[h] = T(h, f[next(h)])
           Gap == {k \in 0 .. n + 1: ~\E f: f = [h \in H |-> f[h]] /\ Upto(f, k)}
<1>h. \A h \in H: h[1] \in 1 .. n + 1
  BY DEF Heads
<1>1. ASSUME Gap # {} PROVE FALSE
  <2>1. Gap \subseteq Nat
    OBVIOUS
  <2>2. PICK k \in Gap: \A j \in Gap: k <= j
    BY <1>1, <2>1, Least
  <2>3. k # 0
    <3> DEFINE f == [h \in H |-> T(h, 0)]
    <3>1. f = [h \in H |-> f[h]]
      OBVIOUS
    <3>2. \A h \in H: h[1] > n => f[h] = T(h, f[next(h)])
      <4> SUFFICES ASSUME NEW h \in H, h[1] > n PROVE f[h] = T(h, f[next(h)])
        OBVIOUS
      <4>1. f[h] = T(h, 0)
        OBVIOUS
      <4> HIDE DEF f
      <4> QED BY <4>1, TurnEnds
    <3> HIDE DEF f, T, next, H
    <3>3. Upto(f, 0)
      BY <3>2
    <3> QED BY <3>1, <3>3
  <2>4. k - 1 \in 0 .. n + 1 /\ k - 1 \notin Gap /\ k \in 1 .. n + 1
    BY <2>2, <2>3
  <2>5. PICK f: f = [h \in H |-> f[h]] /\ Upto(f, k - 1)
    BY <2>4
  <2> DEFINE e == [h \in H |-> IF h[1] > n - (k - 1) THEN f[h] ELSE T(h, f[next(h)])]
  <2>6. e = [h \in H |-> e[h]]
    OBVIOUS
  <2>7. \A h \in H: h[1] > n - k => e[h] = T(h, e[next(h)])
    <3> SUFFICES ASSUME NEW h \in H, h[1] > n - k PROVE e[h] = T(h, e[next(h)])
      OBVIOUS
    <3>1. e[h] = T(h, f[next(h)])
      BY <2>5
    <3>2. CASE h[1] > n \/ h[2] > Len(marks)
      <4> HIDE DEF e
      <4> QED BY <3>1, <3>2, TurnEnds
    <3>3. CASE ~(h[1] > n \/ h[2] > Len(marks))
      <4>1. next(h) \in H /\ next(h)[1] > h[1]
        BY <3>3, TurnGoesOn
      <4>2. next(h)[1] > n - (k - 1)
        BY <4>1, <2>4, <1>h
      <4>3. e[next(h)] = f[next(h)]
        BY <4>1, <4>2
      <4> HIDE DEF e, T, next
      <4> QED BY <3>1, <4>3
    <3> QED BY <3>2, <3>3
  <2> HIDE DEF e, T, next, H
  <2>8. Upto(e, k)
    BY <2>7
  <2> QED BY <2>2, <2>6, <2>8
<1>2. PICK f: f = [h \in H |-> f[h]] /\ Upto(f, n + 1)
  <2>1. n + 1 \in 0 .. n + 1
    OBVIOUS
  <2>2. n + 1 \notin Gap
    <3> HIDE DEF Gap
    <3> QED BY <1>1
  <2> HIDE DEF Upto, H
  <2> QED BY <2>1, <2>2
<1>3. \A h \in H: f[h] = T(h, f[next(h)])
  <2>1. \A h \in H: h[1] > n - (n + 1)
    BY <1>h
  <2> HIDE DEF T, next, H
  <2> QED BY <1>2, <2>1
<1>4. f = [h \in H |-> T(h, f[next(h)])]
  <2> HIDE DEF T, next, H
  <2> QED BY <1>2, <1>3
<1> QED BY <1>4 DEF Binds

\* So BindFrom satisfies its own equation.
LEMMA BindingEquation ==
  ASSUME NEW roots, NEW marks, NEW b, Len(roots) \in Nat, Len(marks) \in Nat
  PROVE  Binds(roots, marks, b, BindFrom(roots, marks, b))
BY BindingExists DEF Binds, BindFrom

\* Both runs that begin at g and r end at G and R.
RunsTo(roots, marks, g, r, G, R) == RunEnd(roots, g) = G /\ RunEnd(marks, r) = R

\* What the loop returns from g and r on is what explains them.
Exact(roots, marks, b, g, r) ==
  LET B == BindFrom(roots, marks, b)[<<g, r>>]
      fs == Suffixes(roots, marks, g, r)
  IN /\ B.ok \in BOOLEAN
     /\ g > Len(roots) \/ r > Len(marks) =>
          /\ B.ok <=> g > Len(roots) /\ r > Len(marks)
          /\ B.records = {}
     /\ g <= Len(roots) /\ r <= Len(marks) =>
          /\ B.ok <=> fs # {}
          /\ B.records = IF b < g THEN {} ELSE {f[b] : f \in fs}

\* Past the last generation or the last record the loop ends, well if it is past
\* both.
LEMMA ExactEnds ==
  ASSUME NEW roots, NEW marks, Len(roots) \in Nat, Len(marks) \in Nat,
         NEW b \in 1 .. Len(roots),
         NEW g \in 1 .. Len(roots) + 1, NEW r \in 1 .. Len(marks) + 1,
         g > Len(roots) \/ r > Len(marks)
  PROVE  Exact(roots, marks, b, g, r)
<1> DEFINE B == BindFrom(roots, marks, b)[<<g, r>>]
<1>1. <<g, r>> \in Heads(roots, marks)
  BY DEF Heads
<1> DEFINE rest == BindFrom(roots, marks, b)[NextHead(roots, marks, <<g, r>>)]
<1>2. B = Turn(roots, marks, b, <<g, r>>, rest)
  BY <1>1, BindingEquation DEF Binds
<1> HIDE DEF rest
<1>3. B = IF g > Len(roots) /\ r > Len(marks) THEN [ok |-> TRUE, records |-> {}] ELSE Unbound
  BY <1>2 DEF Turn
<1> HIDE DEF B
<1>4. /\ B.ok \in BOOLEAN /\ (B.ok <=> g > Len(roots) /\ r > Len(marks))
      /\ B.records = {}
  BY <1>3 DEF Unbound
<1> QED BY <1>4 DEF Exact, B

\* Elsewhere a turn is exact if what remains after the two runs is: an explanation
\* of the rest and a candidate for each generation of the run make one of both.
LEMMA ExactTurn ==
  ASSUME NEW roots, NEW marks, Len(roots) \in Nat, Len(marks) \in Nat,
         NEW b \in 1 .. Len(roots),
         NEW g \in 1 .. Len(roots), NEW r \in 1 .. Len(marks),
         NEW G \in Int, NEW R \in Int, RunsTo(roots, marks, g, r, G, R),
         IsEnd(roots, g, G), IsEnd(marks, r, R),
         Exact(roots, marks, b, G, R)
  PROVE  Exact(roots, marks, b, g, r)
<1> DEFINE n == Len(roots)
           m == Len(marks)
           B == BindFrom(roots, marks, b)[<<g, r>>]
           rest == BindFrom(roots, marks, b)[<<G, R>>]
           fs == Suffixes(roots, marks, g, r)
           es == Suffixes(roots, marks, G, R)
           here == IF b \notin g .. G - 1 THEN {}
                   ELSE {r + c : c \in Candidates(b - g, G - g, R - r)}
<1>0. G \in g + 1 .. n + 1 /\ R \in r + 1 .. m + 1
  BY DEF IsEnd
<1>1. <<g, r>> \in Heads(roots, marks) /\ NextHead(roots, marks, <<g, r>>) = <<G, R>>
  BY DEF Heads, NextHead, RunsTo
<1>2. B = Turn(roots, marks, b, <<g, r>>, rest)
  BY <1>1, BindingEquation DEF Binds
<1> HIDE DEF B, rest
<1>3. B = IF roots[g] # marks[r] \/ R - r > G - g \/ ~rest.ok THEN Unbound
          ELSE [ok |-> TRUE, records |-> here \cup rest.records]
  BY <1>2 DEF Turn, RunsTo
<1>4. /\ rest.ok \in BOOLEAN
      /\ G > n \/ R > m => /\ rest.ok <=> G > n /\ R > m
                           /\ rest.records = {}
      /\ G <= n /\ R <= m => /\ rest.ok <=> es # {}
                             /\ rest.records = IF b < G THEN {} ELSE {f[b] : f \in es}
  BY DEF Exact, rest
<1>5. ASSUME fs # {}
      PROVE  /\ roots[g] = marks[r] /\ R - r <= G - g /\ rest.ok
             /\ \A f \in fs: /\ b \in g .. G - 1 => f[b] - r \in Candidates(b - g, G - g, R - r)
                             /\ b \in G .. n => [x \in G .. n |-> f[x]] \in es
  <2>1. ASSUME NEW f \in fs
        PROVE  /\ roots[g] = marks[r]
               /\ R - r <= G - g
               /\ G > n <=> R > m
               /\ \A x \in g .. G - 1: f[x] - r \in Candidates(x - g, G - g, R - r)
               /\ G <= n => [x \in G .. n |-> f[x]] \in es
    <3>1. Splits(roots, marks, g, r, G, R, f)
      BY <2>1, FirstRun
    <3> QED BY <3>1 DEF Splits
  <2>2. PICK f \in fs: TRUE
    BY <1>5
  <2>3. rest.ok
    <3>1. CASE G > n
      BY <3>1, <2>1, <2>2, <1>4
    <3>2. CASE ~(G > n)
      <4>0. ~(R > m)
        BY <3>2, <2>1, <2>2
      <4>1. G <= n /\ R <= m
        BY <3>2, <4>0, <1>0
      <4> QED BY <4>1, <2>1, <2>2, <1>4
    <3> QED BY <3>1, <3>2
  <2>4. \A x \in G .. n: G <= n
    BY <1>0
  <2> QED BY <2>1, <2>2, <2>3, <2>4
<1>6. ASSUME roots[g] = marks[r], R - r <= G - g, rest.ok
      PROVE  /\ G > n <=> R > m
             /\ G <= n => es # {}
  BY <1>6, <1>4, <1>0
<1>7. ASSUME roots[g] = marks[r], R - r <= G - g, rest.ok,
             NEW p \in g .. G - 1, NEW c \in Int, c \in Candidates(p - g, G - g, R - r),
             NEW e, G <= n => e \in es
      PROVE  \E f \in fs: f[p] = r + c /\ \A x \in G .. n: f[x] = e[x]
  <2>1. G > n <=> R > m
    BY <1>6, <1>7
  <2>2. Filled(roots, marks, g, r, G, e, p, c)
    BY <2>1, <1>7, FillRun
  <2> QED BY <2>2 DEF Filled
<1>8. ASSUME roots[g] = marks[r], R - r <= G - g, rest.ok
      PROVE  /\ fs # {}
             /\ here \cup rest.records = IF b < g THEN {} ELSE {f[b] : f \in fs}
  <2> DEFINE K == R - r
  <2>1. g \in g .. G - 1 /\ K \in Int /\ 1 <= K /\ G - g \in Int /\ K <= G - g
    BY <1>8, <1>0
  <2>2. PICK o \in Int: o \in Candidates(g - g, G - g, R - r)
    <3>1. 0 \in 0 .. (G - g) - 1 /\ g - g = 0
      BY <2>1
    <3> QED BY <2>1, <3>1, SomeCandidate
  <2>3. \A e \in es: \E f \in fs: \A x \in G .. n: f[x] = e[x]
    BY <1>7, <1>8, <2>1, <2>2
  <2>4. fs # {}
    <3>1. \E e: G <= n => e \in es
      BY <1>6, <1>8
    <3> QED BY <1>7, <1>8, <2>1, <2>2, <3>1
  <2>5. CASE b < g
    <3>1. here = {} /\ rest.records = {}
      BY <2>5, <1>0, <1>4, <1>6, <1>8
    <3> QED BY <2>4, <2>5, <3>1
  <2>6. CASE b \in g .. G - 1
    <3>1. rest.records = {}
      BY <2>6, <1>0, <1>4, <1>6, <1>8
    <3>2. here \subseteq {f[b] : f \in fs}
      <4> SUFFICES ASSUME NEW c \in Candidates(b - g, G - g, R - r)
                   PROVE  r + c \in {f[b] : f \in fs}
        BY <2>6
      <4>1. c \in Int
        BY <1>0 DEF Candidates, Larger, Smaller
      <4>2. \E e: G <= n => e \in es
        BY <1>6, <1>8
      <4>3. \E f \in fs: f[b] = r + c
        BY <4>1, <4>2, <1>7, <1>8, <2>6
      <4> QED BY <4>3
    <3>3. {f[b] : f \in fs} \subseteq here
      <4> SUFFICES ASSUME NEW f \in fs PROVE f[b] \in here
        OBVIOUS
      <4>1. f[b] - r \in Candidates(b - g, G - g, R - r)
        BY <1>5, <2>4, <2>6
      <4>2. b \in g .. n
        BY <2>6, <1>0
      <4>3. f[b] \in Int
        BY <4>2 DEF Suffixes
      <4>4. f[b] = r + (f[b] - r)
        BY <4>3
      <4>5. r + (f[b] - r) \in here
        BY <4>1, <2>6
      <4> QED BY <4>4, <4>5
    <3>4. ~(b < g)
      BY <2>6
    <3> HIDE DEF here, fs
    <3> QED BY <2>4, <3>1, <3>2, <3>3, <3>4
  <2>7. CASE b \in G .. n
    <3>1. here = {} /\ G <= n /\ ~(b < g) /\ ~(b < G)
      BY <2>7, <1>0
    <3>2. rest.records = {e[b] : e \in es}
      BY <3>1, <1>4, <1>6, <1>8, <1>0
    <3>3. {e[b] : e \in es} \subseteq {f[b] : f \in fs}
      <4> SUFFICES ASSUME NEW e \in es PROVE e[b] \in {f[b] : f \in fs}
        OBVIOUS
      <4>1. PICK f \in fs: \A x \in G .. n: f[x] = e[x]
        BY <2>3
      <4> QED BY <4>1, <2>7
    <3>4. {f[b] : f \in fs} \subseteq {e[b] : e \in es}
      <4> SUFFICES ASSUME NEW f \in fs PROVE f[b] \in {e[b] : e \in es}
        OBVIOUS
      <4>1. [x \in G .. n |-> f[x]] \in es /\ [x \in G .. n |-> f[x]][b] = f[b]
        BY <1>5, <2>4, <2>7
      <4> HIDE DEF es
      <4> QED BY <4>1
    <3> HIDE DEF here, fs, es
    <3> QED BY <2>4, <3>1, <3>2, <3>3, <3>4
  <2>8. b < g \/ b \in g .. G - 1 \/ b \in G .. n
    BY <1>0
  <2> HIDE DEF here, fs
  <2> QED BY <2>5, <2>6, <2>7, <2>8
<1>9. /\ B.ok \in BOOLEAN
      /\ B.ok <=> fs # {}
      /\ B.records = IF b < g THEN {} ELSE {f[b] : f \in fs}
  <2>1. CASE roots[g] = marks[r] /\ R - r <= G - g /\ rest.ok
    <3>1. B = [ok |-> TRUE, records |-> here \cup rest.records]
      BY <2>1, <1>3, <1>0
    <3> HIDE DEF here, fs
    <3> QED BY <2>1, <3>1, <1>8
  <2>2. CASE ~(roots[g] = marks[r] /\ R - r <= G - g /\ rest.ok)
    <3>1. B = Unbound
      BY <2>2, <1>3, <1>0
    <3>2. fs = {}
      BY <2>2, <1>5
    <3> HIDE DEF here, fs
    <3> QED BY <3>1, <3>2 DEF Unbound
  <2> QED BY <2>1, <2>2
<1> HIDE DEF here, fs
<1>10. ~(g > n \/ r > m)
  OBVIOUS
<1> QED BY <1>9, <1>10 DEF Exact, B, fs

\* By induction on the number of generations that remain, from every position.
LEMMA ExactFrom ==
  ASSUME NEW roots, NEW marks, Len(roots) \in Nat, Len(marks) \in Nat,
         NEW b \in 1 .. Len(roots),
         NEW g \in 1 .. Len(roots) + 1, NEW r \in 1 .. Len(marks) + 1
  PROVE  Exact(roots, marks, b, g, r)
<1> DEFINE n == Len(roots)
           m == Len(marks)
           Gap == {k \in 0 .. n + 1: \E q \in 1 .. m + 1:
                     n + 1 - k >= 1 /\ ~Exact(roots, marks, b, n + 1 - k, q)}
<1>1. ASSUME Gap # {} PROVE FALSE
  <2>1. Gap \subseteq Nat
    OBVIOUS
  <2>2. PICK k \in Gap: \A j \in Gap: k <= j
    BY <1>1, <2>1, Least
  <2>3. PICK q \in 1 .. m + 1: n + 1 - k >= 1 /\ ~Exact(roots, marks, b, n + 1 - k, q)
    BY <2>2
  <2>4. k \in 0 .. n + 1 /\ n + 1 - k \in 1 .. n + 1
    BY <2>2, <2>3
  <2>5. PICK p \in 1 .. n + 1: p = n + 1 - k
    BY <2>4
  <2>6. p <= n /\ q <= m
    BY <2>3, <2>5, ExactEnds
  <2>7. p \in 1 .. n /\ q \in 1 .. m
    BY <2>6
  <2>8. PICK G \in Int, R \in Int: G = RunEnd(roots, p) /\ R = RunEnd(marks, q)
    BY <2>7, RunEnds
  <2>9. IsEnd(roots, p, G) /\ IsEnd(marks, q, R) /\ RunsTo(roots, marks, p, q, G, R)
    BY <2>7, <2>8, RunEnds DEF IsEnd, RunsTo
  <2>10. G \in p + 1 .. n + 1 /\ R \in 1 .. m + 1
    BY <2>9 DEF IsEnd
  <2>11. Exact(roots, marks, b, G, R)
    <3>1. n + 1 - G \in 0 .. n + 1 /\ n + 1 - G < k /\ n + 1 - (n + 1 - G) = G /\ G >= 1
      BY <2>4, <2>5, <2>10
    <3>2. n + 1 - G \notin Gap
      <4> HIDE DEF Gap
      <4> QED BY <2>2, <2>4, <3>1
    <3> QED BY <3>1, <3>2, <2>10
  <2>12. Exact(roots, marks, b, p, q)
    BY <2>7, <2>9, <2>11, ExactTurn
  <2> QED BY <2>3, <2>5, <2>12
<1>2. n + 1 - g \in 0 .. n + 1 /\ n + 1 - (n + 1 - g) = g /\ g >= 1
  OBVIOUS
<1>3. n + 1 - g \notin Gap
  <2> HIDE DEF Gap
  <2> QED BY <1>1
<1> QED BY <1>2, <1>3

\* The candidates that bindInspectionGenerations returns for a generation are
\* the records it has in the explanations, and it fails if there is none.
THEOREM BindingIsExact ==
  ASSUME NEW V, NEW roots \in Seq(V), NEW marks \in Seq(V),
         roots # <<>>, marks # <<>>, NEW b \in 1 .. Len(roots)
  PROVE  LET B == BindGenerations(roots, marks, b)
             fs == Explanations(roots, marks)
         IN  (B.ok <=> fs # {}) /\ B.records = {f[b] : f \in fs}
<1> DEFINE n == Len(roots)
           m == Len(marks)
           fs == Explanations(roots, marks)
<1>1. n \in Nat /\ m \in Nat /\ 1 \in 1 .. n /\ 1 \in 1 .. m /\ 1 \in 1 .. n + 1 /\ 1 \in 1 .. m + 1
  OBVIOUS
<1>2. fs = Suffixes(roots, marks, 1, 1)
  <2>1. 1 + 1 = 2
    OBVIOUS
  <2> QED BY <2>1 DEF Explanations, Suffixes
<1>3. Exact(roots, marks, b, 1, 1)
  BY <1>1, ExactFrom
<1>4. CASE m > n
  <2>1. ASSUME NEW f \in fs PROVE FALSE
    <3>1. f[n] <= f[1] + (n - 1)
      BY <1>1, <1>2, <2>1, Climbs
    <3>2. f[n] = m /\ f[1] = 1
      BY <2>1 DEF Explanations
    <3> QED BY <3>1, <3>2, <1>1, <1>4
  <2>2. BindGenerations(roots, marks, b) = Unbound
    BY <1>4 DEF BindGenerations
  <2>3. fs = {}
    BY <2>1
  <2> HIDE DEF fs
  <2> QED BY <2>2, <2>3 DEF Unbound, fs
<1>5. CASE ~(m > n)
  <2>1. BindGenerations(roots, marks, b) = BindFrom(roots, marks, b)[<<1, 1>>]
    BY <1>5 DEF BindGenerations
  <2>2. ~(b < 1) /\ 1 <= n /\ 1 <= m
    BY <1>1
  <2> HIDE DEF fs
  <2> QED BY <1>2, <1>3, <2>1, <2>2 DEF Exact, fs
<1> QED BY <1>4, <1>5

-----------------------------------------------------------------------------
(* What the files tell of an inspected world *)

\* The transition record commits its successor.
Committing == tr # None /\ tr.phase = "commit"

\* The generation of a record, 0 for none.
GenOf(s) == IF s = None THEN 0 ELSE s.gen

\* f gives the first k generations their records: root and declaration match, the
\* order is kept and no record is left over.
Tells(f, k) ==
  /\ f[1] = 1 /\ f[k] = Len(log)
  /\ \A g \in 1 .. k: digest[g] = log[f[g]].ws /\ made[g] = log[f[g]].decl
  /\ \A g \in 2 .. k: f[g] \in {f[g - 1], f[g - 1] + 1}

\* The records are those of the first k generations.
Recorded(k) ==
  /\ \A g \in Gens: g > k => logged[g] = 0
  /\ k = 0 => log = <<>>
  /\ k > 0 => \E f \in [1 .. k -> 1 .. Len(log)]: Tells(f, k)

\* What AppendOnce compares with is the last of the applied records, unless it is
\* the record of something else.
LastIsApplied ==
  /\ log \in Seq(Record)
  /\ last = None => log = <<>>
  /\ last # None /\ last.what = "applied" => log # <<>> /\ last = log[Len(log)]

\* The authority's declaration is noted and it is recorded; while its commit is
\* being published, it may be that only its predecessors are.
Told ==
  /\ made \in [Gens -> {None} \cup Decls]
  /\ Authoritative # None => made[Authoritative.gen] = Authoritative.decl
  /\ \/ /\ Recorded(GenOf(Authoritative))
        /\ Committing /\ ~doomed => last = History("applied", tr.succ.decl, tr.ws)
     \/ /\ Committing /\ pc \notin {"p.destroy", "p.clear"}
        /\ Recorded(tr.succ.gen - 1)

\* The digest of a successor is written before anything else of it.
DigestFirst == pc \in PublishLabels \ {"p.digest"} => digest[tr.succ.gen] = tr.ws

\* A world whose destroy did not finish has no container of its authority left, so
\* no command adopts or completes it.
Ruin ==
  /\ doomed => pc \notin CommitLabels \cup PublishLabels \cup AdoptLabels
  /\ doomed /\ Authoritative # None => ctr[Authoritative.gen] = "absent"

\* Intent is that of state.json, doomed or not.
Agrees ==
  ~Committing => IF state = None THEN applied = None /\ plan = None
                 ELSE applied = state.decl /\ plan = state.decl

\* Nothing that is published or restored is still staging.
Started ==
  /\ state # None => state.status # "staging"
  /\ tr # None /\ tr.prior # None => tr.prior.status # "staging"
  /\ loc.prior # None => loc.prior.status # "staging"
  /\ Committing => tr.succ.status # "staging"

Tale == Life /\ LastIsApplied /\ Told /\ DigestFirst /\ Ruin /\ Agrees /\ Started

-----------------------------------------------------------------------------
(* Steps that write no evidence *)

USE DEF files, book, host, doors, budget, Goto, Keep,
        Labels, UpLabels, PublishLabels, CleanupLabels, AdoptLabels,
        RecoverLabels, RestoreLabels, DownLabels, DestroyLabels,
        BeforeRecord, AfterRecord, CommitLabels, RollbackLabels

\* The history gets nothing, or a record of something else.
Noted ==
  /\ logged' = logged
  /\ \/ last' = last
     \/ last' \in Record /\ last'.what # "applied" /\ (Committing => doomed)

\* recordFailure.
LEMMA FailureNoted ==
  ASSUME Shape, FailureRecord(pc)
  PROVE  Noted
<1>1. CASE pc \in RecordsFailure
  <2>1. loc.decl \in Decls /\ ~Committing
    BY <1>1 DEF Shape, LocalShape, LabelShape, RecordsFailure, Committing
  <2>2. last' = History("failed", loc.decl, 0) /\ logged' = logged
    BY <1>1 DEF FailureRecord, AppendRecord
  <2> QED BY <2>1, <2>2, ConstantTypes DEF Noted, History, Record
<1>2. CASE pc \notin RecordsFailure
  BY <1>2 DEF FailureRecord, Noted
<1> QED BY <1>1, <1>2

\* Only publishing writes applied records, only the tombstone takes them away.
LEMMA StepNotes ==
  ASSUME Life, [Next]_vars, ~PublishHistory, ~DestroyRename
  PROVE  Noted
<1>0. Shape BY DEF Life
<1>1. CASE UNCHANGED book BY <1>1 DEF Noted
<1>2. CASE FailureRecord(pc) BY <1>0, <1>2, FailureNoted
<1>3. CASE AdoptHistory
  <2>1. loc.decl \in Decls /\ ~Committing /\ ws \in 0 .. MaxWs
    BY <1>0, <1>3 DEF Shape, LocalShape, LabelShape, AdoptHistory, Committing, TypeOK
  <2>2. /\ logged' = logged
        /\ \/ last' = History("restarted", loc.decl, ws)
           \/ last' = History("adopted", loc.decl, ws)
    BY <1>3 DEF AdoptHistory, AppendRecord
  <2> QED BY <2>1, <2>2 DEF Noted, History, Record
<1>4. CASE DownHistory
  <2>1. state # None /\ state \in State /\ ~Committing
    BY <1>0, <1>4 DEF Shape, LabelShape, DownHistory, Committing, TypeOK
  <2>2. state.decl \in Decls BY <2>1 DEF State
  <2>3. logged' = logged /\ last' = History("stopped", state.decl, 0)
    BY <1>4 DEF DownHistory, AppendRecord
  <2> QED BY <2>1, <2>2, <2>3, ConstantTypes DEF Noted, History, Record
<1>5. CASE DestroyHistory
  <2>1. doomed /\ (tr # None \/ state # None)
    BY <1>0, <1>5 DEF Life, Stance, Removed, Shape, LabelShape, DestroyHistory
  <2>2. /\ Authoritative # None => Authoritative.decl \in Decls
        /\ tr # None => tr.succ.decl \in Decls
    BY <1>0, RecordGens DEF Authoritative, State
  <2>3. Authoritative # None \/ tr # None BY <2>1 DEF Authoritative
  <2>4. /\ logged' = logged
        /\ \E d \in Decls: last' = History("destroyed", d, 0)
    BY <1>5, <2>2, <2>3 DEF DestroyHistory, AppendRecord
  <2> QED BY <2>1, <2>4, ConstantTypes DEF Noted, History, Record
<1>6. CASE UpStep
  BY <1>1, <1>2, <1>6
  DEF UpStep, UpRead, UpLoad, UpCreate, UpMaterialize, UpRecord, UpStopDoor, EndDoor, UpStop,
      UpCapture, UpStart, UpVerify, SpawnDoor, ReadyDoor, StartServices, UpReverify, UpCommit,
      PublishDigest, PublishApplied, PublishPlan, PublishState, PublishDestroy, PublishClear,
      CleanupDoor, CleanupStop, CleanupDestroy, CleanupClear, Write
<1>7. CASE AdoptStep
  BY <1>1, <1>2, <1>3, <1>7
  DEF AdoptStep, AdoptStart, AdoptVerify, AdoptKeepDoor, AdoptSpawnDoor, AdoptNoDoor,
      SpawnDoor, ReadyDoor, StartServices, AdoptPlan, AdoptState, AdoptUndo,
      AdoptUnstart, Write
<1>8. CASE RecoverStep
  BY <1>1, <1>2, <1>8
  DEF RecoverStep, Recover, CommitStart, CommitVerify, SpawnDoor, ReadyDoor, CommitRecord,
      StartServices, RollbackDoor, EndDoor, RollbackDestroy, RollbackApplied,
      RollbackPlan, RollbackState, RollbackClear, RestoreStart, RestoreVerify,
      RestoreApplied, RestorePlan, RestoreState, Write
<1>9. CASE DownStep \/ DestroyStep
  BY <1>1, <1>4, <1>5, <1>9
  DEF DownStep, DownStop, DownDoor, EndDoor, DownState, DestroyStep,
      DestroyFirst, DestroySecond, DestroyDoor, Write
<1>10. CASE Command \/ Failure \/ WorldWrites
  BY <1>1, <1>2, <1>10
  DEF Command, Begin, Failure, Crash, Reboot, HostFailure, LostReply, ContainerExit,
      DoorExit, WorldWrites
<1>11. CASE UNCHANGED vars BY <1>1, <1>11 DEF vars
<1> QED BY <1>6, <1>7, <1>8, <1>9, <1>10, <1>11 DEF Next, Step

\* Labels at which some of a successor is published.
Publishing == PublishLabels \ {"p.digest"}

\* Digests, publication and the commit record stay as they are.
Calm ==
  /\ digest' = digest
  /\ doomed => doomed'
  /\ Committing' => Committing /\ tr'.ws = tr.ws
  /\ Committing /\ pc \notin {"p.destroy", "p.clear"} =>
       Committing' /\ pc' \notin {"p.destroy", "p.clear"}
  /\ pc' \in Publishing => pc \in Publishing /\ tr' = tr

\* Neither a failed call nor the end of recovery leads there.
LEMMA FailLeaves ==
  ASSUME pc \in Labels, Fail(pc)
  PROVE  pc' \notin Publishing
BY DEF Fail, OnError, CleanupNext, Publishing

\* A step with the record that leads elsewhere or nowhere.
LEMMA CalmStep ==
  ASSUME digest' = digest, doomed => doomed', tr' = tr, pc' \notin Publishing \/ pc' = pc
  PROVE  Calm
BY DEF Calm, Committing, Publishing

\* The steps that write transition.json.
LEMMA CalmWrites ==
  ASSUME Shape,
         UpRecord \/ UpCapture \/ PublishClear \/ CleanupClear \/ RollbackClear \/ CommitRecord
  PROVE  Calm
<1>1. digest' = digest /\ doomed' = doomed /\ pc' \notin Publishing
  BY DEF UpRecord, UpCapture, PublishClear, CleanupClear, RollbackClear, CommitRecord, Write,
    Return, Recovered, Publishing
<1>2. CASE UpRecord \/ UpCapture \/ CleanupClear \/ RollbackClear
  <2>1. ~Committing
    BY <1>2 DEF Shape, LabelShape, UpShape, InUp, UpRecord, UpCapture, CleanupClear,
      RollbackClear, Write, Committing
  <2>2. ~Committing'
    <3>1. CASE UpRecord BY <3>1 DEF UpRecord, Committing
    <3>2. CASE UpCapture
      <4>1. tr \in Transition /\ tr.phase = "rollback"
        BY <3>2 DEF Shape, LabelShape, TypeOK, UpCapture, Write
      <4> QED BY <3>2, <4>1 DEF UpCapture, Write, Transition, Committing
    <3>3. CASE CleanupClear \/ RollbackClear
      BY <2>1, <3>3 DEF CleanupClear, RollbackClear, Committing
    <3> QED BY <1>2, <3>1, <3>2, <3>3
  <2> QED BY <1>1, <2>1, <2>2 DEF Calm
<1>3. CASE PublishClear
  BY <1>1, <1>3 DEF PublishClear, Calm, Committing
<1>4. CASE CommitRecord
  <2>1. tr \in Transition /\ Committing
    BY <1>4 DEF Shape, LabelShape, TypeOK, CommitRecord, Write, Committing
  <2>2. tr' # None /\ tr'.phase = "commit" /\ tr'.ws = tr.ws
    <3>1. tr' = [tr EXCEPT !.succ = [tr.succ EXCEPT !.proxy = loc.pid]]
      BY <1>4 DEF CommitRecord, Write
    <3>2. tr'.phase = tr.phase /\ tr'.ws = tr.ws BY <2>1, <3>1 DEF Transition
    <3>3. tr' \in Transition
      <4>1. [tr.succ EXCEPT !.proxy = loc.pid] \in State
        BY <2>1 DEF Shape, TypeOK, Transition, State, Locals
      <4> QED BY <2>1, <3>1, <4>1 DEF Transition
    <3> QED BY <2>1, <3>2, <3>3, AbsentConstant DEF Committing
  <2> QED BY <1>1, <2>1, <2>2 DEF Calm, Committing, Publishing
<1> QED BY <1>2, <1>3, <1>4

\* All steps but four.
LEMMA StepCalm ==
  ASSUME Life, [Next]_vars, ~UpCommit, ~PublishDigest, ~PublishHistory, ~DestroyRename
  PROVE  Calm
<1>0. Shape BY DEF Life
<1>1. CASE UNCHANGED <<digest, doomed, tr>> /\ (pc' \notin Publishing \/ pc' = pc)
  BY <1>1, CalmStep
<1>2. CASE UpRecord \/ UpCapture \/ PublishClear \/ CleanupClear \/ RollbackClear \/ CommitRecord
  BY <1>0, <1>2, CalmWrites
<1>3. CASE Fail(pc) /\ pc \in Labels /\ UNCHANGED <<digest, doomed, tr>>
  BY <1>1, <1>3, FailLeaves
<1>4. CASE PublishApplied \/ PublishPlan \/ PublishState \/ PublishDestroy
  <2>1. UNCHANGED <<digest, doomed, tr>> /\ pc \in Publishing
    BY <1>4 DEF PublishApplied, PublishPlan, PublishState, PublishDestroy, Write, Publishing
  <2>2. pc \notin {"p.destroy", "p.clear"} => pc' \notin {"p.destroy", "p.clear"}
    BY <1>4 DEF PublishApplied, PublishPlan, PublishState, PublishDestroy, Write
  <2> QED BY <2>1, <2>2 DEF Calm, Committing
<1>5. CASE DestroyFirst
  BY <1>5, CalmStep DEF DestroyFirst, Return, Publishing
<1>6. CASE UpStep
  <2>1. UNCHANGED <<digest, doomed>> BY <1>6
    DEF UpStep, UpRead, UpLoad, UpCreate, UpMaterialize, UpRecord, UpStopDoor, EndDoor, UpStop,
      UpCapture, UpStart, UpVerify, SpawnDoor, ReadyDoor, StartServices, UpReverify,
      PublishApplied, PublishPlan, PublishState, PublishDestroy, PublishClear,
      CleanupDoor, CleanupStop, CleanupDestroy, CleanupClear, Write
  <2>2. CASE UpRead \/ UpLoad \/ UpCreate \/ UpMaterialize \/ UpStopDoor \/ UpStop \/ UpStart
              \/ UpVerify \/ UpReverify
    BY <1>1, <1>3, <2>1, <2>2
    DEF UpRead, UpLoad, UpCreate, UpMaterialize, UpStopDoor, EndDoor, UpStop, UpStart,
      UpVerify, UpReverify, Return, Publishing
  <2>3. CASE \/ SpawnDoor("u.door", "u.ready", loc.gen)
             \/ ReadyDoor("u.ready", "u.services")
             \/ StartServices("u.services", "u.reverify", loc.gen)
    BY <1>1, <1>3, <2>1, <2>3 DEF SpawnDoor, ReadyDoor, StartServices, Publishing
  <2>4. CASE CleanupDoor \/ CleanupStop \/ CleanupDestroy
    BY <1>1, <2>1, <2>4 DEF CleanupDoor, CleanupStop, CleanupDestroy, CleanupNext, Publishing
  <2> QED BY <1>2, <1>4, <1>6, <2>2, <2>3, <2>4 DEF UpStep
<1>7. CASE AdoptStep
  BY <1>1, <1>3, <1>7
  DEF AdoptStep, AdoptStart, AdoptVerify, AdoptKeepDoor, AdoptSpawnDoor, AdoptNoDoor,
      SpawnDoor, ReadyDoor, StartServices, AdoptPlan, AdoptState, AdoptHistory, AdoptUndo,
      AdoptUnstart, AfterAdoptDoor, Return, Write, Publishing
<1>8. CASE RecoverStep
  <2>1. CASE Recover \/ CommitStart \/ CommitVerify \/ RollbackDoor \/ RollbackDestroy
              \/ RollbackApplied \/ RollbackPlan \/ RollbackState \/ RestoreStart
              \/ RestoreVerify \/ RestoreApplied \/ RestorePlan \/ RestoreState
    BY <1>1, <1>3, <2>1
    DEF Recover, Recovered, CommitStart, CommitVerify, RollbackDoor, EndDoor, RollbackDestroy,
      RollbackApplied, RollbackPlan, RollbackState, RestoreStart, RestoreVerify,
      RestoreApplied, RestorePlan, RestoreState, Return, Write, Publishing
  <2>2. CASE \/ SpawnDoor("m.door", "m.ready", tr.succ.gen)
             \/ ReadyDoor("m.ready", "m.record")
             \/ StartServices("m.services", "p.digest", tr.succ.gen)
             \/ SpawnDoor("r.door", "r.ready", tr.prior.gen)
             \/ ReadyDoor("r.ready", "r.services")
             \/ StartServices("r.services", "r.applied", tr.prior.gen)
    BY <1>1, <1>3, <2>2 DEF SpawnDoor, ReadyDoor, StartServices, Publishing
  <2> QED BY <1>2, <1>8, <2>1, <2>2 DEF RecoverStep
<1>9. CASE DownStep \/ DestroyStep
  BY <1>1, <1>5, <1>9
  DEF DownStep, DownStop, DownDoor, EndDoor, DownState, DownHistory, DestroyStep,
      DestroySecond, DestroyDoor, DestroyHistory, Return, Write, Publishing
<1>10. CASE Command \/ Failure \/ WorldWrites
  BY <1>1, <1>3, <1>10, FailureConstants
  DEF Command, Begin, Failure, Crash, Reboot, HostFailure, LostReply, ContainerExit,
      DoorExit, WorldWrites, Return, Publishing
<1>11. CASE UNCHANGED vars BY <1>1, <1>11 DEF vars
<1> QED BY <1>6, <1>7, <1>8, <1>9, <1>10, <1>11 DEF Next, Step

\* The authority is a record of state.json's form.
AuthorityTyped ==
  /\ Authoritative \in {None} \cup State
  /\ Authoritative # None => Authoritative.gen \in Gens /\ Authoritative.decl \in Decls
  /\ GenOf(Authoritative) \in 0 .. MaxGen
  /\ Committing => Authoritative = tr.succ /\ tr.succ # None

\* In every state of that shape ...
LEMMA AuthorityType == Shape => AuthorityTyped
<1> SUFFICES ASSUME Shape PROVE AuthorityTyped OBVIOUS
<1>1. /\ state \in {None} \cup State
      /\ tr # None => tr.succ \in State /\ tr.prior \in {None} \cup State
  BY RecordGens DEF Shape, TypeOK, Transition
<1>2. Authoritative \in {None} \cup State BY <1>1 DEF Authoritative
<1>3. Authoritative # None => Authoritative.gen \in Gens /\ Authoritative.decl \in Decls
  BY <1>2 DEF State
<1>4. GenOf(Authoritative) \in 0 .. MaxGen
  BY <1>3, ConstantTypes DEF GenOf
<1>5. Committing => Authoritative = tr.succ /\ tr.succ # None
  BY <1>1, AbsentConstant DEF Committing, Authoritative
<1> QED BY <1>2, <1>3, <1>4, <1>5 DEF AuthorityTyped

\* ... and in the one after it.
LEMMA AuthorityTypeNext == Shape' => AuthorityTyped'
BY AuthorityType, PTL

\* What Recorded reads.
LEMMA RecordedKept ==
  ASSUME NEW k \in 0 .. MaxGen, Recorded(k), log' = log, logged' = logged,
         \A g \in 1 .. k: digest'[g] = digest[g] /\ made'[g] = made[g]
  PROVE  Recorded(k)'
<1>1. /\ \A g \in Gens: g > k => logged'[g] = 0
      /\ k = 0 => log' = <<>>
  BY DEF Recorded
<1>2. ASSUME k > 0 PROVE \E f \in [1 .. k -> 1 .. Len(log')]: Tells(f, k)'
  <2>1. PICK f \in [1 .. k -> 1 .. Len(log)]: Tells(f, k) BY <1>2 DEF Recorded
  <2>2. Tells(f, k)' BY <2>1 DEF Tells
  <2> QED BY <2>1, <2>2
<1> QED BY <1>1, <1>2 DEF Recorded

\* A record of something else leaves the applied ones alone.
LEMMA LogKept ==
  ASSUME LastIsApplied, Noted, Logs
  PROVE  log' = log /\ LastIsApplied'
<1>1. CASE last' = last BY <1>1 DEF LastIsApplied, Noted, Logs
<1>2. CASE last' \in Record /\ last'.what # "applied"
  <2>1. last' # None BY <1>2, AbsentRecord
  <2> QED BY <1>2, <2>1 DEF LastIsApplied, Noted, Logs
<1> QED BY <1>1, <1>2 DEF Noted

\* A step that keeps the authority keeps what its generations were made with.
LEMMA MadeKept ==
  ASSUME Shape, Shape', Told, Makes, View(Authoritative)' = View(Authoritative)
  PROVE  /\ made' \in [Gens -> {None} \cup Decls]
         /\ Authoritative' = None <=> Authoritative = None
         /\ Authoritative # None => /\ Authoritative'.gen = Authoritative.gen
                                    /\ Authoritative'.decl = Authoritative.decl
                                    /\ made'[Authoritative.gen] = Authoritative.decl
         /\ \A g \in 1 .. GenOf(Authoritative): made'[g] = made[g]
<1>0. /\ Authoritative \in {None} \cup State /\ Authoritative' \in {None} \cup State
      /\ Authoritative # None => Authoritative.gen \in Gens /\ Authoritative.decl \in Decls
  BY AuthorityType, AuthorityTypeNext DEF AuthorityTyped
<1>1. View(Authoritative') = View(Authoritative) BY DEF View
<1>2. /\ Authoritative' = None <=> Authoritative = None
      /\ Authoritative # None => /\ Authoritative'.gen = Authoritative.gen
                                 /\ Authoritative'.decl = Authoritative.decl
  BY <1>0, <1>1, SameView
<1>3. /\ made \in [Gens -> {None} \cup Decls]
      /\ Authoritative # None => made[Authoritative.gen] = Authoritative.decl
  BY DEF Told
<1>4. CASE last' = None /\ state' = None /\ tr' = None
  <2>1. Authoritative' = None BY <1>4 DEF Authoritative
  <2>2. made' = [g \in Gens |-> None] BY <1>4 DEF Makes
  <2>3. \A g \in 1 .. GenOf(Authoritative): FALSE BY <1>2, <2>1 DEF GenOf
  <2> QED BY <1>2, <2>1, <2>2, <2>3
<1>5. CASE tr' # None /\ tr'.phase = "commit" /\ tr # tr'
  <2>1. Authoritative' = tr'.succ /\ tr'.succ # None
    BY <1>5, AuthorityTypeNext DEF AuthorityTyped, Committing
  <2>2. made' = [made EXCEPT ![tr'.succ.gen] = tr'.succ.decl] BY <1>5 DEF Makes
  <2>3. made' = made BY <1>2, <1>3, <2>1, <2>2
  <2> QED BY <1>2, <1>3, <2>3
<1>6. CASE made' = made BY <1>2, <1>3, <1>6
<1> QED BY <1>4, <1>5, <1>6 DEF Makes

\* Steps that write no evidence keep what is told.
LEMMA CalmTold ==
  ASSUME Tale, Life', Noted, Calm, Logs, Makes, View(Authoritative)' = View(Authoritative)
  PROVE  LastIsApplied' /\ Told' /\ DigestFirst'
<1>0. Shape /\ Shape' /\ Told /\ LastIsApplied BY DEF Tale, Life
<1>1. log' = log /\ LastIsApplied' BY <1>0, LogKept
<1>2. /\ made' \in [Gens -> {None} \cup Decls]
      /\ Authoritative' = None <=> Authoritative = None
      /\ Authoritative # None => /\ Authoritative'.gen = Authoritative.gen
                                 /\ Authoritative'.decl = Authoritative.decl
                                 /\ made'[Authoritative.gen] = Authoritative.decl
      /\ \A g \in 1 .. GenOf(Authoritative): made'[g] = made[g]
  BY <1>0, MadeKept
<1>3. GenOf(Authoritative)' = GenOf(Authoritative) BY <1>2 DEF GenOf
<1>4. /\ Committing => Authoritative = tr.succ /\ tr.succ # None
      /\ Committing' => Authoritative' = tr'.succ /\ tr'.succ # None
      /\ GenOf(Authoritative) \in 0 .. MaxGen
  BY <1>0, AuthorityType, AuthorityTypeNext DEF AuthorityTyped
<1>5. digest' = digest /\ logged' = logged BY DEF Calm, Noted
<1>6. DigestFirst' BY DEF Tale, DigestFirst, Calm, Publishing
<1>7. CASE /\ Recorded(GenOf(Authoritative))
           /\ Committing /\ ~doomed => last = History("applied", tr.succ.decl, tr.ws)
  <2>1. PICK k \in 0 .. MaxGen: k = GenOf(Authoritative) BY <1>4
  <2>2. Recorded(k)' BY <1>1, <1>2, <1>5, <1>7, <2>1, RecordedKept
  <2>3. Recorded(GenOf(Authoritative))' BY <1>3, <2>1, <2>2
  <2>4. ASSUME Committing', ~doomed'
        PROVE  last' = History("applied", tr'.succ.decl, tr'.ws)
    <3>1. Committing /\ ~doomed /\ tr'.ws = tr.ws BY <2>4 DEF Calm
    <3>2. last' = last BY <3>1 DEF Noted
    <3>3. tr'.succ.decl = tr.succ.decl BY <1>2, <1>4, <2>4, <3>1
    <3> QED BY <1>7, <3>1, <3>2, <3>3
  <2> QED BY <1>1, <1>2, <1>6, <2>3, <2>4 DEF Told, History
<1>8. CASE Committing /\ pc \notin {"p.destroy", "p.clear"} /\ Recorded(tr.succ.gen - 1)
  <2>1. Committing' /\ pc' \notin {"p.destroy", "p.clear"} BY <1>8 DEF Calm
  <2>2. tr'.succ.gen = tr.succ.gen /\ tr.succ.gen = GenOf(Authoritative) /\ tr.succ.gen \in Gens
    BY <1>0, <1>2, <1>4, <1>8, <2>1, AuthorityType DEF GenOf, AuthorityTyped
  <2>3. PICK k \in 0 .. MaxGen: k = tr.succ.gen - 1 BY <2>2, WorldConstants DEF Gens
  <2>4. \A g \in 1 .. k: g \in 1 .. GenOf(Authoritative)
    BY <2>2, <2>3 DEF Gens
  <2>5. Recorded(k)' BY <1>1, <1>2, <1>5, <1>8, <2>3, <2>4, RecordedKept
  <2>6. Recorded(tr.succ.gen - 1)' BY <2>2, <2>3, <2>5
  <2> QED BY <1>1, <1>2, <1>6, <2>1, <2>6 DEF Told
<1> QED BY <1>0, <1>7, <1>8 DEF Told

-----------------------------------------------------------------------------
(* The steps that write evidence *)

\* The commit record: its successor is not recorded yet, all before it are.
LEMMA CommitTold ==
  ASSUME Tale, Life', UpCommit, Logs, Makes
  PROVE  LastIsApplied' /\ Told' /\ DigestFirst'
<1>0. Shape /\ Shape' /\ Told /\ LastIsApplied BY DEF Tale, Life
<1>1. /\ pc = "u.commit" /\ pc' = "p.digest" /\ UNCHANGED <<digest, last, logged, state>>
      /\ tr # None /\ tr.phase = "rollback" /\ tr \in Transition /\ tr.succ \in State
  BY <1>0 DEF UpCommit, Shape, LabelShape, TypeOK, Transition
<1>2. /\ tr' = [tr EXCEPT !.phase = "commit", !.ws = ws,
                          !.succ = [tr.succ EXCEPT !.status = "running", !.proxy = loc.pid]]
      /\ tr' \in {None} \cup Transition
  BY <1>0 DEF UpCommit, Shape, TypeOK
<1>3. tr'.phase = "commit" /\ tr'.succ = [tr.succ EXCEPT !.status = "running", !.proxy = loc.pid]
  BY <1>1, <1>2 DEF Transition
<1>4. tr'.succ.gen = tr.succ.gen /\ tr'.succ.decl = tr.succ.decl BY <1>1, <1>3 DEF State
<1>5. tr' # None
  <2>1. ws \in -1 .. MaxWs BY <1>0, ConstantTypes DEF Shape, TypeOK
  <2>2. tr'.succ \in State BY <1>0, <1>1, <1>3 DEF State, Shape, TypeOK, Locals
  <2>3. tr' \in Transition BY <1>1, <1>2, <1>3, <2>1, <2>2 DEF Transition
  <2> QED BY <2>3, AbsentConstant
<1>6. Committing' /\ Authoritative' = tr'.succ BY <1>3, <1>5 DEF Committing, Authoritative
<1>7. tr.succ.gen \in Gens /\ tr.succ.decl \in Decls BY <1>1 DEF State
<1>8. GenOf(Authoritative) = tr.succ.gen - 1
  <2>1. Authoritative = tr.prior BY <1>1 DEF Authoritative
  <2>2. tr.succ.gen = Succeeds(tr.prior) BY <1>0, <1>1 DEF Shape, RecordShape
  <2>3. tr.prior # None => tr.prior.gen \in Gens BY <1>0, <1>1, RecordGens
  <2> QED BY <2>1, <2>2, <2>3 DEF Succeeds, GenOf, Gens
<1>9. Noted BY <1>1 DEF Noted
<1>10. log' = log /\ LastIsApplied' BY <1>0, <1>9, LogKept
<1>11. made' = [made EXCEPT ![tr.succ.gen] = tr.succ.decl]
  <2>1. tr' # tr BY <1>1, <1>3
  <2> QED BY <1>3, <1>4, <1>5, <2>1 DEF Makes
<1>12. /\ made' \in [Gens -> {None} \cup Decls] /\ made'[tr.succ.gen] = tr.succ.decl
       /\ \A g \in 1 .. tr.succ.gen - 1: made'[g] = made[g]
  BY <1>0, <1>7, <1>11 DEF Told, Gens
<1>13. PICK k \in 0 .. MaxGen: k = tr.succ.gen - 1 BY <1>7, WorldConstants DEF Gens
<1>14. Recorded(k)
  BY <1>0, <1>1, <1>8, <1>13 DEF Told, Committing
<1>15. Recorded(k)' BY <1>1, <1>10, <1>12, <1>13, <1>14, RecordedKept
<1>16. Recorded(tr.succ.gen - 1)' BY <1>4, <1>13, <1>15
<1>17. Told' BY <1>1, <1>4, <1>6, <1>12, <1>16 DEF Told
<1>18. DigestFirst' BY <1>1 DEF DigestFirst
<1> QED BY <1>10, <1>17, <1>18

\* The digest: again the same one, if the record is written.
LEMMA DigestTold ==
  ASSUME Tale, Life', PublishDigest, Logs, Makes
  PROVE  LastIsApplied' /\ Told' /\ DigestFirst'
<1>0. Shape /\ Shape' /\ Told /\ LastIsApplied /\ TypeOK BY DEF Tale, Life, Shape
<1>1. /\ pc = "p.digest" /\ pc' = "p.applied" /\ UNCHANGED <<last, logged, state, tr, doomed>>
      /\ Committing /\ ~doomed
  BY <1>0 DEF PublishDigest, Shape, LabelShape, Committing, Tale, Ruin
<1>2. Authoritative = tr.succ /\ Authoritative' = Authoritative
  BY <1>0, <1>1, AuthorityType DEF AuthorityTyped, Authoritative
<1>3. tr.succ.gen \in Gens /\ tr.succ # None /\ GenOf(Authoritative) = tr.succ.gen
  BY <1>0, <1>1, <1>2, AuthorityType DEF AuthorityTyped, GenOf
<1>4. digest' = [digest EXCEPT ![tr.succ.gen] = tr.ws] BY DEF PublishDigest
<1>5. /\ digest'[tr.succ.gen] = tr.ws
      /\ \A g \in 1 .. tr.succ.gen - 1: digest'[g] = digest[g]
  BY <1>0, <1>3, <1>4 DEF TypeOK, Gens
<1>6. Noted BY <1>1 DEF Noted
<1>7. log' = log /\ LastIsApplied' BY <1>0, <1>6, LogKept
<1>8. made' = made BY <1>1 DEF Makes, Committing
<1>9. DigestFirst' BY <1>1, <1>5 DEF DigestFirst
<1>10. CASE /\ Recorded(GenOf(Authoritative))
            /\ Committing /\ ~doomed => last = History("applied", tr.succ.decl, tr.ws)
  <2>1. PICK k \in 1 .. MaxGen: k = tr.succ.gen BY <1>3 DEF Gens
  <2>2. PICK f \in [1 .. k -> 1 .. Len(log)]: Tells(f, k)
    BY <1>3, <1>10, <2>1 DEF Recorded
  <2>3. last = History("applied", tr.succ.decl, tr.ws) BY <1>1, <1>10
  <2>4. last.what = "applied" /\ last.ws = tr.ws BY <2>3 DEF History
  <2>5. last # None
    BY <2>3, <2>2, <1>0 DEF LastIsApplied
  <2>6. last = log[Len(log)] BY <1>0, <2>4, <2>5 DEF LastIsApplied
  <2>7. digest[k] = tr.ws BY <2>1, <2>2, <2>4, <2>6 DEF Tells
  <2>8. \A g \in 1 .. k: digest'[g] = digest[g]
    BY <1>5, <2>1, <2>7
  <2>9. k \in 0 .. MaxGen /\ Recorded(k) BY <1>3, <1>10, <2>1
  <2>10. Recorded(k)' BY <1>1, <1>7, <1>8, <2>8, <2>9, RecordedKept
  <2>11. Recorded(GenOf(Authoritative))' BY <1>2, <1>3, <2>1, <2>10 DEF GenOf
  <2> QED BY <1>0, <1>1, <1>2, <1>7, <1>8, <1>9, <2>3, <2>11 DEF Told, History
<1>11. CASE Committing /\ pc \notin {"p.destroy", "p.clear"} /\ Recorded(tr.succ.gen - 1)
  <2>1. PICK k \in 0 .. MaxGen: k = tr.succ.gen - 1 BY <1>3, WorldConstants DEF Gens
  <2>2. Recorded(k)' BY <1>1, <1>5, <1>7, <1>8, <1>11, <2>1, RecordedKept
  <2>3. Recorded(tr.succ.gen - 1)' BY <1>1, <2>1, <2>2
  <2>4. Committing' BY <1>1 DEF Committing
  <2> QED BY <1>0, <1>1, <1>2, <1>7, <1>8, <1>9, <2>3, <2>4 DEF Told
<1> QED BY <1>0, <1>10, <1>11 DEF Told

\* The tombstone: nothing is left to explain.
LEMMA RenameTold ==
  ASSUME Tale, Life', DestroyRename, Logs, Makes
  PROVE  LastIsApplied' /\ Told' /\ DigestFirst'
<1>1. /\ state' = None /\ tr' = None /\ last' = None /\ pc' = "idle"
      /\ logged' = [g \in Gens |-> 0]
  BY DEF DestroyRename, Return
<1>2. log' = <<>> /\ made' = [g \in Gens |-> None] BY <1>1 DEF Logs, Makes
<1>3. Authoritative' = None /\ ~Committing' BY <1>1 DEF Authoritative, Committing
<1>4. Recorded(0)' BY <1>1, <1>2 DEF Recorded
<1>5. Recorded(GenOf(Authoritative))' BY <1>3, <1>4 DEF GenOf
<1>6. Told' BY <1>2, <1>3, <1>5 DEF Told
<1> QED BY <1>1, <1>2, <1>6 DEF LastIsApplied, DigestFirst
\* One more generation, whose record is the last one: a new one, or, where
\* AppendOnce suppressed it, the one of the generation before.
LEMMA OneMore ==
  ASSUME NEW k \in Gens, Recorded(k - 1), NEW n \in Nat, NEW m \in Nat,
         n = Len(log), m = Len(log'), m \in {n, n + 1}, m > 0,
         \A i \in 1 .. n: log'[i] = log[i],
         digest[k] = log'[m].ws, made[k] = log'[m].decl,
         digest' = digest, made' = made, log \in Seq(Record),
         \A g \in Gens: g > k => logged'[g] = 0
  PROVE  Recorded(k)'
<1>1. k \in Int /\ k > 0 /\ k <= MaxGen BY DEF Gens
<1>2. CASE k = 1
  <2>1. log = <<>> /\ n = 0 /\ m = 1 BY <1>2 DEF Recorded
  <2> DEFINE h == [i \in 1 .. k |-> 1]
  <2>2. h \in [1 .. k -> 1 .. Len(log')] BY <1>2, <2>1
  <2>3. Tells(h, k)' BY <1>2, <2>1, <2>2 DEF Tells
  <2> HIDE DEF h
  <2> QED BY <1>2, <2>2, <2>3 DEF Recorded
<1>3. CASE k > 1
  <2>1. PICK f \in [1 .. k - 1 -> 1 .. Len(log)]: Tells(f, k - 1) BY <1>1, <1>3 DEF Recorded
  <2> DEFINE h == [i \in 1 .. k |-> IF i = k THEN m ELSE f[i]]
  <2>2. /\ h[k] = m
        /\ \A i \in 1 .. k - 1: h[i] = f[i] /\ f[i] \in 1 .. n
    BY <1>1, <2>1
  <2>3. n <= m /\ n \in 1 .. m /\ \A i \in 1 .. k - 1: f[i] \in 1 .. m
    <3>1. \A i \in 1 .. n: i \in 1 .. m OBVIOUS
    <3>2. 1 \in 1 .. k - 1 BY <1>1, <1>3
    <3> QED BY <2>2, <3>1, <3>2
  <2>4. h \in [1 .. k -> 1 .. Len(log')] BY <1>1, <2>1, <2>3
  <2>5. h[1] = 1 /\ h[k] = Len(log')
    <3>1. 1 \in 1 .. k - 1 /\ f[1] = 1 BY <1>1, <1>3, <2>1 DEF Tells
    <3> QED BY <2>2, <3>1
  <2>6. ASSUME NEW g \in 1 .. k
        PROVE  digest'[g] = log'[h[g]].ws /\ made'[g] = log'[h[g]].decl
    <3>1. CASE g = k BY <2>2, <3>1
    <3>2. CASE g # k
      <4>1. g \in 1 .. k - 1 BY <1>1, <3>2
      <4>2. digest[g] = log[f[g]].ws /\ made[g] = log[f[g]].decl BY <2>1, <4>1 DEF Tells
      <4>3. log'[f[g]] = log[f[g]] /\ h[g] = f[g] BY <2>2, <4>1
      <4> QED BY <4>2, <4>3
    <3> QED BY <3>1, <3>2
  <2>7. ASSUME NEW g \in 2 .. k
        PROVE  h[g] \in {h[g - 1], h[g - 1] + 1}
    <3>1. g - 1 \in 1 .. k - 1 BY <1>1
    <3>2. h[g - 1] = f[g - 1] BY <2>2, <3>1
    <3>3. CASE g = k
      <4>1. f[k - 1] = n BY <2>1 DEF Tells
      <4> QED BY <2>2, <3>2, <3>3, <4>1
    <3>4. CASE g # k
      <4>1. g \in 2 .. k - 1 /\ g \in 1 .. k - 1 BY <1>1, <3>4
      <4>2. f[g] \in {f[g - 1], f[g - 1] + 1} BY <2>1, <4>1 DEF Tells
      <4> QED BY <2>2, <3>2, <4>1, <4>2
    <3> QED BY <3>3, <3>4
  <2> HIDE DEF h
  <2>8. Tells(h, k)' BY <2>5, <2>6, <2>7 DEF Tells
  <2>9. k # 0 BY <1>1
  <2> QED BY <2>4, <2>8, <2>9 DEF Recorded
<1> QED BY <1>1, <1>2, <1>3

\* The applied record: new, suppressed because the predecessor's reads the same, or
\* suppressed because this one is written already.
LEMMA HistoryTold ==
  ASSUME Tale, Life', PublishHistory, Logs, Makes
  PROVE  LastIsApplied' /\ Told' /\ DigestFirst'
<1>0. Shape /\ Shape' /\ Told /\ LastIsApplied /\ TypeOK BY DEF Tale, Life, Shape
<1>1. /\ pc = "p.history" /\ pc' = "p.destroy" /\ UNCHANGED <<state, tr, doomed, digest>>
      /\ Committing /\ ~doomed
  BY <1>0 DEF PublishHistory, Shape, LabelShape, Committing, Tale, Ruin
<1>2. /\ tr.succ.gen \in Gens /\ tr.succ.decl \in Decls /\ tr.succ # None
      /\ GenOf(Authoritative) = tr.succ.gen /\ Authoritative = tr.succ
      /\ Authoritative' = tr.succ
  BY <1>0, <1>1, AuthorityType DEF AuthorityTyped, GenOf, Authoritative
<1>3. tr.ws \in 0 .. MaxWs
  <2>1. tr \in Transition /\ tr.ws # -1 /\ tr.ws \in -1 .. MaxWs
    BY <1>0, <1>1 DEF Committing, Shape, RecordShape, TypeOK, Transition
  <2> QED BY <2>1
<1>4. PICK r \in Record: r = History("applied", tr.succ.decl, tr.ws)
  BY <1>2, <1>3 DEF History, Record
<1>5. /\ r.what = "applied" /\ r.decl = tr.succ.decl /\ r.ws = tr.ws /\ r # None
  BY <1>4, AbsentRecord DEF History
<1>6. digest[tr.succ.gen] = r.ws /\ made[tr.succ.gen] = r.decl
  BY <1>0, <1>1, <1>2, <1>5 DEF Tale, DigestFirst, Told
<1>7. made' = made BY <1>1 DEF Makes, Committing
<1>8. AppendOnce(r, tr.succ.gen) BY <1>4 DEF PublishHistory
<1>9. last' = r /\ (last = r => logged' = logged) BY <1>8 DEF AppendOnce
<1>10. DigestFirst' BY <1>1, <1>5, <1>6 DEF DigestFirst
<1>11. log \in Seq(Record) BY <1>0 DEF LastIsApplied
<1>12. PICK k \in Gens: k = tr.succ.gen BY <1>2
<1>13. Committing' /\ tr'.succ.gen = k /\ GenOf(Authoritative') = k
  BY <1>1, <1>2, <1>12 DEF Committing, GenOf
<1>14. last' = History("applied", tr'.succ.decl, tr'.ws) BY <1>1, <1>4, <1>9
<1>15. ASSUME LastIsApplied', Recorded(k)' PROVE Told'
  <2>1. Recorded(GenOf(Authoritative))' BY <1>13, <1>15
  <2>2. Authoritative' # None => made'[Authoritative'.gen] = Authoritative'.decl
    BY <1>2, <1>5, <1>6, <1>7
  <2>3. made' \in [Gens -> {None} \cup Decls] BY <1>0, <1>7 DEF Told
  <2> QED BY <1>14, <2>1, <2>2, <2>3 DEF Told, History
<1>16. CASE last = r
  <2>1. log' = log /\ logged' = logged BY <1>5, <1>9, <1>16 DEF Logs
  <2>2. LastIsApplied' BY <1>0, <1>9, <1>16, <2>1 DEF LastIsApplied
  <2>3. log # <<>> /\ log[Len(log)] = r BY <1>0, <1>5, <1>16 DEF LastIsApplied
  <2>4. CASE Recorded(GenOf(Authoritative))
    <3>1. k \in 0 .. MaxGen /\ Recorded(k) BY <1>2, <1>12, <2>4, ConstantTypes
    <3>2. Recorded(k)' BY <1>1, <1>7, <2>1, <3>1, RecordedKept
    <3> QED BY <1>10, <1>15, <2>2, <3>2
  <2>5. CASE Recorded(tr.succ.gen - 1)
    <3>1. \A g \in Gens: g > k => logged'[g] = 0
      BY <1>12, <2>1, <2>5 DEF Recorded, Gens
    <3>2. PICK n \in Nat: n = Len(log) /\ n > 0 BY <1>11, <2>3
    <3>3. Recorded(k)'
      BY <1>1, <1>6, <1>7, <1>11, <1>12, <2>1, <2>3, <2>5, <3>1, <3>2, OneMore
    <3> QED BY <1>10, <1>15, <2>2, <3>3
  <2> QED BY <1>0, <2>4, <2>5 DEF Told
<1>17. CASE last # r
  <2>1. Recorded(k - 1) /\ logged[k] = 0
    <3>1. Recorded(k - 1) BY <1>0, <1>1, <1>4, <1>12, <1>17 DEF Told
    <3> QED BY <3>1 DEF Recorded, Gens
  <2>2. logged' = [logged EXCEPT ![k] = 1] BY <1>0, <1>8, <1>12, <1>17, <2>1 DEF AppendOnce
  <2>3. logged' # logged BY <1>0, <2>1, <2>2 DEF TypeOK
  <2>4. log' = Append(log, r) BY <1>5, <1>9, <2>3 DEF Logs
  <2>5. PICK n \in Nat: n = Len(log) BY <1>11
  <2>6. /\ Len(log') = n + 1 /\ log'[n + 1] = r /\ log' \in Seq(Record)
        /\ \A i \in 1 .. n: log'[i] = log[i]
    BY <1>11, <2>4, <2>5
  <2>7. LastIsApplied' BY <1>5, <1>9, <2>6 DEF LastIsApplied
  <2>8. \A g \in Gens: g > k => logged'[g] = 0
    BY <1>0, <2>1, <2>2 DEF Recorded, Gens, TypeOK
  <2>9. Recorded(k)'
    <3>1. n + 1 \in Nat /\ n + 1 \in {n, n + 1} /\ n + 1 > 0 BY <2>5
    <3> QED BY <1>1, <1>6, <1>7, <1>11, <1>12, <2>1, <2>5, <2>6, <2>8, <3>1, OneMore
  <2> QED BY <1>10, <1>15, <2>7, <2>9
<1> QED BY <1>16, <1>17
-----------------------------------------------------------------------------
(* What an unfinished destroy leaves alone *)

\* Which steps write each of the files that are read for intent, and set doomed.
Authors ==
  /\ \/ UNCHANGED <<state, applied, plan>>
     \/ PublishApplied \/ PublishPlan \/ PublishState \/ RestoreApplied \/ RestorePlan
     \/ RestoreState \/ RollbackApplied \/ RollbackPlan \/ RollbackState \/ AdoptPlan
     \/ AdoptState \/ DownState \/ DestroyRename
  /\ \/ tr' = tr \/ tr' = None
     \/ UpRecord \/ UpCapture \/ UpCommit \/ CommitRecord
  /\ doomed' = doomed \/ DestroyFirst \/ UpCommit \/ DestroyRename

\* Step by step.
LEMMA StepAuthors ==
  ASSUME [Next]_vars
  PROVE  Authors
<1>1. CASE UpStep
  BY <1>1
  DEF Authors, UpStep, UpRead, UpLoad, UpCreate, UpMaterialize, UpStopDoor, EndDoor, UpStop,
      UpStart, UpVerify, SpawnDoor, ReadyDoor, StartServices, UpReverify, UpRecord, UpCapture,
      UpCommit, PublishDigest, PublishApplied, PublishPlan, PublishState, PublishHistory,
      PublishDestroy, PublishClear, CleanupDoor, CleanupStop, CleanupDestroy, CleanupClear,
      Write
<1>2. CASE AdoptStep
  BY <1>2
  DEF Authors, AdoptStep, AdoptStart, AdoptVerify, AdoptKeepDoor, AdoptSpawnDoor, AdoptNoDoor,
      SpawnDoor, ReadyDoor, StartServices, AdoptPlan, AdoptState, AdoptHistory, AdoptUndo,
      AdoptUnstart, Write
<1>3. CASE RecoverStep
  BY <1>3
  DEF Authors, RecoverStep, Recover, CommitStart, CommitVerify, CommitRecord, SpawnDoor,
      ReadyDoor, StartServices, RollbackDoor, EndDoor, RollbackDestroy, RollbackApplied,
      RollbackPlan, RollbackState, RollbackClear, RestoreStart, RestoreVerify,
      RestoreApplied, RestorePlan, RestoreState, Write
<1>4. CASE DownStep \/ DestroyStep
  BY <1>4
  DEF Authors, DownStep, DownStop, DownDoor, EndDoor, DownState, DownHistory, DestroyStep,
      DestroyFirst, DestroySecond, DestroyDoor, DestroyHistory, DestroyRename, Write
<1>5. CASE Command \/ Failure \/ WorldWrites
  BY <1>5
  DEF Authors, Command, Begin, Failure, Crash, Reboot, HostFailure, LostReply, ContainerExit,
      DoorExit, WorldWrites
<1>6. CASE UNCHANGED vars BY <1>6 DEF Authors, vars
<1> QED BY <1>1, <1>2, <1>3, <1>4, <1>5, <1>6 DEF Next, Step

\* Labels that complete a world or adopt it.
Converging == CommitLabels \cup PublishLabels \cup AdoptLabels

\* A failing call stays where it was.
LEMMA FailConverges ==
  ASSUME pc \in Labels, Fail(pc), pc' \in Converging
  PROVE  pc \in Converging
BY DEF Fail, OnError, CleanupNext, Converging

\* They are entered by the commit record, or past a look at the container.
LEMMA StepConverges ==
  ASSUME [Next]_vars, pc' \in Converging
  PROVE  pc \in Converging \/ UpCommit \/ UpRead \/ Recover
<1>1. CASE Fail(pc) /\ pc \in Labels BY <1>1, FailConverges
<1>2. CASE UpStep
  <2>1. CASE UpLoad \/ UpCreate \/ UpMaterialize \/ UpRecord \/ UpStopDoor \/ UpStop
             \/ UpCapture \/ UpStart \/ UpVerify \/ UpReverify
    BY <1>1, <2>1
    DEF UpLoad, UpCreate, UpMaterialize, UpRecord, UpStopDoor, EndDoor, UpStop, UpCapture,
      UpStart, UpVerify, UpReverify, Write, Return, Converging
  <2>2. CASE \/ SpawnDoor("u.door", "u.ready", loc.gen)
             \/ ReadyDoor("u.ready", "u.services")
             \/ StartServices("u.services", "u.reverify", loc.gen)
    BY <1>1, <2>2 DEF SpawnDoor, ReadyDoor, StartServices, Converging
  <2>3. CASE CleanupDoor \/ CleanupStop \/ CleanupDestroy \/ CleanupClear
    BY <2>3 DEF CleanupDoor, CleanupStop, CleanupDestroy, CleanupClear, CleanupNext, Return,
      Converging
  <2>4. CASE PublishDigest \/ PublishApplied \/ PublishPlan \/ PublishState \/ PublishHistory
             \/ PublishDestroy \/ PublishClear
    BY <2>4 DEF PublishDigest, PublishApplied, PublishPlan, PublishState, PublishHistory,
      PublishDestroy, PublishClear, Write, Converging
  <2> QED BY <1>2, <2>1, <2>2, <2>3, <2>4 DEF UpStep
<1>3. CASE AdoptStep
  BY <1>3
  DEF AdoptStep, AdoptStart, AdoptVerify, AdoptKeepDoor, AdoptSpawnDoor, AdoptNoDoor,
      SpawnDoor, ReadyDoor, StartServices, AdoptPlan, AdoptState, AdoptHistory, AdoptUndo,
      AdoptUnstart, Write, Converging
<1>4. CASE RecoverStep
  <2>1. CASE CommitStart \/ CommitVerify \/ CommitRecord \/ RollbackDoor \/ RollbackDestroy
             \/ RollbackApplied \/ RollbackPlan \/ RollbackState \/ RollbackClear
             \/ RestoreStart \/ RestoreVerify \/ RestoreApplied \/ RestorePlan \/ RestoreState
    BY <1>1, <2>1
    DEF CommitStart, CommitVerify, CommitRecord, RollbackDoor, EndDoor, RollbackDestroy,
      RollbackApplied, RollbackPlan, RollbackState, RollbackClear, Recovered, RestoreStart,
      RestoreVerify, RestoreApplied, RestorePlan, RestoreState, Write, Converging
  <2>2. CASE \/ SpawnDoor("m.door", "m.ready", tr.succ.gen)
             \/ ReadyDoor("m.ready", "m.record")
             \/ StartServices("m.services", "p.digest", tr.succ.gen)
             \/ SpawnDoor("r.door", "r.ready", tr.prior.gen)
             \/ ReadyDoor("r.ready", "r.services")
             \/ StartServices("r.services", "r.applied", tr.prior.gen)
    BY <1>1, <2>2 DEF SpawnDoor, ReadyDoor, StartServices, Converging
  <2> QED BY <1>4, <2>1, <2>2 DEF RecoverStep
<1>5. CASE DownStep \/ DestroyStep
  BY <1>5
  DEF DownStep, DownStop, DownDoor, EndDoor, DownState, DownHistory, DestroyStep, DestroyFirst,
      DestroySecond, DestroyDoor, DestroyHistory, DestroyRename, Return, Write, Converging
<1>6. CASE Command \/ Failure \/ WorldWrites
  <2>1. CASE Command \/ Crash \/ Reboot
    BY <2>1 DEF Command, Begin, Crash, Reboot, Return, Converging
  <2>2. CASE HostFailure \/ LostReply
    BY <1>1, <2>2, FailureConstants DEF HostFailure, LostReply
  <2>3. CASE (\E g \in Gens: ContainerExit(g)) \/ (\E p \in Pids: DoorExit(p)) \/ WorldWrites
    BY <2>3 DEF ContainerExit, DoorExit, WorldWrites
  <2> QED BY <1>6, <2>1, <2>2, <2>3 DEF Failure
<1>7. CASE UNCHANGED vars BY <1>7 DEF vars
<1> QED BY <1>2, <1>3, <1>4, <1>5, <1>6, <1>7 DEF Next, Step

\* A container that is gone comes back only as the successor that up stages, or
\* where a world is completed or adopted.
LEMMA StepRevives ==
  ASSUME Shape, [Next]_vars, NEW g \in Gens, ctr[g] = "absent", ctr'[g] # "absent"
  PROVE  pc \in Converging \/ (pc \in {"u.create", "u.materialize", "u.start"} /\ g = loc.gen)
<1>0. ctr \in [Gens -> CtrStatus] BY DEF Shape, TypeOK
<1>1. CASE UNCHANGED ctr BY <1>1
<1>2. ASSUME NEW h, StopCtr(h) \/ DestroyCtr(h) PROVE FALSE
  BY <1>0, <1>2 DEF StopCtr, DestroyCtr, Running
<1>3. CASE UpStep
  BY <1>0, <1>1, <1>2, <1>3
  DEF UpStep, UpRead, UpLoad, UpCreate, CreateCtr, UpMaterialize, UpStopDoor, EndDoor, UpStop,
      UpStart, StartCtr, UpVerify, SpawnDoor, ReadyDoor, StartServices, Running, UpReverify,
      UpRecord, UpCapture, UpCommit, PublishDigest, PublishApplied, PublishPlan, PublishState,
      PublishHistory, PublishDestroy, PublishClear, CleanupDoor, CleanupStop, CleanupDestroy,
      CleanupClear, Write
<1>4. CASE AdoptStep
  BY <1>4
  DEF AdoptStep, AdoptStart, AdoptVerify, AdoptKeepDoor, AdoptSpawnDoor, AdoptNoDoor,
      SpawnDoor, ReadyDoor, StartServices, AdoptPlan, AdoptState, AdoptHistory, AdoptUndo,
      AdoptUnstart, Write, Converging
<1>5. CASE RecoverStep
  BY <1>0, <1>1, <1>2, <1>5
  DEF RecoverStep, Recover, CommitStart, CommitVerify, CommitRecord, SpawnDoor, ReadyDoor,
      StartServices, Running, RollbackDoor, EndDoor, RollbackDestroy, RollbackApplied,
      RollbackPlan, RollbackState, RollbackClear, RestoreStart, StartCtr, RestoreVerify,
      RestoreApplied, RestorePlan, RestoreState, Write, Converging
<1>6. CASE DownStep \/ DestroyStep
  BY <1>1, <1>2, <1>6
  DEF DownStep, DownStop, DownDoor, EndDoor, DownState, DownHistory, DestroyStep, DestroyFirst,
      DestroySecond, DestroyDoor, DestroyHistory, DestroyRename, Write
<1>7. CASE Command \/ Failure \/ WorldWrites
  BY <1>0, <1>1, <1>2, <1>7
  DEF Command, Begin, Failure, Crash, Reboot, Running, HostFailure, LostReply, CreateCtr,
      StartCtr, ContainerExit, DoorExit, WorldWrites
<1>8. CASE UNCHANGED vars BY <1>1, <1>8 DEF vars
<1> QED BY <1>3, <1>4, <1>5, <1>6, <1>7, <1>8 DEF Next, Step
\* An unfinished destroy is finished by the next one, or the world is replaced.
LEMMA RuinKept ==
  ASSUME Tale, Life', [Next]_vars
  PROVE  Ruin'
<1>0. Shape /\ Shape' /\ Ruin BY DEF Tale, Life
<1> SUFFICES ASSUME doomed' PROVE Ruin' BY DEF Ruin
<1>1. ~UpCommit /\ ~DestroyRename BY DEF UpCommit, DestroyRename
<1>2. View(Authoritative)' = View(Authoritative) BY <1>0, <1>1, StepStutters
<1>3. /\ Authoritative' = None <=> Authoritative = None
      /\ Authoritative # None =>
           Authoritative'.gen = Authoritative.gen /\ Authoritative.gen \in Gens
  <2>1. View(Authoritative') = View(Authoritative) BY <1>2 DEF View
  <2>2. /\ Authoritative \in {None} \cup State /\ Authoritative' \in {None} \cup State
        /\ Authoritative # None => Authoritative.gen \in Gens
    BY <1>0, AuthorityType, AuthorityTypeNext DEF AuthorityTyped
  <2> QED BY <2>1, <2>2, SameView
<1>4. CASE DestroyFirst
  <2>1. CASE tr = None /\ state = None
    <3>1. doomed /\ pc' = "idle" /\ ctr' = ctr BY <1>4, <2>1 DEF DestroyFirst, Return
    <3> QED BY <1>0, <1>3, <3>1 DEF Ruin
  <2>2. CASE ~(tr = None /\ state = None)
    <3>1. /\ pc' = "x.second"
          /\ Authoritative # None => DestroyCtr(Authoritative.gen)
      BY <1>4, <2>2 DEF DestroyFirst
    <3>2. Authoritative # None => ctr'[Authoritative.gen] = "absent"
      BY <1>0, <1>3, <3>1 DEF DestroyCtr, Shape, TypeOK
    <3> QED BY <1>3, <3>1, <3>2 DEF Ruin
  <2> QED BY <2>1, <2>2
<1>5. CASE ~DestroyFirst
  <2>1. doomed BY <1>1, <1>5, StepAuthors DEF Authors
  <2>2. /\ pc \notin Converging
        /\ Authoritative # None => ctr[Authoritative.gen] = "absent"
    BY <1>0, <2>1 DEF Ruin, Converging
  <2>3. pc' \notin Converging
    <3>1. CASE UpRead
      <4>1. tr = None BY <1>0, <3>1 DEF UpRead, Shape, LabelShape
      <4>2. state # None => ctr[state.gen] = "absent" BY <2>2, <4>1 DEF Authoritative
      <4> QED BY <3>1, <4>2 DEF UpRead, Converging
    <3>2. CASE Recover
      <4>1. tr # None /\ tr.phase = "commit" => ctr[tr.succ.gen] = "absent"
        BY <1>0, <2>2, AuthorityType DEF AuthorityTyped, Committing
      <4> QED BY <3>2, <4>1 DEF Recover, Recovered, Return, Converging
    <3> QED BY <1>1, <2>2, <3>1, <3>2, StepConverges
  <2>4. ASSUME Authoritative # None PROVE ctr'[Authoritative.gen] = "absent"
    <3>1. PICK g \in Gens: g = Authoritative.gen BY <1>3, <2>4
    <3> SUFFICES ASSUME ctr'[g] # "absent" PROVE FALSE BY <3>1
    <3>2. pc \in {"u.create", "u.materialize", "u.start"} /\ g = loc.gen
      BY <1>0, <2>2, <2>4, <3>1, StepRevives
    <3>3. InUp BY <3>2 DEF InUp
    <3>4. /\ loc.prior # None => loc.gen # loc.prior.gen
          /\ tr # None => tr.prior = loc.prior
          /\ tr = None /\ state # None => loc.gen # state.gen
      BY <1>0, <3>3, StagedGen
    <3>5. tr # None => tr.phase = "rollback" BY <1>0, <3>2 DEF Shape, LabelShape
    <3>6. Authoritative = IF tr = None THEN state ELSE loc.prior
      BY <3>4, <3>5 DEF Authoritative
    <3> QED BY <2>4, <3>1, <3>2, <3>4, <3>6
  <2> QED BY <1>3, <2>3, <2>4 DEF Ruin, Converging
<1> QED BY <1>4, <1>5

\* In a doomed world only the files of the predecessor are written, over themselves.
LEMMA AgreesKept ==
  ASSUME Tale, Life', [Next]_vars
  PROVE  Agrees'
<1>0. Shape /\ Shape' /\ Ruin /\ Agrees /\ Life BY DEF Tale, Life
<1> SUFFICES ASSUME ~Committing' PROVE Agrees' BY DEF Agrees
<1>1. tr' # None => tr'.phase \in {"rollback", "commit"} BY <1>0 DEF Shape, TypeOK, Transition
<1>2. CASE ~doomed'
  <2>1. Complete' BY DEF Life
  <2>2. Whole' BY <1>1, <1>2, <2>1 DEF Complete, Committing
  <2> QED BY <2>2 DEF Whole, Agrees
<1>3. CASE doomed' /\ DestroyFirst
  <2>1. UNCHANGED <<state, applied, plan, tr>> BY <1>3 DEF DestroyFirst
  <2> QED BY <1>0, <2>1 DEF Agrees, Committing
<1>4. CASE doomed' /\ ~DestroyFirst
  <2>1. ~UpCommit /\ ~DestroyRename BY <1>4 DEF UpCommit, DestroyRename
  <2>2. doomed BY <1>4, <2>1, StepAuthors DEF Authors
  <2>3. pc \notin Converging BY <1>0, <2>2 DEF Ruin, Converging
  <2>4. /\ ~PublishDigest /\ ~PublishHistory /\ ~PublishApplied /\ ~PublishPlan
        /\ ~PublishState /\ ~AdoptPlan /\ ~AdoptState
    BY <2>3 DEF Converging, PublishDigest, PublishHistory, PublishApplied, PublishPlan,
      PublishState, AdoptPlan, AdoptState, Write
  <2>5. Calm BY <1>0, <2>1, <2>4, StepCalm
  <2>6. ~Committing BY <2>3, <2>5 DEF Calm, Converging
  <2>7. IF state = None THEN applied = None /\ plan = None
        ELSE applied = state.decl /\ plan = state.decl
    BY <1>0, <2>6 DEF Agrees
  <2>8. CASE UNCHANGED <<state, applied, plan>> BY <2>7, <2>8 DEF Agrees
  <2>9. CASE \/ RestoreApplied \/ RestorePlan \/ RestoreState
             \/ RollbackApplied \/ RollbackPlan \/ RollbackState
    <3>1. tr # None /\ tr.phase = "rollback" /\ tr.prior \in {None} \cup State
      BY <1>0, <2>9, RecordGens DEF Shape, LabelShape, RestoreApplied, RestorePlan,
        RestoreState, RollbackApplied, RollbackPlan, RollbackState, Write
    <3>2. /\ state = None <=> tr.prior = None
          /\ state # None => tr.prior.decl = state.decl
      BY <1>0, <3>1, PriorIsState
    <3>3. CASE RestoreApplied \/ RestorePlan \/ RollbackApplied \/ RollbackPlan
      <4>1. RestoreApplied \/ RestorePlan => tr.prior # None
        BY <1>0 DEF Shape, LabelShape, RestoreApplied, RestorePlan, Write
      <4>2. UNCHANGED <<state, applied, plan>>
        BY <2>7, <3>2, <3>3, <4>1 DEF RestoreApplied, RestorePlan, RollbackApplied,
          RollbackPlan, PriorDecl, Write
      <4> QED BY <2>8, <4>2
    <3>4. CASE RollbackState
      <4>1. state' = tr.prior /\ applied' = applied /\ plan' = plan
        BY <3>4 DEF RollbackState, Write
      <4> QED BY <2>7, <3>2, <4>1 DEF Agrees
    <3>5. CASE RestoreState
      <4>1. /\ state' = [tr.prior EXCEPT !.status = "running", !.proxy = loc.pid]
            /\ applied' = applied /\ plan' = plan
        BY <3>5 DEF RestoreState, Write
      <4>2. tr.prior # None /\ tr.prior \in State
        BY <1>0, <3>1, <3>5 DEF RestoreState, Write, Shape, LabelShape
      <4>3. state' \in State /\ state'.decl = tr.prior.decl
        BY <1>0, <4>1, <4>2 DEF State, Shape, TypeOK, Locals
      <4>4. state' # None BY <4>3, AbsentConstant
      <4> QED BY <2>7, <3>2, <4>1, <4>2, <4>3, <4>4 DEF Agrees
    <3> QED BY <2>9, <3>3, <3>4, <3>5
  <2>10. CASE DownState
    <3>1. /\ state' = [state EXCEPT !.status = "down", !.proxy = 0]
          /\ applied' = applied /\ plan' = plan
      BY <2>10 DEF DownState, Write
    <3>2. state # None /\ state \in State
      BY <1>0, <2>10 DEF DownState, Write, Shape, LabelShape, TypeOK
    <3>3. state' \in State /\ state'.decl = state.decl
      BY <3>1, <3>2, ConstantTypes DEF State
    <3>4. state' # None BY <3>3, AbsentConstant
    <3> QED BY <2>7, <3>1, <3>2, <3>3, <3>4 DEF Agrees
  <2> QED BY <2>1, <2>4, <2>8, <2>9, <2>10, StepAuthors DEF Authors
<1> QED BY <1>2, <1>3, <1>4

\* A failing call keeps what up read, or returns.
LEMMA FailPrior ==
  ASSUME loc \in Locals, Fail(pc)
  PROVE  loc'.prior \in {loc.prior, None}
BY DEF Fail, Locals, NoLocals

\* Only up reads a predecessor.
LEMMA StepPrior ==
  ASSUME Shape, [Next]_vars, ~UpRead
  PROVE  loc'.prior \in {loc.prior, None}
<1>0. loc \in Locals BY DEF Shape, TypeOK
<1>1. CASE loc' = loc \/ Return \/ Fail(pc)
  BY <1>0, <1>1, FailPrior DEF Return, NoLocals
<1>2. ASSUME NEW o, NEW d, loc' = [NoLocals EXCEPT !.op = o, !.decl = d]
      PROVE  loc'.prior = None
  BY <1>2 DEF NoLocals
<1>3. CASE UpLoad \/ UpRecord \/ UpStart \/ CommitStart \/ Recover \/ RestoreVerify
  BY <1>0, <1>1, <1>3
  DEF UpLoad, UpRecord, UpStart, CommitStart, Recover, RestoreVerify, Locals
<1>4. ASSUME NEW at, NEW to, NEW g, SpawnDoor(at, to, g) \/ ReadyDoor(at, to)
      PROVE  loc'.prior \in {loc.prior, None}
  BY <1>0, <1>1, <1>4 DEF SpawnDoor, ReadyDoor, Locals
<1>5. CASE UpStep
  <2>1. CASE \/ UpCreate \/ UpMaterialize \/ UpStopDoor \/ UpStop \/ UpCapture \/ UpVerify
             \/ StartServices("u.services", "u.reverify", loc.gen) \/ UpReverify \/ UpCommit
             \/ CleanupDoor \/ CleanupStop \/ CleanupDestroy \/ CleanupClear
    BY <1>1, <2>1
    DEF UpCreate, UpMaterialize, UpStopDoor, EndDoor, UpStop, UpCapture, UpVerify,
      StartServices, UpReverify, UpCommit, CleanupDoor, CleanupStop, CleanupDestroy,
      CleanupClear, Write
  <2>2. CASE PublishDigest \/ PublishApplied \/ PublishPlan \/ PublishState
             \/ PublishHistory \/ PublishDestroy \/ PublishClear
    BY <1>1, <1>2, <2>2
    DEF PublishDigest, PublishApplied, PublishPlan, PublishState, PublishHistory,
      PublishDestroy, PublishClear, Write
  <2> QED BY <1>3, <1>4, <1>5, <2>1, <2>2 DEF UpStep
<1>6. CASE AdoptStep
  BY <1>0, <1>1, <1>6
  DEF AdoptStep, AdoptStart, AdoptVerify, AdoptKeepDoor, AdoptSpawnDoor, AdoptNoDoor,
      SpawnDoor, ReadyDoor, StartServices, AdoptPlan, AdoptState, AdoptHistory, AdoptUndo,
      AdoptUnstart, Write, Locals
<1>7. CASE RecoverStep
  <2>1. CASE \/ CommitVerify \/ CommitRecord \/ RestoreStart
             \/ StartServices("m.services", "p.digest", tr.succ.gen)
             \/ StartServices("r.services", "r.applied", tr.prior.gen)
             \/ RollbackDoor \/ RollbackDestroy \/ RollbackApplied \/ RollbackPlan
             \/ RollbackState \/ RollbackClear \/ RestoreApplied \/ RestorePlan
             \/ RestoreState
    BY <1>1, <1>2, <2>1
    DEF CommitVerify, CommitRecord, RestoreStart, StartServices, RollbackDoor, EndDoor,
      RollbackDestroy, RollbackApplied, RollbackPlan, RollbackState, RollbackClear,
      RestoreApplied, RestorePlan, RestoreState, Write
  <2> QED BY <1>3, <1>4, <1>7, <2>1 DEF RecoverStep
<1>8. CASE DownStep \/ DestroyStep
  BY <1>8
  DEF DownStep, DownStop, DownDoor, EndDoor, DownState, DownHistory, DestroyStep,
      DestroyFirst, DestroySecond, DestroyDoor, DestroyHistory, DestroyRename, Write, Return,
      NoLocals
<1>9. CASE Command \/ Failure \/ WorldWrites
  BY <1>1, <1>2, <1>9
  DEF Command, Begin, Failure, Crash, Reboot, HostFailure, LostReply, ContainerExit,
      DoorExit, WorldWrites
<1>10. CASE UNCHANGED vars BY <1>10 DEF vars
<1> QED BY <1>5, <1>6, <1>7, <1>8, <1>9, <1>10 DEF Next, Step
\* Only the predecessor, or a successor that runs, becomes state.json.
LEMMA StartedKept ==
  ASSUME Tale, Life', [Next]_vars
  PROVE  Started'
<1>0. Shape /\ Shape' /\ Started BY DEF Tale, Life
<1>1. state' # None => state'.status # "staging"
  <2>1. CASE state' = state \/ state' = None BY <1>0, <2>1 DEF Started
  <2>2. CASE PublishState
    <3>1. Committing /\ state' = tr.succ
      BY <1>0, <2>2 DEF PublishState, Write, Shape, LabelShape, Committing
    <3> QED BY <1>0, <3>1 DEF Started
  <2>3. CASE RestoreState \/ RollbackState
    <3>1. tr # None /\ tr.prior \in {None} \cup State
      BY <1>0, <2>3, RecordGens DEF Shape, LabelShape, RestoreState, RollbackState, Write
    <3>2. RestoreState => tr.prior # None BY <1>0 DEF Shape, LabelShape, RestoreState, Write
    <3> QED BY <1>0, <2>3, <3>1, <3>2 DEF Started, RestoreState, RollbackState, Write, State
  <2>4. CASE AdoptState
    <3>1. loc.prior \in State
      BY <1>0, <2>4, RecordGens DEF Shape, LocalShape, AdoptState, Write
    <3> QED BY <2>4, <3>1 DEF AdoptState, Write, State
  <2>5. CASE DownState
    <3>1. state \in State BY <1>0, <2>5 DEF Shape, TypeOK, LabelShape, DownState, Write
    <3> QED BY <2>5, <3>1 DEF DownState, Write, State
  <2> QED BY <2>1, <2>2, <2>3, <2>4, <2>5, StepAuthors
    DEF Authors, PublishApplied, PublishPlan, RestoreApplied, RestorePlan, RollbackApplied,
      RollbackPlan, AdoptPlan, DestroyRename, Write
<1>2. loc'.prior # None => loc'.prior.status # "staging"
  <2>1. CASE UpRead
    <3>1. loc'.prior = state BY <1>0, <2>1 DEF UpRead, Shape, TypeOK, Locals
    <3> QED BY <1>0, <3>1 DEF Started
  <2>2. CASE ~UpRead BY <1>0, <2>2, StepPrior DEF Started
  <2> QED BY <2>1, <2>2
<1>3. /\ tr' # None /\ tr'.prior # None => tr'.prior.status # "staging"
      /\ Committing' => tr'.succ.status # "staging"
  <2>1. CASE tr' = tr \/ tr' = None BY <1>0, <2>1 DEF Started, Committing
  <2>2. CASE UpRecord BY <1>0, <2>2 DEF UpRecord, Started, Committing
  <2>3. CASE UpCapture \/ UpCommit \/ CommitRecord
    <3>1. tr # None /\ tr \in Transition /\ tr.succ \in State
      BY <1>0, <2>3, RecordGens DEF Shape, LabelShape, UpCapture, UpCommit, CommitRecord, Write
    <3>2. tr'.prior = tr.prior
      BY <2>3, <3>1 DEF UpCapture, UpCommit, CommitRecord, Write, Transition
    <3>3. CASE UpCapture
      <4>1. tr.phase = "rollback" /\ tr'.phase = tr.phase
        BY <1>0, <3>1, <3>3 DEF UpCapture, Write, Transition, Shape, LabelShape
      <4> QED BY <1>0, <3>1, <3>2, <4>1 DEF Started, Committing
    <3>4. CASE UpCommit
      <4>1. tr'.succ = [tr.succ EXCEPT !.status = "running", !.proxy = loc.pid]
        BY <3>1, <3>4 DEF UpCommit, Transition
      <4>2. tr'.succ.status = "running" BY <3>1, <4>1 DEF State
      <4> QED BY <1>0, <3>1, <3>2, <4>2 DEF Started
    <3>5. CASE CommitRecord
      <4>1. Committing /\ tr'.succ = [tr.succ EXCEPT !.proxy = loc.pid]
        BY <1>0, <3>1, <3>5 DEF CommitRecord, Write, Transition, Shape, LabelShape, Committing
      <4>2. tr'.succ.status = tr.succ.status BY <3>1, <4>1 DEF State
      <4> QED BY <1>0, <3>1, <3>2, <4>1, <4>2 DEF Started
    <3> QED BY <2>3, <3>3, <3>4, <3>5
  <2> QED BY <2>1, <2>2, <2>3, StepAuthors DEF Authors
<1> QED BY <1>1, <1>2, <1>3 DEF Started

-----------------------------------------------------------------------------
(* The evidence of a world explains itself *)

\* A world begins with neither generations nor records.
LEMMA InitTale == InspectInit => Tale
<1> SUFFICES ASSUME InspectInit PROVE Tale OBVIOUS
<1>1. Life BY InitLife DEF InspectInit
<1>2. /\ state = None /\ applied = None /\ plan = None /\ tr = None /\ last = None
      /\ logged = [g \in Gens |-> 0] /\ pc = "idle" /\ loc = NoLocals /\ doomed = FALSE
      /\ log = <<>> /\ made = [g \in Gens |-> None]
  BY DEF InspectInit, Init
<1>3. Authoritative = None /\ ~Committing BY <1>2 DEF Authoritative, Committing
<1>4. Recorded(GenOf(Authoritative)) BY <1>2, <1>3 DEF Recorded, GenOf
<1>5. Told BY <1>2, <1>3, <1>4 DEF Told
<1>6. LastIsApplied /\ DigestFirst /\ Ruin /\ Agrees /\ Started
  BY <1>2, <1>3 DEF LastIsApplied, DigestFirst, Ruin, Agrees, Started, NoLocals
<1> QED BY <1>1, <1>5, <1>6 DEF Tale

\* One step, by what it writes.
LEMMA StepTale ==
  ASSUME Handled, Tale, [InspectNext]_inspectVars
  PROVE  Tale'
<1>1. CASE InspectNext
  <2>1. Next /\ [Next]_vars /\ Logs /\ Makes BY <1>1 DEF InspectNext
  <2>2. Life /\ Life' BY <2>1, StepLife DEF Tale
  <2>3. Ruin' /\ Agrees' /\ Started' BY <2>1, <2>2, RuinKept, AgreesKept, StartedKept
  <2>4. CASE UpCommit BY <2>1, <2>2, <2>3, <2>4, CommitTold DEF Tale
  <2>5. CASE PublishDigest BY <2>1, <2>2, <2>3, <2>5, DigestTold DEF Tale
  <2>6. CASE PublishHistory BY <2>1, <2>2, <2>3, <2>6, HistoryTold DEF Tale
  <2>7. CASE DestroyRename BY <2>1, <2>2, <2>3, <2>7, RenameTold DEF Tale
  <2>8. CASE ~UpCommit /\ ~PublishDigest /\ ~PublishHistory /\ ~DestroyRename
    <3>1. Noted /\ Calm BY <2>1, <2>2, <2>8, StepNotes, StepCalm
    <3>2. View(Authoritative)' = View(Authoritative)
      BY <2>1, <2>2, <2>8, StepStutters DEF Life
    <3>3. LastIsApplied' /\ Told' /\ DigestFirst' BY <2>1, <2>2, <3>1, <3>2, CalmTold
    <3> QED BY <2>2, <2>3, <3>3 DEF Tale
  <2> QED BY <2>4, <2>5, <2>6, <2>7, <2>8
<1>2. CASE UNCHANGED inspectVars
  <2>1. UNCHANGED vars /\ UNCHANGED <<log, made>> BY <1>2 DEF inspectVars
  <2>2. [Next]_vars BY <2>1
  <2>3. Life' BY <2>2, StepLife DEF Tale
  <2>4. Ruin' /\ Agrees' /\ Started' BY <2>2, <2>3, RuinKept, AgreesKept, StartedKept
  <2>5. LastIsApplied' /\ DigestFirst'
    BY <2>1 DEF vars, Tale, LastIsApplied, DigestFirst
  <2>6. Told'
    BY <2>1 DEF vars, Tale, Told, Authoritative, Committing, Recorded, Tells, GenOf, History
  <2> QED BY <2>3, <2>4, <2>5, <2>6 DEF Tale
<1> QED BY <1>1, <1>2

\* The digests, the applied records and the declarations that generations were
\* committed with tell one story, whatever is interrupted, recovered or repeated.
THEOREM TaleInvariant == ASSUME Handled PROVE InspectSpec => []Tale
<1>1. Tale /\ [InspectNext]_inspectVars => Tale' BY StepTale
<1> QED BY <1>1, InitTale, PTL DEF InspectSpec

\* The roots that inspection binds are sequences, and the story of the invariant is
\* one of their explanations.
Storied(f) ==
  /\ f \in Explanations(CommittedRoots, RecordedRoots)
  /\ \A g \in 1 .. state.gen: made[g] = log[f[g]].decl

\* What inspect-workspace reads of a world at rest.
LEMMA Evidence ==
  ASSUME Tale, tr = None, state # None
  PROVE  /\ CommittedRoots \in Seq(Int) /\ RecordedRoots \in Seq(Int)
         /\ Len(CommittedRoots) = state.gen /\ Len(RecordedRoots) = Len(log)
         /\ state.gen \in Gens /\ state.decl \in Decls
         /\ log \in Seq(Record) /\ log # <<>> /\ log[Len(log)].decl = state.decl
         /\ \A g \in 1 .. state.gen: digest[g] # -1
         /\ \E f: Storied(f)
<1>1. state \in State /\ digest \in [Gens -> -1 .. MaxWs] BY DEF Tale, Life, Shape, TypeOK
<1>2. PICK k \in Gens: k = state.gen BY <1>1 DEF State
<1>3. state.decl \in Decls BY <1>1 DEF State
<1>4. Authoritative = state /\ ~Committing /\ GenOf(Authoritative) = k
  BY <1>2 DEF Authoritative, Committing, GenOf
<1>5. log \in Seq(Record) BY DEF Tale, LastIsApplied
<1>6. Recorded(k) /\ made[k] = state.decl BY <1>2, <1>4 DEF Tale, Told
<1>7. k \in Nat /\ k > 0 /\ 1 \in 1 .. k /\ k \in 1 .. k /\ 1 .. k \subseteq Gens
  <2>1. MaxGen \in Nat /\ k \in 1 .. MaxGen BY WorldConstants DEF Gens
  <2>2. \A i \in 1 .. k: i \in 1 .. MaxGen BY <2>1
  <2> QED BY <2>1, <2>2 DEF Gens
<1>8. PICK f \in [1 .. k -> 1 .. Len(log)]: Tells(f, k) BY <1>6, <1>7 DEF Recorded
<1>9. PICK n \in Nat: n = Len(log) /\ n > 0
  <2>1. Len(log) \in Nat /\ f[1] \in 1 .. Len(log) BY <1>5, <1>7, <1>8
  <2> QED BY <2>1
<1>10. \A i \in 1 .. n: log[i] \in Record /\ log[i].ws \in 0 .. MaxWs
  <2>1. \A i \in 1 .. n: log[i] \in Record BY <1>5, <1>9
  <2>2. \A r \in Record: r.ws \in 0 .. MaxWs BY DEF Record
  <2> QED BY <2>1, <2>2
<1>11. /\ f[1] = 1 /\ f[k] = n
       /\ \A g \in 1 .. k: digest[g] = log[f[g]].ws /\ made[g] = log[f[g]].decl
       /\ \A g \in 2 .. k: f[g] \in {f[g - 1], f[g - 1] + 1}
  BY <1>8, <1>9 DEF Tells
<1>12. CommittedRoots = [g \in 1 .. k |-> digest[g]] /\ RecordedRoots = [i \in 1 .. n |-> log[i].ws]
  BY <1>2, <1>9 DEF CommittedRoots, RecordedRoots
<1>13. CommittedRoots \in [1 .. k -> Int] /\ RecordedRoots \in [1 .. n -> Int]
  <2>1. \A g \in 1 .. k: digest[g] \in Int BY <1>1, <1>7
  <2>2. \A i \in 1 .. n: log[i].ws \in Int BY <1>10
  <2> QED BY <1>12, <2>1, <2>2
<1>14. /\ CommittedRoots \in Seq(Int) /\ RecordedRoots \in Seq(Int)
       /\ Len(CommittedRoots) = k /\ Len(RecordedRoots) = n
  <2>1. \A j \in Nat: \A s \in [1 .. j -> Int]: s \in Seq(Int) /\ Len(s) = j OBVIOUS
  <2> QED BY <1>7, <1>9, <1>13, <2>1
<1>15. f \in Explanations(CommittedRoots, RecordedRoots)
  <2>1. \A g \in 1 .. k: f[g] \in 1 .. n BY <1>8, <1>9
  <2>2. \A g \in 1 .. k: CommittedRoots[g] = RecordedRoots[f[g]] BY <1>11, <1>12, <2>1
  <2> QED BY <1>8, <1>9, <1>11, <1>14, <2>2 DEF Explanations
<1>16. Storied(f) BY <1>2, <1>11, <1>15 DEF Storied
<1>17. log # <<>> BY <1>9
<1>18. log[Len(log)].decl = state.decl BY <1>6, <1>7, <1>9, <1>11
<1>19. \A g \in 1 .. k: digest[g] # -1
  <2>1. \A g \in 1 .. k: f[g] \in 1 .. n BY <1>8, <1>9
  <2>2. -1 \notin 0 .. MaxWs OBVIOUS
  <2> QED BY <1>10, <1>11, <2>1, <2>2
<1> QED BY <1>2, <1>3, <1>5, <1>9, <1>14, <1>16, <1>17, <1>18, <1>19

\* So a baseline is inspected exactly if all explanations give it a record of the
\* plan in force.
LEMMA InspectedExactly ==
  ASSUME Tale, tr = None, state # None, NEW b \in 1 .. state.gen
  PROVE  Inspects(b) <=>
           \A f \in Explanations(CommittedRoots, RecordedRoots):
             Plan[log[f[b]].decl] = Plan[state.decl]
<1> DEFINE fs == Explanations(CommittedRoots, RecordedRoots)
<1>1. /\ CommittedRoots \in Seq(Int) /\ RecordedRoots \in Seq(Int)
      /\ Len(CommittedRoots) = state.gen /\ Len(RecordedRoots) = Len(log)
      /\ state.gen \in Gens /\ state.decl \in Decls
      /\ log \in Seq(Record) /\ log # <<>> /\ log[Len(log)].decl = state.decl
      /\ \A g \in 1 .. state.gen: digest[g] # -1
      /\ \E f: Storied(f)
  BY Evidence
<1>2. fs # {} BY <1>1 DEF Storied
<1>3. CommittedRoots # <<>> /\ RecordedRoots # <<>>
  <2>1. Len(CommittedRoots) > 0 BY <1>1 DEF Gens
  <2>2. Len(log) > 0 BY <1>1
  <2> QED BY <1>1, <2>1, <2>2
<1>4. /\ Binding(b).ok <=> fs # {}
      /\ Binding(b).records = {f[b] : f \in fs}
  BY <1>1, <1>3, BindingIsExact DEF Binding
<1>5. Authorised(b)
  <2>1. state \in State BY DEF Tale, Life, Shape, TypeOK
  <2>2. state.status \in {"running", "down"} BY <2>1 DEF Tale, Started, State
  <2>3. applied = state.decl /\ plan = state.decl BY DEF Tale, Agrees, Committing
  <2>4. plan # None BY <1>1, <2>3, WorldConstants
  <2> QED BY <2>2, <2>3, <2>4 DEF Authorised
<1> HIDE DEF fs
<1>6. Binding(b).ok /\ Binding(b).records # {} BY <1>2, <1>4
<1>7. Inspects(b) <=> \A i \in Binding(b).records: Plan[log[i].decl] = Plan[state.decl]
  BY <1>1, <1>5, <1>6 DEF Inspects, VerifyHistory
<1>8. Inspects(b) <=> \A f \in fs: Plan[log[f[b]].decl] = Plan[state.decl]
  BY <1>4, <1>7
<1> QED BY <1>8 DEF fs

\* Every world at rest can be inspected at its current generation, however often it
\* was interrupted, recovered, rolled back or applied again.
THEOREM WorldsAreInspectable == ASSUME Handled PROVE InspectSpec => []CurrentInspectable
<1>1. Tale => CurrentInspectable
  <2> SUFFICES ASSUME Tale, tr = None, state # None PROVE Inspects(state.gen)
    BY DEF CurrentInspectable
  <2>1. /\ state.gen \in Gens /\ log[Len(log)].decl = state.decl
        /\ Len(CommittedRoots) = state.gen /\ Len(RecordedRoots) = Len(log)
    BY Evidence
  <2>2. state.gen \in 1 .. state.gen BY <2>1 DEF Gens
  <2>3. \A f \in Explanations(CommittedRoots, RecordedRoots): f[state.gen] = Len(log)
    BY <2>1 DEF Explanations
  <2> QED BY <2>1, <2>2, <2>3, InspectedExactly
<1> QED BY <1>1, TaleInvariant, PTL

\* A report attributes changes by the plan the baseline was committed with, and is
\* refused only where the records leave that open.
THEOREM AttributionHolds == ASSUME Handled PROVE InspectSpec => []AttributionIsExact
<1>1. Tale => AttributionIsExact
  <2> SUFFICES ASSUME Tale, tr = None, state # None, NEW g \in 1 .. state.gen
               PROVE  /\ Inspects(g) <=>
                           /\ Explanations(CommittedRoots, RecordedRoots) # {}
                           /\ \A f \in Explanations(CommittedRoots, RecordedRoots):
                                Plan[log[f[g]].decl] = Plan[state.decl]
                      /\ Inspects(g) => Plan[made[g]] = Plan[state.decl]
    BY DEF AttributionIsExact
  <2>1. PICK f: Storied(f) BY Evidence
  <2>2. /\ f \in Explanations(CommittedRoots, RecordedRoots)
        /\ made[g] = log[f[g]].decl
    BY <2>1 DEF Storied
  <2>3. Inspects(g) <=> \A h \in Explanations(CommittedRoots, RecordedRoots):
                          Plan[log[h[g]].decl] = Plan[state.decl]
    BY InspectedExactly
  <2> QED BY <2>2, <2>3
<1> QED BY <1>1, TaleInvariant, PTL

\* Inspection observes: with its log and its records of what was committed the
\* lifecycle behaves as it does without.
THEOREM InspectIsWorld == InspectSpec => Spec
<1>1. InspectInit => Init
  BY DEF InspectInit
<1>2. [InspectNext]_inspectVars => [Next]_vars
  BY DEF InspectNext, inspectVars
<1> QED BY <1>1, <1>2, PTL DEF InspectSpec, Spec

\* So a world that is inspected is recoverable, settled and of one generation, and
\* its files are the atomic register of Authority.
COROLLARY InspectedWorld ==
  ASSUME Handled
  PROVE  InspectSpec => [](Recoverable /\ Settled /\ RunsAsRecorded) /\ AtomicAuthority
<1>1. FaultAt \cap PublishLabels = {}
  BY DEF Handled
<1>2. Spec => AtomicAuthority
  BY <1>1, AuthorityIsAtomic
<1> QED BY <1>2, InspectIsWorld, TransitionsRecover, FilesAgree, GenerationsAreRecorded, PTL
=============================================================================
