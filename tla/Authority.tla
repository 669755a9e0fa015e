----------------------------- MODULE Authority -----------------------------
(***************************************************************************)
(* What the lifecycle of one world promises: at every instant at most one  *)
(* generation is authoritative, it is replaced in a single step by the     *)
(* next generation of some declaration, and it goes away only as a whole.  *)
(* Nothing a crash or a recovery does is visible at this level.            *)
(***************************************************************************)
EXTENDS Integers

CONSTANTS Decls, MaxGen, None

VARIABLE auth      \* None, or the authoritative [gen, decl]

Generation == [gen: 1..MaxGen, decl: Decls]

TypeOK == auth \in {None} \cup Generation

Init == auth = None

\* The generation number that follows the authoritative one.
Following == IF auth = None THEN 1 ELSE auth.gen + 1

Apply(d) ==
  /\ Following \in 1..MaxGen
  /\ auth' = [gen |-> Following, decl |-> d]

Remove ==
  /\ auth # None
  /\ auth' = None

Next == Remove \/ \E d \in Decls: Apply(d)

Spec == Init /\ [][Next]_auth
=============================================================================
