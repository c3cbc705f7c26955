---------------------------- MODULE Order_proofs ----------------------------
(* Facts about finite sets of integers the proofs of Proc rest on.          *)
(* Induction on a finite set is done by taking a minimal counterexample in  *)
(* the well-founded order of its subsets.                                   *)
EXTENDS Order, FiniteSets, FiniteSetTheorems, WellFoundedInduction, TLAPS

(* A function to the integers reaches its greatest value on a finite,       *)
(* non-empty set.                                                           *)
LEMMA GreatestExists ==
  ASSUME NEW S, IsFiniteSet(S), S # {}, NEW f, \A x \in S : f[x] \in Int
  PROVE  \E m \in S : \A x \in S : f[x] <= f[m]
<1> DEFINE Good(U) == U = {} \/ \E m \in U : \A x \in U : f[x] <= f[m]
           Bad == {U \in SUBSET S : ~ Good(U)}
<1> HIDE DEF Bad, Good
<1>1. IsWellFoundedOn(StrictSubsetOrdering(S), SUBSET S)
  BY FS_StrictSubsetOrderingWellFounded, FS_FiniteSubsetsOfFinite
<1>2. ASSUME Bad # {}
      PROVE  FALSE
  <2>0. Bad \subseteq SUBSET S
    BY DEF Bad
  <2>1. PICK U \in Bad : \A V \in Bad : ~ (<<V, U>> \in StrictSubsetOrdering(S))
    BY ONLY <2>0, <1>1, <1>2, WFMin
  <2>2. U \in SUBSET S /\ ~ Good(U)
    BY <2>1 DEF Bad
  <2>3. U # {}
    BY <2>2 DEF Good
  <2>4. PICK u \in U : TRUE
    BY <2>3
  <2>5. <<U \ {u}, U>> \in StrictSubsetOrdering(S)
    BY <2>2, <2>4 DEF StrictSubsetOrdering
  <2>6. U \ {u} \notin Bad
    BY <2>1, <2>5
  <2>7. Good(U \ {u})
    BY <2>2, <2>6 DEF Bad
  <2>8. CASE U \ {u} = {}
    <3>1. \A x \in U : x = u
      BY <2>8
    <3>2. f[u] \in Int
      BY <2>2, <2>4
    <3>3. \A x \in U : f[x] <= f[u]
      BY <3>1, <3>2
    <3>. QED
      BY <3>3, <2>2, <2>4 DEF Good
  <2>9. CASE U \ {u} # {}
    <3>1. PICK m \in U \ {u} : \A x \in U \ {u} : f[x] <= f[m]
      BY <2>7, <2>9 DEF Good
    <3>2. f[m] \in Int /\ f[u] \in Int /\ \A x \in U : f[x] \in Int
      BY <2>2, <2>4, <3>1
    <3>3. CASE f[u] <= f[m]
      BY <3>1, <3>2, <3>3, <2>2, <2>4 DEF Good
    <3>4. CASE f[m] < f[u]
      <4>1. \A x \in U : f[x] <= f[u]
        BY <3>1, <3>2, <3>4
      <4>. QED
        BY <4>1, <2>2, <2>4 DEF Good
    <3>. QED
      BY <3>2, <3>3, <3>4
  <2>. QED
    BY <2>8, <2>9
<1>3. S \notin Bad
  BY <1>2
<1>. QED
  BY <1>3 DEF Bad, Good

(* Least(S) is what its name says.                                          *)
LEMMA LeastIsLeast ==
  ASSUME NEW S, IsFiniteSet(S), S # {}, S \subseteq Int
  PROVE  /\ Least(S) \in S
         /\ \A j \in S : Least(S) <= j
<1> DEFINE f == [i \in S |-> 0 - i]
<1>1. PICK m \in S : \A x \in S : f[x] <= f[m]
  <2>1. \A x \in S : f[x] \in Int
    OBVIOUS
  <2>. HIDE DEF f
  <2>. QED
    BY <2>1, GreatestExists
<1>2. \A j \in S : m <= j
  BY <1>1
<1>. QED
  BY <1>1, <1>2 DEF Least
=============================================================================
