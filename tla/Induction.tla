----------------------------- MODULE Induction -----------------------------
(***************************************************************************)
(* Induction, and what follows from it, over a set in the place of a       *)
(* predicate: a set of finite sets has a minimal member, a set of naturals *)
(* a least one and a finite set of integers a greatest.                    *)
(***************************************************************************)
EXTENDS Integers, FiniteSetTheorems, TLAPS

LEMMA MinimalSet ==
    ASSUME NEW T, T # {}, \A A \in T : IsFiniteSet(A)
    PROVE  \E A \in T : \A B \in T : B \subseteq A => B = A
<1> DEFINE X == UNION T
<1>1. T \subseteq FiniteSubsetsOf(X)
  BY DEF FiniteSubsetsOf
<1>2. IsWellFoundedOn(StrictSubsetOrdering(X), FiniteSubsetsOf(X))
  BY FS_StrictSubsetOrderingWellFounded
<1>3. PICK A \in T : \A B \in T : ~ (<<B, A>> \in StrictSubsetOrdering(X))
  BY <1>1, <1>2, WFMin
<1> QED
  BY <1>1, <1>3 DEF StrictSubsetOrdering

LEMMA LeastNatural ==
    ASSUME NEW T, T \subseteq Nat, T # {}
    PROVE  \E x \in T : \A y \in T : x <= y
<1> DEFINE F == {0 .. x : x \in T}
<1>1. PICK A \in F : \A B \in F : B \subseteq A => B = A
  <2>1. PICK x \in T : TRUE
    OBVIOUS
  <2>2. 0 .. x \in F
    BY <2>1
  <2>3. \A A \in F : \E y \in Nat : A = 0 .. y
    OBVIOUS
  <2> HIDE DEF F
  <2>4. F # {}
    BY <2>2
  <2>5. \A A \in F : IsFiniteSet(A)
    BY <2>3, FS_Interval
  <2> QED
    BY <2>4, <2>5, MinimalSet
<1>2. PICK x \in T : A = 0 .. x
  BY <1>1
<1>3. ASSUME NEW y \in T PROVE x <= y
  <2>1. CASE y < x
    <3>1. 0 .. y \subseteq 0 .. x /\ 0 .. y \in F
      BY <2>1
    <3>2. 0 .. y = 0 .. x
      BY <1>1, <1>2, <3>1
    <3> QED
      BY <2>1, <3>2
  <2> QED
    BY <2>1
<1> QED
  BY <1>3

LEMMA Greatest ==
    ASSUME NEW T, T \subseteq Int, T # {}, IsFiniteSet(T)
    PROVE  \E x \in T : \A y \in T : y <= x
<1> DEFINE Above(x) == {y \in T : x <= y}
           F == {Above(x) : x \in T}
<1>1. PICK A \in F : \A B \in F : B \subseteq A => B = A
  <2>1. F # {}
    OBVIOUS
  <2>2. \A A \in F : IsFiniteSet(A)
    <3>1. \A A \in F : A \subseteq T
      OBVIOUS
    <3> HIDE DEF F
    <3> QED
      BY <3>1, FS_Subset
  <2> HIDE DEF F
  <2> QED
    BY <2>1, <2>2, MinimalSet
<1>2. PICK x \in T : A = Above(x)
  BY <1>1
<1>3. ASSUME NEW y \in T PROVE y <= x
  <2>1. CASE x < y
    <3>1. Above(y) \in F
      OBVIOUS
    <3>2. Above(y) \subseteq Above(x)
      <4> SUFFICES ASSUME NEW z \in T, y <= z PROVE x <= z
        OBVIOUS
      <4>1. x \in Int /\ y \in Int /\ z \in Int
        OBVIOUS
      <4> HIDE DEF F
      <4> QED
        BY <2>1, <4>1
    <3>3. x \in Above(x) /\ x \notin Above(y)
      BY <2>1
    <3> QED
      BY <1>1, <1>2, <3>1, <3>2, <3>3
  <2> QED
    BY <2>1
<1> QED
  BY <1>3

\* Induction over the naturals, for the set P of those that have a property.
LEMMA NaturalInduction ==
    ASSUME NEW P, 0 \in P, \A n \in Nat : n \in P => n + 1 \in P
    PROVE  Nat \subseteq P
<1> DEFINE T == Nat \ P
<1>1. CASE T # {}
  <2>1. PICK x \in T : \A y \in T : x <= y
    BY <1>1, LeastNatural
  <2>2. x # 0 /\ x - 1 \in Nat /\ x - 1 \notin T
    BY <2>1
  <2> QED
    BY <2>1, <2>2
<1> QED
  BY <1>1

\* Induction over the subsets of a finite set, one element at a time.
LEMMA SubsetInduction ==
    ASSUME NEW D, IsFiniteSet(D), NEW P, {} \in P,
           \A A \in SUBSET D : \A x \in D \ A : A \in P => A \cup {x} \in P
    PROVE  SUBSET D \subseteq P
<1> DEFINE T == {A \in SUBSET D : A \notin P}
<1>1. CASE T # {}
  <2>1. PICK A \in T : \A B \in T : B \subseteq A => B = A
    <3>1. \A A \in T : IsFiniteSet(A)
      BY FS_Subset
    <3> HIDE DEF T
    <3> QED
      BY <1>1, <3>1, MinimalSet
  <2>2. PICK x \in A : TRUE
    BY <2>1
  <2>3. /\ A \ {x} \in SUBSET D /\ A \ {x} \notin T
        /\ x \in D \ (A \ {x}) /\ (A \ {x}) \cup {x} = A
    BY <2>1, <2>2
  <2> QED
    BY <2>1, <2>3
<1> QED
  BY <1>1

\* The values of a function on a finite set are finite, and no more than it.
LEMMA FiniteImage ==
    ASSUME NEW S, IsFiniteSet(S), NEW f, f = [x \in S |-> f[x]]
    PROVE  LET T == {f[x] : x \in S}
           IN  IsFiniteSet(T) /\ Cardinality(T) <= Cardinality(S)
<1> DEFINE T == {f[x] : x \in S}
<1>1. f \in Surjection(S, T)
  BY DEF Surjection
<1> HIDE DEF T
<1> QED
  BY <1>1, FS_Surjection DEF T
=============================================================================
