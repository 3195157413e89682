------------------------------ MODULE SumProofs ------------------------------
(***************************************************************************)
(* Sums of integers over finite sets, as the invariants of the economy use *)
(* them: what SumFunctionOnSet and SumFunction compute, for any finite     *)
(* set.  The fold they are defined by takes out an element of its choice   *)
(* at a time; the lemmas say that it is defined at all, and that the       *)
(* choice does not matter.                                                 *)
(*                                                                         *)
(* Induction over finite sets is stated for a set of good sets: the proofs *)
(* of this module collect the sets a claim holds of, and show that a       *)
(* smallest bad one cannot exist.                                          *)
(***************************************************************************)
EXTENDS Functions, FiniteSetTheorems, TLAPS

LEMMA SubsetInduction ==
  ASSUME NEW S, IsFiniteSet(S), NEW Good,
         \A T \in SUBSET S : (\A U \in SUBSET T : U # T => U \in Good) => T \in Good
  PROVE  \A T \in SUBSET S : T \in Good
<1> DEFINE Bad == (SUBSET S) \ Good
<1> SUFFICES ASSUME Bad # {} PROVE FALSE
  OBVIOUS
<1>1. IsWellFoundedOn(StrictSubsetOrdering(S), SUBSET S)
  <2>1. FiniteSubsetsOf(S) = SUBSET S
    BY FS_FiniteSubsetsOfFinite, Zenon
  <2>2. IsWellFoundedOn(StrictSubsetOrdering(S), FiniteSubsetsOf(S))
    BY FS_StrictSubsetOrderingWellFounded, Zenon
  <2>. QED  BY <2>1, <2>2, Zenon
<1>2. PICK T \in Bad : \A U \in Bad : <<U, T>> \notin StrictSubsetOrdering(S)
  <2>1. Bad \subseteq SUBSET S
    OBVIOUS
  <2> HIDE DEF Bad
  <2>2. \E T \in Bad : \A U \in Bad : ~ (<<U, T>> \in StrictSubsetOrdering(S))
    BY <1>1, <2>1, WFMin
  <2>. QED  BY <2>2
<1>3. ASSUME NEW U \in SUBSET T, U # T
      PROVE  U \in Good
  BY <1>2, <1>3 DEF StrictSubsetOrdering
<1>. QED  BY <1>2, <1>3
-----------------------------------------------------------------------------
(* The partial sums that the fold builds on its way to the sum over T. *)
Taken(s) == CHOOSE x \in s : TRUE
Unfolds(f, T, g) ==
    g = [s \in SUBSET T |-> IF s = {} THEN 0 ELSE f[Taken(s)] + g[s \ {Taken(s)}]]
PartialSums(f, T) == CHOOSE g : Unfolds(f, T, g)

LEMMA SumIsPartialSum ==
  ASSUME NEW f, NEW T
  PROVE  SumFunctionOnSet(f, T) = PartialSums(f, T)[T]
  BY DEF SumFunctionOnSet, FoldFunctionOnSet, MapThenFoldSet, PartialSums, Unfolds, Taken

LEMMA TakenIsMember == ASSUME NEW s, s # {} PROVE Taken(s) \in s
  BY DEF Taken

(* Partial sums on their way to different sums agree where both are        *)
(* defined.                                                                *)
LEMMA PartialSumsUnique ==
  ASSUME NEW f, NEW T, NEW U, NEW g, NEW h, Unfolds(f, T, g), Unfolds(f, U, h),
         NEW S \in SUBSET (T \cap U), IsFiniteSet(S)
  PROVE  g[S] = h[S]
<1> DEFINE Good == {s \in SUBSET S : g[s] = h[s]}
<1>1. ASSUME NEW s \in SUBSET S, \A u \in SUBSET s : u # s => u \in Good
      PROVE  s \in Good
  <2>1. s \in SUBSET T /\ s \in SUBSET U
    OBVIOUS
  <2>2. CASE s = {}
    BY <2>1, <2>2 DEF Unfolds
  <2>3. CASE s # {}
    <3>1. Taken(s) \in s
      BY <2>3, TakenIsMember
    <3>2. g[s \ {Taken(s)}] = h[s \ {Taken(s)}]
      BY <1>1, <3>1
    <3>3. g[s] = f[Taken(s)] + g[s \ {Taken(s)}]
      BY <2>1, <2>3 DEF Unfolds
    <3>4. h[s] = f[Taken(s)] + h[s \ {Taken(s)}]
      BY <2>1, <2>3 DEF Unfolds
    <3>. QED  BY <3>2, <3>3, <3>4
  <2>. QED  BY <2>2, <2>3
<1>2. \A s \in SUBSET S : s \in Good
  <2> HIDE DEF Good
  <2>. QED  BY <1>1, SubsetInduction
<1>. QED  BY <1>2

(* There are partial sums for every finite set. *)
LEMMA PartialSumsExist ==
  ASSUME NEW f, NEW S, IsFiniteSet(S)
  PROVE  Unfolds(f, S, PartialSums(f, S))
<1> DEFINE Good == {T \in SUBSET S : Unfolds(f, T, PartialSums(f, T))}
<1>1. ASSUME NEW T \in SUBSET S, \A U \in SUBSET T : U # T => U \in Good
      PROVE  T \in Good
  <2> DEFINE g == [s \in SUBSET T |->
                     IF s = {} THEN 0
                     ELSE f[Taken(s)] + PartialSums(f, s \ {Taken(s)})[s \ {Taken(s)}]]
  <2>1. ASSUME NEW s \in SUBSET T, s # T
        PROVE  g[s] = PartialSums(f, s)[s]
    <3>1. Unfolds(f, s, PartialSums(f, s))
      BY <1>1, <2>1
    <3>2. CASE s = {}
      BY <3>1, <3>2 DEF Unfolds
    <3>3. CASE s # {}
      <4>1. Taken(s) \in s
        BY <3>3, TakenIsMember
      <4>2. Unfolds(f, s \ {Taken(s)}, PartialSums(f, s \ {Taken(s)}))
        BY <1>1, <2>1, <4>1
      <4>3. IsFiniteSet(s \ {Taken(s)})
        BY FS_Subset
      <4>4. PartialSums(f, s)[s \ {Taken(s)}] = PartialSums(f, s \ {Taken(s)})[s \ {Taken(s)}]
        BY <3>1, <4>2, <4>3, PartialSumsUnique
      <4>5. PartialSums(f, s)[s] = f[Taken(s)] + PartialSums(f, s)[s \ {Taken(s)}]
        BY <3>1, <3>3 DEF Unfolds
      <4>. QED  BY <3>3, <4>4, <4>5
    <3>. QED  BY <3>2, <3>3
  <2>2. ASSUME NEW s \in SUBSET T, s # {}
        PROVE  g[s] = f[Taken(s)] + g[s \ {Taken(s)}]
    <3>1. s \ {Taken(s)} \in SUBSET T /\ s \ {Taken(s)} # T
      BY <2>2, TakenIsMember
    <3>2. g[s \ {Taken(s)}] = PartialSums(f, s \ {Taken(s)})[s \ {Taken(s)}]
      BY <2>1, <3>1
    <3>. QED  BY <2>2, <3>2
  <2>3. Unfolds(f, T, g)
    BY <2>2 DEF Unfolds
  <2>4. Unfolds(f, T, PartialSums(f, T))
    BY <2>3 DEF PartialSums
  <2>. QED  BY <2>4
<1>2. \A T \in SUBSET S : T \in Good
  <2> HIDE DEF Good
  <2>. QED  BY <1>1, SubsetInduction
<1>. QED  BY <1>2
-----------------------------------------------------------------------------
LEMMA SumEmpty == ASSUME NEW f PROVE SumFunctionOnSet(f, {}) = 0
<1>1. Unfolds(f, {}, PartialSums(f, {}))
  BY FS_EmptySet, PartialSumsExist
<1>. QED  BY <1>1, SumIsPartialSum DEF Unfolds

LEMMA SumTaken ==
  ASSUME NEW f, NEW T, IsFiniteSet(T), T # {}
  PROVE  /\ Taken(T) \in T
         /\ SumFunctionOnSet(f, T) = f[Taken(T)] + SumFunctionOnSet(f, T \ {Taken(T)})
<1> DEFINE U == T \ {Taken(T)}
<1>1. Taken(T) \in T
  BY TakenIsMember
<1>2. IsFiniteSet(U)
  BY FS_Subset
<1>3. Unfolds(f, T, PartialSums(f, T)) /\ Unfolds(f, U, PartialSums(f, U))
  BY <1>2, PartialSumsExist
<1>4. PartialSums(f, T)[U] = PartialSums(f, U)[U]
  BY <1>2, <1>3, PartialSumsUnique
<1>5. PartialSums(f, T)[T] = f[Taken(T)] + PartialSums(f, T)[U]
  BY <1>3 DEF Unfolds
<1>. QED  BY <1>1, <1>4, <1>5, SumIsPartialSum

(* A sum belongs to every set that holds its terms and is closed under     *)
(* addition.                                                               *)
LEMMA SumType ==
  ASSUME NEW N, 0 \in N, \A i, j \in N : i + j \in N,
         NEW f, NEW S, IsFiniteSet(S), \A x \in S : f[x] \in N
  PROVE  SumFunctionOnSet(f, S) \in N
<1> DEFINE Good == {T \in SUBSET S : SumFunctionOnSet(f, T) \in N}
<1>1. ASSUME NEW T \in SUBSET S, \A U \in SUBSET T : U # T => U \in Good
      PROVE  T \in Good
  <2>1. CASE T = {}
    BY <2>1, SumEmpty
  <2>2. CASE T # {}
    <3>1. IsFiniteSet(T)
      BY FS_Subset
    <3>2. /\ Taken(T) \in T
          /\ SumFunctionOnSet(f, T) = f[Taken(T)] + SumFunctionOnSet(f, T \ {Taken(T)})
      BY <2>2, <3>1, SumTaken
    <3>3. SumFunctionOnSet(f, T \ {Taken(T)}) \in N
      BY <1>1, <3>2
    <3>. QED  BY <3>2, <3>3
  <2>. QED  BY <2>1, <2>2
<1>2. \A T \in SUBSET S : T \in Good
  <2> HIDE DEF Good
  <2>. QED  BY <1>1, SubsetInduction
<1>. QED  BY <1>2

LEMMA SumInt ==
  ASSUME NEW f, NEW S, IsFiniteSet(S), \A x \in S : f[x] \in Int
  PROVE  SumFunctionOnSet(f, S) \in Int
<1>1. 0 \in Int /\ \A i, j \in Int : i + j \in Int
  OBVIOUS
<1>. QED  BY <1>1, SumType, Zenon

LEMMA SumNat ==
  ASSUME NEW f, NEW S, IsFiniteSet(S), \A x \in S : f[x] \in Nat
  PROVE  SumFunctionOnSet(f, S) \in Nat
<1>1. 0 \in Nat /\ \A i, j \in Nat : i + j \in Nat
  OBVIOUS
<1>. QED  BY <1>1, SumType, Zenon

LEMMA SumOfZeros ==
  ASSUME NEW f, NEW S, IsFiniteSet(S), \A x \in S : f[x] = 0
  PROVE  SumFunctionOnSet(f, S) = 0
<1>1. SumFunctionOnSet(f, S) \in {0}
  <2>1. \A i, j \in {0} : i + j \in {0}
    OBVIOUS
  <2>. QED  BY <2>1, SumType
<1>. QED  BY <1>1

(* Functions that agree on a set have the same sum over it. *)
LEMMA SumCongruent ==
  ASSUME NEW f, NEW g, NEW S, IsFiniteSet(S), \A x \in S : f[x] = g[x]
  PROVE  SumFunctionOnSet(f, S) = SumFunctionOnSet(g, S)
<1> DEFINE Good == {T \in SUBSET S : SumFunctionOnSet(f, T) = SumFunctionOnSet(g, T)}
<1>1. ASSUME NEW T \in SUBSET S, \A U \in SUBSET T : U # T => U \in Good
      PROVE  T \in Good
  <2>1. CASE T = {}
    BY <2>1, SumEmpty
  <2>2. CASE T # {}
    <3>1. IsFiniteSet(T)
      BY FS_Subset
    <3>2. /\ Taken(T) \in T
          /\ SumFunctionOnSet(f, T) = f[Taken(T)] + SumFunctionOnSet(f, T \ {Taken(T)})
          /\ SumFunctionOnSet(g, T) = g[Taken(T)] + SumFunctionOnSet(g, T \ {Taken(T)})
      BY <2>2, <3>1, SumTaken
    <3>3. SumFunctionOnSet(f, T \ {Taken(T)}) = SumFunctionOnSet(g, T \ {Taken(T)})
      BY <1>1, <3>2
    <3>. QED  BY <3>2, <3>3
  <2>. QED  BY <2>1, <2>2
<1>2. \A T \in SUBSET S : T \in Good
  <2> HIDE DEF Good
  <2>. QED  BY <1>1, SubsetInduction
<1>. QED  BY <1>2

(* Any element may be taken out, not only the one the fold takes. *)
LEMMA SumRemove ==
  ASSUME NEW f, NEW S, IsFiniteSet(S), \A x \in S : f[x] \in Int, NEW a \in S
  PROVE  SumFunctionOnSet(f, S) = f[a] + SumFunctionOnSet(f, S \ {a})
<1> DEFINE Good == {T \in SUBSET S : \A x \in T :
                      SumFunctionOnSet(f, T) = f[x] + SumFunctionOnSet(f, T \ {x})}
<1>1. ASSUME NEW T \in SUBSET S, \A U \in SUBSET T : U # T => U \in Good
      PROVE  T \in Good
  <2> SUFFICES ASSUME NEW x \in T
               PROVE  SumFunctionOnSet(f, T) = f[x] + SumFunctionOnSet(f, T \ {x})
    OBVIOUS
  <2> DEFINE y == Taken(T)
  <2>1. IsFiniteSet(T)
    BY FS_Subset
  <2>2. y \in T /\ SumFunctionOnSet(f, T) = f[y] + SumFunctionOnSet(f, T \ {y})
    BY <2>1, SumTaken
  <2>3. CASE x # y
    <3>1. (T \ {y}) \ {x} = (T \ {x}) \ {y}
      OBVIOUS
    <3>2. SumFunctionOnSet(f, T \ {y}) = f[x] + SumFunctionOnSet(f, (T \ {y}) \ {x})
      BY <1>1, <2>2, <2>3
    <3>3. SumFunctionOnSet(f, T \ {x}) = f[y] + SumFunctionOnSet(f, (T \ {x}) \ {y})
      BY <1>1, <2>2, <2>3
    <3>4. SumFunctionOnSet(f, (T \ {y}) \ {x}) \in Int
      <4>1. IsFiniteSet((T \ {y}) \ {x})
        BY <2>1, FS_Subset
      <4>. QED  BY <4>1, SumInt
    <3>5. f[x] \in Int /\ f[y] \in Int
      BY <2>2
    <3> DEFINE w == SumFunctionOnSet(f, (T \ {x}) \ {y})
    <3>6. SumFunctionOnSet(f, T \ {y}) = f[x] + w /\ w \in Int
      BY <3>1, <3>2, <3>4
    <3>7. SumFunctionOnSet(f, T \ {x}) = f[y] + w
      BY <3>3
    <3> HIDE DEF w, y
    <3>. QED  BY <2>2, <3>5, <3>6, <3>7
  <2>. QED  BY <2>2, <2>3
<1>2. \A T \in SUBSET S : T \in Good
  <2> HIDE DEF Good
  <2>. QED  BY <1>1, SubsetInduction
<1>. QED  BY <1>2

(* A sum splits at any part of its set. *)
LEMMA SumSplit ==
  ASSUME NEW f, NEW S, IsFiniteSet(S), \A x \in S : f[x] \in Int, NEW P \in SUBSET S
  PROVE  SumFunctionOnSet(f, S) = SumFunctionOnSet(f, P) + SumFunctionOnSet(f, S \ P)
<1> DEFINE Good == {T \in SUBSET S :
                      SumFunctionOnSet(f, T) = SumFunctionOnSet(f, T \cap P)
                                                + SumFunctionOnSet(f, T \ P)}
<1>1. ASSUME NEW T \in SUBSET S, \A U \in SUBSET T : U # T => U \in Good
      PROVE  T \in Good
  <2>1. CASE T = {}
    <3>1. T \cap P = {} /\ T \ P = {}
      BY <2>1
    <3>. QED  BY <2>1, <3>1, SumEmpty
  <2>2. CASE T # {}
    <3>1. PICK x \in T : TRUE
      BY <2>2
    <3> DEFINE U == T \ {x}
    <3>2. IsFiniteSet(T) /\ IsFiniteSet(T \cap P) /\ IsFiniteSet(T \ P)
          /\ IsFiniteSet(U \cap P) /\ IsFiniteSet(U \ P)
      BY FS_Subset
    <3>3. SumFunctionOnSet(f, U) = SumFunctionOnSet(f, U \cap P) + SumFunctionOnSet(f, U \ P)
      BY <1>1
    <3>4. /\ SumFunctionOnSet(f, U \cap P) \in Int
          /\ SumFunctionOnSet(f, U \ P) \in Int
          /\ f[x] \in Int
      BY <3>2, SumInt
    <3>5. SumFunctionOnSet(f, T) = f[x] + SumFunctionOnSet(f, U)
      BY <3>2, SumRemove
    <3>6. CASE x \in P
      <4>1. T \ P = U \ P /\ U \cap P = (T \cap P) \ {x} /\ x \in T \cap P
        BY <3>6
      <4>2. SumFunctionOnSet(f, T \cap P) = f[x] + SumFunctionOnSet(f, U \cap P)
        BY <3>2, <4>1, SumRemove
      <4> HIDE DEF U
      <4>3. SumFunctionOnSet(f, T) = SumFunctionOnSet(f, T \cap P) + SumFunctionOnSet(f, U \ P)
        BY <3>3, <3>4, <3>5, <4>2
      <4>. QED  BY <4>1, <4>3
    <3>7. CASE x \notin P
      <4>1. T \cap P = U \cap P /\ U \ P = (T \ P) \ {x} /\ x \in T \ P
        BY <3>7
      <4>2. SumFunctionOnSet(f, T \ P) = f[x] + SumFunctionOnSet(f, U \ P)
        BY <3>2, <4>1, SumRemove
      <4> HIDE DEF U
      <4>3. SumFunctionOnSet(f, T) = SumFunctionOnSet(f, U \cap P) + SumFunctionOnSet(f, T \ P)
        BY <3>3, <3>4, <3>5, <4>2
      <4>. QED  BY <4>1, <4>3
    <3>. QED  BY <3>6, <3>7
  <2>. QED  BY <2>1, <2>2
<1>2. \A T \in SUBSET S : T \in Good
  <2> HIDE DEF Good
  <2>. QED  BY <1>1, SubsetInduction
<1>3. S \cap P = P
  OBVIOUS
<1>. QED  BY <1>2, <1>3

(* Dropping terms that are not negative does not increase a sum. *)
LEMMA SumOfPart ==
  ASSUME NEW f, NEW S, IsFiniteSet(S), \A x \in S : f[x] \in Nat, NEW P \in SUBSET S
  PROVE  SumFunctionOnSet(f, P) <= SumFunctionOnSet(f, S)
<1>1. IsFiniteSet(P) /\ IsFiniteSet(S \ P)
  BY FS_Subset
<1>2. SumFunctionOnSet(f, P) \in Nat /\ SumFunctionOnSet(f, S \ P) \in Nat
  BY <1>1, SumNat
<1>3. SumFunctionOnSet(f, S) = SumFunctionOnSet(f, P) + SumFunctionOnSet(f, S \ P)
  BY SumSplit
<1>. QED  BY <1>2, <1>3

(* g differs from f on S by d at a, and nowhere else. *)
Moved(f, g, S, a, d) ==
    \A x \in S : f[x] \in Int /\ g[x] = IF x = a THEN f[a] + d ELSE f[x]

(* Adding to one entry adds as much to the sums that count it. *)
LEMMA SumMove ==
  ASSUME NEW f, NEW g, NEW S, IsFiniteSet(S), NEW a, NEW d \in Int, Moved(f, g, S, a, d)
  PROVE  /\ SumFunctionOnSet(f, S) \in Int
         /\ a \in S => SumFunctionOnSet(g, S) = SumFunctionOnSet(f, S) + d
         /\ a \notin S => SumFunctionOnSet(g, S) = SumFunctionOnSet(f, S)
<1> USE DEF Moved
<1>1. \A x \in S : f[x] \in Int /\ g[x] \in Int
  OBVIOUS
<1>2. ASSUME a \in S
      PROVE  SumFunctionOnSet(g, S) = SumFunctionOnSet(f, S) + d
  <2>1. IsFiniteSet(S \ {a})
    BY FS_Subset
  <2>2. SumFunctionOnSet(f, S \ {a}) = SumFunctionOnSet(g, S \ {a})
    <3>1. \A x \in S \ {a} : f[x] = g[x]
      OBVIOUS
    <3>. QED  BY <2>1, <3>1, SumCongruent
  <2>3. SumFunctionOnSet(f, S) = f[a] + SumFunctionOnSet(f, S \ {a})
    BY <1>1, <1>2, SumRemove
  <2>4. SumFunctionOnSet(g, S) = g[a] + SumFunctionOnSet(g, S \ {a})
    BY <1>1, <1>2, SumRemove
  <2>5. g[a] = f[a] + d /\ f[a] \in Int /\ SumFunctionOnSet(f, S \ {a}) \in Int
    BY <1>1, <1>2, <2>1, SumInt
  <2>. QED  BY <2>2, <2>3, <2>4, <2>5
<1>3. ASSUME a \notin S
      PROVE  SumFunctionOnSet(g, S) = SumFunctionOnSet(f, S)
  <2>1. \A x \in S : f[x] = g[x]
    BY <1>3
  <2>. QED  BY <2>1, SumCongruent
<1>. QED  BY <1>1, <1>2, <1>3, SumInt
==============================================================================
