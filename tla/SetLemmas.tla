----------------------------- MODULE SetLemmas -----------------------------
(***************************************************************************)
(* What the proofs need to know of numbers, sequences and sums.            *)
(*                                                                         *)
(* No induction principle is used: of a nonempty set of counterexamples a  *)
(* smallest one is taken, which sets of numbers and finite sets have.      *)
(* SumFunctionOnSet of the community modules is a CHOOSE of the function   *)
(* its recursion defines: the lemmas show that over a finite set of any    *)
(* size there is one, that any two of them agree, and from that the        *)
(* equation, the order in which a sum may be taken apart and what it       *)
(* keeps.                                                                  *)
(***************************************************************************)
EXTENDS Integers, Sequences, FiniteSetsExt, Functions, FiniteSetTheorems, WellFoundedInduction, TLAPS

-----------------------------------------------------------------------------
(* Numbers and sequences.                                                  *)

\* A set of numbers has a smallest member, and what holds at 0 and is carried by every step up
\* to n holds up to n: induction over an interval, with a set in place of a predicate.
LEMMA LeastNumber ==
  ASSUME NEW C, C \subseteq Nat, C # {}
  PROVE  \E m \in C : \A c \in C : m <= c
<1> DEFINE Less == OpToRel(<, Nat)
<1>1. IsWellFoundedOn(Less, Nat)
  BY NatLessThanWellFounded
<1>2. \A x \in Nat, y \in Nat : x < y => <<x, y>> \in Less
  BY DEF OpToRel
<1> HIDE DEF Less
<1>3. PICK m \in C : \A c \in C : ~(<<c, m>> \in Less)
  BY <1>1, WFMin
<1>4. ASSUME NEW c \in C PROVE m <= c
  <2>1. c \in Nat /\ m \in Nat
    OBVIOUS
  <2>2. ~(<<c, m>> \in Less)
    BY <1>3
  <2>3. ~(c < m)
    BY <1>2, <2>1, <2>2, Zenon
  <2> QED
    BY <2>1, <2>3
<1> QED
  BY <1>4

LEMMA Counting ==
  ASSUME NEW n \in Nat, NEW S, 0 \in S, \A k \in 1..n : k - 1 \in S => k \in S
  PROVE  \A k \in 0..n : k \in S
<1> DEFINE C == {k \in 0..n : k \notin S}
<1>1. SUFFICES ASSUME C # {} PROVE FALSE
  OBVIOUS
<1>2. PICK m \in C : \A c \in C : m <= c
  <2>1. C \subseteq Nat
    OBVIOUS
  <2> HIDE DEF C
  <2> QED
    BY <1>1, <2>1, LeastNumber
<1>3. m \in 1..n /\ m - 1 \notin C
  BY <1>2
<1> QED
  BY <1>3

\* The smallest and the largest member of a set of numbers.
LEMMA SmallestMember ==
  ASSUME NEW S, S \subseteq Nat, S # {}
  PROVE  Min(S) \in S /\ \A x \in S : Min(S) <= x
<1>1. \E x \in S : \A y \in S : x <= y
  BY LeastNumber
<1> QED
  BY <1>1 DEF Min

LEMMA LargestMember ==
  ASSUME NEW n \in Nat, NEW S, S \subseteq 0..n, S # {}
  PROVE  Max(S) \in S /\ \A x \in S : x <= Max(S)
<1> DEFINE C == {b \in 0..n : \A x \in S : x <= b}
<1>1. PICK b \in C : \A c \in C : b <= c
  <2>1. n \in C
    OBVIOUS
  <2>2. C \subseteq Nat
    OBVIOUS
  <2> HIDE DEF C
  <2> QED
    BY <2>1, <2>2, LeastNumber
<1>2. b \in S
  <2>1. SUFFICES ASSUME b \notin S PROVE FALSE
    OBVIOUS
  <2>2. PICK x \in S : x <= b /\ x # b
    BY <1>1, <2>1
  <2>3. b - 1 \in C
    BY <1>1, <2>1, <2>2
  <2> QED
    BY <1>1, <2>3
<1>3. \E x \in S : \A y \in S : x >= y
  BY <1>1, <1>2
<1> QED
  BY <1>3 DEF Max

\* What Append adds to a sequence, and that it leaves what was there.
LEMMA Appended ==
  ASSUME NEW S, NEW s \in Seq(S), NEW e \in S
  PROVE  /\ Append(s, e) \in Seq(S) /\ Len(Append(s, e)) = Len(s) + 1 /\ Len(s) \in Nat
         /\ Append(s, e)[Len(s) + 1] = e /\ \A j \in 1..Len(s) : Append(s, e)[j] = s[j]
  OBVIOUS

LEMMA AppendedAny ==
  ASSUME NEW S, NEW s \in Seq(S), NEW e
  PROVE  /\ Len(Append(s, e)) = Len(s) + 1 /\ Len(s) \in Nat
         /\ Append(s, e)[Len(s) + 1] = e /\ SubSeq(Append(s, e), 1, Len(s)) = s
  OBVIOUS

-----------------------------------------------------------------------------
(* Sums.                                                                   *)

\* The recursion by which a sum is computed.
Summed(f, g, s) ==
  IF s = {} THEN 0 ELSE f[CHOOSE x \in s : TRUE] + g[s \ {CHOOSE x \in s : TRUE}]
Sums(f, T, g) == g = [s \in SUBSET T |-> Summed(f, g, s)]

LEMMA SumUnfolds ==
  ASSUME NEW f, NEW S
  PROVE  SumFunctionOnSet(f, S) = (CHOOSE g : Sums(f, S, g))[S]
BY DEF SumFunctionOnSet, FoldFunctionOnSet, MapThenFoldSet, Sums, Summed

\* Induction over the subsets of a finite set.
LEMMA LeastSet ==
  ASSUME NEW S, IsFiniteSet(S), NEW C, C \subseteq SUBSET S, C # {}
  PROVE  \E T \in C : \A U \in C : ~(U \subseteq T /\ U # T)
<1>1. IsWellFoundedOn(StrictSubsetOrdering(S), SUBSET S)
  BY FS_StrictSubsetOrderingWellFounded, FS_FiniteSubsetsOfFinite
<1>2. PICK T \in C : \A U \in C : ~(<<U, T>> \in StrictSubsetOrdering(S))
  BY <1>1, WFMin
<1>3. ASSUME NEW U \in C, U \subseteq T, U # T PROVE FALSE
  BY <1>2, <1>3 DEF StrictSubsetOrdering
<1> QED
  BY <1>3

LEMMA SumsAgree ==
  ASSUME NEW f, NEW S, IsFiniteSet(S), NEW T \in SUBSET S, NEW U \in SUBSET S,
         NEW g, Sums(f, T, g), NEW h, Sums(f, U, h)
  PROVE  \A s \in SUBSET (T \cap U) : g[s] = h[s]
<1> DEFINE C == {s \in SUBSET (T \cap U) : g[s] # h[s]}
<1>1. SUFFICES ASSUME C # {} PROVE FALSE
  OBVIOUS
<1>2. PICK s \in C : \A u \in C : ~(u \subseteq s /\ u # s)
  <2>1. C \subseteq SUBSET S
    OBVIOUS
  <2> HIDE DEF C
  <2> QED
    BY <1>1, <2>1, LeastSet
<1>3. s \subseteq T /\ s \subseteq U /\ g[s] # h[s]
  BY <1>2
<1>4. g[s] = Summed(f, g, s) /\ h[s] = Summed(f, h, s)
  BY <1>3 DEF Sums
<1> DEFINE x == CHOOSE x \in s : TRUE
<1>5. s # {}
  BY <1>3, <1>4 DEF Summed
<1>6. x \in s
  BY <1>5
<1>7. g[s \ {x}] = h[s \ {x}]
  <2>1. s \ {x} \subseteq s /\ s \ {x} # s /\ s \ {x} \in SUBSET (T \cap U)
    BY <1>3, <1>6
  <2>2. s \ {x} \notin C
    BY <1>2, <2>1
  <2> QED
    BY <2>1, <2>2
<1> QED
  BY <1>3, <1>4, <1>5, <1>7 DEF Summed

LEMMA SumsExist ==
  ASSUME NEW f, NEW S, IsFiniteSet(S)
  PROVE  \A T \in SUBSET S : \E g : Sums(f, T, g)
<1> DEFINE C == {T \in SUBSET S : ~ \E g : Sums(f, T, g)}
<1>1. SUFFICES ASSUME C # {} PROVE FALSE
  OBVIOUS
<1>2. PICK T \in C : \A U \in C : ~(U \subseteq T /\ U # T)
  <2>1. C \subseteq SUBSET S
    OBVIOUS
  <2> HIDE DEF C
  <2> QED
    BY <1>1, <2>1, LeastSet
<1>3. T \subseteq S /\ ~ \E g : Sums(f, T, g)
  BY <1>2
<1> DEFINE G(s) == CHOOSE g : Sums(f, s, g)
           At(s) == G(s)[s]
           x(s) == CHOOSE x \in s : TRUE
           top == IF T = {} THEN 0 ELSE f[x(T)] + At(T \ {x(T)})
           g == [s \in SUBSET T |-> IF s = T THEN top ELSE At(s)]
<1>4. ASSUME NEW s \in SUBSET T, s # T PROVE Sums(f, s, G(s))
  <2>1. s \in SUBSET S /\ s \notin C
    BY <1>2, <1>3, <1>4
  <2> QED
    BY <2>1
<1>5. ASSUME NEW s \in SUBSET T, s # {} PROVE x(s) \in s /\ s \ {x(s)} \in SUBSET T /\ s \ {x(s)} # T
  <2>1. x(s) \in s
    BY <1>5
  <2> HIDE DEF x
  <2> QED
    BY <2>1
<1>6. ASSUME NEW s \in SUBSET T PROVE g[s] = Summed(f, g, s)
  <2>1. CASE s = T
    <3>1. CASE T = {}
      BY <2>1, <3>1 DEF Summed
    <3>2. CASE T # {}
      <4>1. g[T] = f[x(T)] + At(T \ {x(T)})
        BY <3>2
      <4>2. g[T \ {x(T)}] = At(T \ {x(T)})
        <5> HIDE DEF x, At, top
        <5> QED
          BY <1>5, <3>2
      <4> HIDE DEF g, At
      <4> QED
        BY <2>1, <3>2, <4>1, <4>2 DEF Summed
    <3> QED
      BY <3>1, <3>2
  <2>2. CASE s # T
    <3>1. g[s] = At(s)
      BY <2>2
    <3>2. Sums(f, s, G(s))
      BY <1>4, <2>2
    <3>3. At(s) = Summed(f, G(s), s)
      <4> HIDE DEF G
      <4> QED
        BY <3>2 DEF Sums
    <3>4. CASE s = {}
      <4> HIDE DEF g, G, At
      <4> QED
        BY <3>1, <3>3, <3>4 DEF Summed
    <3>5. CASE s # {}
      <4> DEFINE r == s \ {x(s)}
      <4>1. r \in SUBSET T /\ r # T /\ r \subseteq s
        BY <1>5, <3>5
      <4>2. g[r] = At(r)
        <5> HIDE DEF At, r, top
        <5> QED
          BY <4>1
      <4>3. G(r)[r] = G(s)[r]
        <5>1. Sums(f, r, G(r))
          <6> HIDE DEF G, r
          <6> QED
            BY <1>4, <4>1
        <5>2. r \in SUBSET (r \cap s) /\ r \in SUBSET S /\ s \in SUBSET S
          BY <1>3, <4>1
        <5> HIDE DEF G, r
        <5> QED
          BY <3>2, <5>1, <5>2, SumsAgree
      <4>4. g[r] = G(s)[r]
        BY <4>2, <4>3
      <4> HIDE DEF g, G, At
      <4> QED
        BY <3>1, <3>3, <3>5, <4>4 DEF Summed
    <3> QED
      BY <3>4, <3>5
  <2> QED
    BY <2>1, <2>2
<1>7. Sums(f, T, g)
  <2>1. g = [s \in SUBSET T |-> g[s]]
    OBVIOUS
  <2> HIDE DEF g
  <2> QED
    BY <1>6, <2>1 DEF Sums
<1> QED
  BY <1>3, <1>7

\* The equation by which the operator is defined.
LEMMA SumDef ==
  ASSUME NEW f, NEW S, IsFiniteSet(S)
  PROVE  SumFunctionOnSet(f, S) =
           IF S = {} THEN 0
           ELSE f[CHOOSE x \in S : TRUE] + SumFunctionOnSet(f, S \ {CHOOSE x \in S : TRUE})
<1> DEFINE G(s) == CHOOSE g : Sums(f, s, g)
           x == CHOOSE x \in S : TRUE
           r == S \ {x}
<1>1. \A s \in SUBSET S : Sums(f, s, G(s))
  BY SumsExist
<1>2. SumFunctionOnSet(f, S) = G(S)[S] /\ SumFunctionOnSet(f, r) = G(r)[r]
  BY SumUnfolds
<1>3. G(r)[r] = G(S)[r]
  <2>1. Sums(f, r, G(r)) /\ Sums(f, S, G(S)) /\ r \in SUBSET S /\ r \in SUBSET (r \cap S)
    <3> HIDE DEF G
    <3> QED
      BY <1>1
  <2> HIDE DEF G, r
  <2> QED
    BY <2>1, SumsAgree
<1>4. G(S)[S] = Summed(f, G(S), S)
  <2> HIDE DEF G
  <2> QED
    BY <1>1 DEF Sums
<1> HIDE DEF G
<1> QED
  BY <1>2, <1>3, <1>4 DEF Summed

\* A member may be taken out of a sum of integers, whichever it is.
LEMMA SumSplit ==
  ASSUME NEW S, IsFiniteSet(S), NEW f, \A x \in S : f[x] \in Int
  PROVE  /\ SumFunctionOnSet(f, {}) = 0
         /\ SumFunctionOnSet(f, S) \in Int
         /\ \A x \in S : SumFunctionOnSet(f, S) = f[x] + SumFunctionOnSet(f, S \ {x})
<1> DEFINE Sum(T) == SumFunctionOnSet(f, T)
           Split(T) == Sum(T) \in Int /\ \A x \in T : Sum(T) = f[x] + Sum(T \ {x})
           C == {T \in SUBSET S : ~Split(T)}
<1>1. Sum({}) = 0
  BY SumDef, FS_EmptySet
<1>2. C = {}
  <2>1. SUFFICES ASSUME C # {} PROVE FALSE
    OBVIOUS
  <2>2. PICK T \in C : \A U \in C : ~(U \subseteq T /\ U # T)
    <3>1. C \subseteq SUBSET S
      OBVIOUS
    <3> HIDE DEF C
    <3> QED
      BY <2>1, <3>1, LeastSet
  <2>3. T \in SUBSET S /\ ~Split(T)
    BY <2>2
  <2>4. ASSUME NEW U \in SUBSET T, U # T PROVE Split(U)
    <3>1. U \in SUBSET S /\ U \notin C
      BY <2>2, <2>3, <2>4
    <3> HIDE DEF Split
    <3> QED
      BY <3>1
  <2>5. T # {}
    <3>1. Split({})
      BY <1>1
    <3> HIDE DEF Split
    <3> QED
      BY <2>3, <3>1
  <2> DEFINE c == CHOOSE x \in T : TRUE
  <2>6. c \in T
    BY <2>5
  <2>7. Sum(T) = f[c] + Sum(T \ {c})
    <3>1. IsFiniteSet(T)
      BY <2>3, FS_Subset
    <3> QED
      BY <2>5, <3>1, SumDef
  <2> HIDE DEF c, Sum
  <2>8. Sum(T \ {c}) \in Int /\ f[c] \in Int
    <3>1. T \ {c} \in SUBSET T /\ T \ {c} # T
      BY <2>6
    <3> QED
      BY <2>3, <2>4, <2>6, <3>1
  <2>9. ASSUME NEW x \in T PROVE Sum(T) = f[x] + Sum(T \ {x})
    <3>1. CASE x = c
      BY <2>7, <3>1
    <3>2. CASE x # c
      <4> DEFINE rest == (T \ {c}) \ {x}
      <4>1. T \ {c} \in SUBSET T /\ T \ {c} # T /\ T \ {x} \in SUBSET T /\ T \ {x} # T
        BY <2>6
      <4>2. x \in T \ {c} /\ c \in T \ {x} /\ rest = (T \ {x}) \ {c}
        BY <2>6, <3>2
      <4>3. Sum(T \ {c}) = f[x] + Sum(rest)
        BY <2>4, <4>1, <4>2
      <4>4. Sum(T \ {x}) = f[c] + Sum(rest)
        <5> HIDE DEF rest
        <5> QED
          BY <2>4, <4>1, <4>2
      <4>5. rest \in SUBSET T /\ rest # T
        BY <2>6
      <4>6. Sum(rest) \in Int /\ f[x] \in Int
        <5> HIDE DEF rest
        <5> QED
          BY <2>3, <2>4, <4>5
      <4> HIDE DEF rest
      <4> QED
        BY <2>7, <2>8, <4>3, <4>4, <4>6
    <3> QED
      BY <3>1, <3>2
  <2> QED
    BY <2>3, <2>7, <2>8, <2>9
<1>3. Split(S)
  <2>1. S \in SUBSET S /\ S \notin C
    BY <1>2
  <2> HIDE DEF Split
  <2> QED
    BY <2>1
<1> QED
  BY <1>1, <1>3

\* A sum depends on the members alone.
LEMMA SumSame ==
  ASSUME NEW S, IsFiniteSet(S), NEW f, NEW g, \A x \in S : f[x] \in Int /\ g[x] = f[x]
  PROVE  SumFunctionOnSet(g, S) = SumFunctionOnSet(f, S)
<1> DEFINE C == {T \in SUBSET S : SumFunctionOnSet(g, T) # SumFunctionOnSet(f, T)}
<1>1. SUFFICES ASSUME C # {} PROVE FALSE
  OBVIOUS
<1>2. PICK T \in C : \A U \in C : ~(U \subseteq T /\ U # T)
  <2>1. C \subseteq SUBSET S
    OBVIOUS
  <2> HIDE DEF C
  <2> QED
    BY <1>1, <2>1, LeastSet
<1>3. IsFiniteSet(T) /\ T \in SUBSET S
  BY FS_Subset
<1>4. T # {}
  BY SumDef, FS_EmptySet
<1>5. PICK x \in T : TRUE
  BY <1>4
<1>6. /\ SumFunctionOnSet(f, T) = f[x] + SumFunctionOnSet(f, T \ {x})
      /\ SumFunctionOnSet(g, T) = g[x] + SumFunctionOnSet(g, T \ {x})
  BY <1>3, <1>5, SumSplit
<1>7. SumFunctionOnSet(g, T \ {x}) = SumFunctionOnSet(f, T \ {x})
  <2>1. T \ {x} \in SUBSET S /\ T \ {x} \subseteq T /\ T \ {x} # T
    BY <1>5
  <2> QED
    BY <1>2, <2>1
<1> QED
  BY <1>2, <1>5, <1>6, <1>7

\* Sums are added member by member.
LEMMA SumPlus ==
  ASSUME NEW S, IsFiniteSet(S), NEW f, NEW g, NEW h,
         \A x \in S : f[x] \in Int /\ g[x] \in Int /\ h[x] = f[x] + g[x]
  PROVE  SumFunctionOnSet(h, S) = SumFunctionOnSet(f, S) + SumFunctionOnSet(g, S)
<1> DEFINE Adds(T) == SumFunctionOnSet(h, T) = SumFunctionOnSet(f, T) + SumFunctionOnSet(g, T)
           C == {T \in SUBSET S : ~Adds(T)}
<1>1. SUFFICES ASSUME C # {} PROVE FALSE
  OBVIOUS
<1>2. PICK T \in C : \A U \in C : ~(U \subseteq T /\ U # T)
  <2>1. C \subseteq SUBSET S
    OBVIOUS
  <2> HIDE DEF C
  <2> QED
    BY <1>1, <2>1, LeastSet
<1>3. IsFiniteSet(T) /\ T \in SUBSET S /\ ~Adds(T)
  BY <1>2, FS_Subset
<1>4. T # {}
  <2>1. Adds({})
    <3>1. \A k : SumFunctionOnSet(k, {}) = 0
      BY SumDef, FS_EmptySet
    <3> QED
      BY <3>1
  <2> HIDE DEF Adds
  <2> QED
    BY <1>3, <2>1
<1>5. PICK x \in T : TRUE
  BY <1>4
<1> DEFINE r == T \ {x}
<1>6. /\ SumFunctionOnSet(f, T) = f[x] + SumFunctionOnSet(f, r)
      /\ SumFunctionOnSet(g, T) = g[x] + SumFunctionOnSet(g, r)
      /\ SumFunctionOnSet(h, T) = h[x] + SumFunctionOnSet(h, r)
  <2>1. \A y \in T : h[y] \in Int
    OBVIOUS
  <2> QED
    BY <1>3, <1>5, <2>1, SumSplit
<1>7. Adds(r)
  <2>1. r \in SUBSET S /\ r \subseteq T /\ r # T
    BY <1>5
  <2> HIDE DEF Adds, r
  <2> QED
    BY <1>2, <2>1
<1>8. SumFunctionOnSet(f, r) \in Int /\ SumFunctionOnSet(g, r) \in Int
  <2>1. IsFiniteSet(r) /\ r \subseteq S
    BY <1>3, FS_Subset
  <2> HIDE DEF r
  <2> QED
    BY <2>1, SumSplit
<1> HIDE DEF r
<1> QED
  BY <1>3, <1>5, <1>6, <1>7, <1>8

\* What is nothing adds nothing.
LEMMA SumZeros ==
  ASSUME NEW S, IsFiniteSet(S), NEW T \in SUBSET S, NEW f, \A x \in S : f[x] \in Int,
         \A x \in S \ T : f[x] = 0
  PROVE  SumFunctionOnSet(f, S) = SumFunctionOnSet(f, T)
<1> DEFINE C == {U \in SUBSET S : T \subseteq U /\ SumFunctionOnSet(f, U) # SumFunctionOnSet(f, T)}
<1>1. SUFFICES ASSUME C # {} PROVE FALSE
  OBVIOUS
<1>2. PICK U \in C : \A V \in C : ~(V \subseteq U /\ V # U)
  <2>1. C \subseteq SUBSET S
    OBVIOUS
  <2> HIDE DEF C
  <2> QED
    BY <1>1, <2>1, LeastSet
<1>3. IsFiniteSet(U) /\ U \in SUBSET S /\ T \subseteq U
  BY FS_Subset
<1>4. PICK x \in U : x \notin T
  BY <1>2, <1>3
<1>5. SumFunctionOnSet(f, U) = f[x] + SumFunctionOnSet(f, U \ {x})
  BY <1>3, <1>4, SumSplit
<1>6. SumFunctionOnSet(f, U \ {x}) = SumFunctionOnSet(f, T)
  <2>1. U \ {x} \in SUBSET S /\ U \ {x} \subseteq U /\ U \ {x} # U /\ T \subseteq U \ {x}
    BY <1>3, <1>4
  <2> QED
    BY <1>2, <2>1
<1>7. SumFunctionOnSet(f, T) \in Int
  <2>1. IsFiniteSet(T)
    BY FS_Subset
  <2> QED
    BY <2>1, SumSplit
<1> QED
  BY <1>2, <1>4, <1>5, <1>6, <1>7

\* One summand changes.
LEMMA SumChanged ==
  ASSUME NEW S, IsFiniteSet(S), NEW f, NEW g, NEW c \in S, g[c] \in Int,
         \A x \in S : f[x] \in Int /\ (x # c => g[x] = f[x])
  PROVE  SumFunctionOnSet(g, S) = SumFunctionOnSet(f, S) - f[c] + g[c]
<1> DEFINE r == S \ {c}
<1>1. IsFiniteSet(r) /\ \A x \in r : f[x] \in Int /\ g[x] = f[x]
  BY FS_Subset
<1>2. SumFunctionOnSet(f, S) = f[c] + SumFunctionOnSet(f, r)
  BY SumSplit
<1>3. SumFunctionOnSet(g, S) = g[c] + SumFunctionOnSet(g, r)
  <2>1. \A x \in S : g[x] \in Int
    OBVIOUS
  <2> QED
    BY <2>1, SumSplit
<1>4. SumFunctionOnSet(g, r) = SumFunctionOnSet(f, r) /\ SumFunctionOnSet(f, r) \in Int
  <2> HIDE DEF r
  <2> QED
    BY <1>1, SumSame, SumSplit
<1> QED
  BY <1>2, <1>3, <1>4

\* The values of a sequence grow by one at the end, and the index may be summed or not.
LEMMA SumAppended ==
  ASSUME NEW n \in Nat, NEW f, NEW g, NEW S \in SUBSET (1..n), NEW T,
         T = S \/ T = S \union {n + 1}, g[n + 1] \in Int,
         \A k \in 1..n : f[k] \in Int /\ g[k] = f[k]
  PROVE  /\ SumFunctionOnSet(f, S) \in Int
         /\ SumFunctionOnSet(g, T)
              = SumFunctionOnSet(f, S) + (IF n + 1 \in T THEN g[n + 1] ELSE 0)
<1>1. IsFiniteSet(S) /\ IsFiniteSet(S \union {n + 1}) /\ n + 1 \notin S
  <2>1. IsFiniteSet(1..n)
    BY FS_Interval
  <2>2. IsFiniteSet(S)
    BY <2>1, FS_Subset
  <2> QED
    BY <2>2, FS_AddElement
<1>2. SumFunctionOnSet(g, S) = SumFunctionOnSet(f, S) /\ SumFunctionOnSet(f, S) \in Int
  <2>1. \A k \in S : f[k] \in Int /\ g[k] = f[k]
    OBVIOUS
  <2> QED
    BY <1>1, <2>1, SumSame, SumSplit
<1>3. CASE T = S
  BY <1>1, <1>2, <1>3
<1>4. CASE T = S \union {n + 1}
  <2>1. (S \union {n + 1}) \ {n + 1} = S
    BY <1>1
  <2>2. \A k \in S \union {n + 1} : g[k] \in Int
    OBVIOUS
  <2>3. SumFunctionOnSet(g, S \union {n + 1})
          = g[n + 1] + SumFunctionOnSet(g, (S \union {n + 1}) \ {n + 1})
    <3> DEFINE U == S \union {n + 1}
    <3>1. n + 1 \in U
      OBVIOUS
    <3> HIDE DEF U
    <3>2. IsFiniteSet(U) /\ \A k \in U : g[k] \in Int
      BY <1>1, <2>2 DEF U
    <3> QED
      BY <3>1, <3>2, SumSplit DEF U
  <2> QED
    BY <1>2, <1>4, <2>1, <2>3
<1> QED
  BY <1>3, <1>4

\* A sum over one number more.
LEMMA SumStep ==
  ASSUME NEW m \in Nat, NEW f, \A x \in 1..(m + 1) : f[x] \in Int
  PROVE  /\ SumFunctionOnSet(f, 1..m) \in Int
         /\ SumFunctionOnSet(f, 1..(m + 1)) = SumFunctionOnSet(f, 1..m) + f[m + 1]
<1>1. IsFiniteSet(1..m) /\ IsFiniteSet(1..(m + 1))
  BY FS_Interval
<1>2. (1..(m + 1)) \ {m + 1} = 1..m /\ m + 1 \in 1..(m + 1)
  OBVIOUS
<1>3. SumFunctionOnSet(f, 1..(m + 1)) = f[m + 1] + SumFunctionOnSet(f, 1..m)
  <2>1. SumFunctionOnSet(f, 1..(m + 1)) = f[m + 1] + SumFunctionOnSet(f, (1..(m + 1)) \ {m + 1})
    BY <1>1, <1>2, SumSplit
  <2> QED
    BY <1>2, <2>1, Zenon
<1>4. SumFunctionOnSet(f, 1..m) \in Int
  BY <1>1, SumSplit
<1>5. f[m + 1] \in Int
  BY <1>2
<1> QED
  BY <1>2, <1>3, <1>4, <1>5

=============================================================================
