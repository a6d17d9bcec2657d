----------------------------- MODULE FiniteSums -----------------------------
(***************************************************************************)
(* Sums over finite sets, as the models compute them (MapThenSumSet), and  *)
(* the facts about them that the proofs use.  A sum is a recursive         *)
(* function over the subsets of the set; that the function exists, and     *)
(* that it returns the same whatever element it takes first, is proved by  *)
(* induction.  The induction principles are stated for sets instead of     *)
(* predicates: what is to be shown for every number, or every subset, is   *)
(* that it belongs to a set.                                               *)
(***************************************************************************)
EXTENDS Integers, FiniteSetsExt, FiniteSetTheorems, WellFoundedInduction, TLAPS

-----------------------------------------------------------------------------
(* Induction *)

\* A set of naturals has a smallest element.
LEMMA SmallestNumber ==
  ASSUME NEW T, T \subseteq Nat, T # {}
  PROVE  \E n \in T : \A m \in T : n <= m
<1>1. PICK n \in T : \A m \in T : ~(<<m, n>> \in OpToRel(<, Nat))
  BY NatLessThanWellFounded, WFMin
<1>2. ASSUME NEW m \in T PROVE n <= m
  <2>1. ~(<<m, n>> \in OpToRel(<, Nat))
    BY <1>1
  <2>2. m \in Nat /\ n \in Nat
    OBVIOUS
  <2>3. ~(m < n)
    BY <2>1, <2>2 DEF OpToRel
  <2>4. QED BY <2>2, <2>3
<1>3. QED BY <1>2

\* A set with 0 and the successor of each of its numbers has every number.
LEMMA NumberInduction ==
  ASSUME NEW G, 0 \in G, \A n \in Nat : n \in G => n + 1 \in G
  PROVE  Nat \subseteq G
<1>1. SUFFICES ASSUME Nat \ G # {} PROVE FALSE
  OBVIOUS
<1>2. PICK n \in Nat \ G : \A m \in Nat \ G : n <= m
  BY <1>1, SmallestNumber
<1>3. n \in Nat /\ n # 0
  OBVIOUS
<1>4. n - 1 \in Nat /\ ~(n <= n - 1) /\ (n - 1) + 1 = n
  BY <1>3
<1>5. n - 1 \in G
  BY <1>2, <1>4
<1>6. n \in G
  BY <1>4, <1>5
<1>7. QED BY <1>6

LEMMA WithoutOne ==
  ASSUME NEW s, NEW x \in s, IsFiniteSet(s)
  PROVE  /\ IsFiniteSet(s \ {x})
         /\ Cardinality(s) \in Nat
         /\ Cardinality(s \ {x}) = Cardinality(s) - 1
<1>1. Cardinality(s) \in Nat
  BY FS_CardinalityType
<1>2. IsFiniteSet(s \ {x}) /\ Cardinality(s \ {x}) = Cardinality(s) - 1
  BY FS_RemoveElement
<1>3. QED BY <1>1, <1>2

\* A set has every subset of S if it has each whose subsets with one element less it has.
LEMMA SubsetInduction ==
  ASSUME NEW S, IsFiniteSet(S),
         NEW G, \A s \in SUBSET S : (\A x \in s : s \ {x} \in G) => s \in G
  PROVE  SUBSET S \subseteq G
<1> DEFINE H == {n \in Nat : \A s \in SUBSET S : Cardinality(s) = n => s \in G}
<1>1. \A s \in SUBSET S : IsFiniteSet(s) /\ Cardinality(s) \in Nat
  BY FS_Subset, FS_CardinalityType
<1>2. 0 \in H
  <2>1. ASSUME NEW s \in SUBSET S, Cardinality(s) = 0 PROVE s \in G
    <3>1. s = {}
      BY <1>1, <2>1, FS_EmptySet
    <3>2. QED BY <3>1
  <2>2. QED BY <2>1
<1>3. ASSUME NEW n \in Nat, n \in H PROVE n + 1 \in H
  <2>1. ASSUME NEW s \in SUBSET S, Cardinality(s) = n + 1 PROVE s \in G
    <3>1. ASSUME NEW x \in s PROVE s \ {x} \in G
      <4>1. Cardinality(s \ {x}) = Cardinality(s) - 1
        BY <1>1, WithoutOne
      <4>2. Cardinality(s \ {x}) = n
        BY <2>1, <4>1
      <4>3. QED BY <1>3, <4>2
    <3>2. QED BY <3>1
  <2>2. QED BY <2>1
<1> HIDE DEF H
<1>4. Nat \subseteq H
  BY <1>2, <1>3, NumberInduction
<1>5. QED BY <1>1, <1>4 DEF H

-----------------------------------------------------------------------------
(* The recursive function behind a sum *)

Chosen(s) == CHOOSE x \in s : TRUE

\* g[s] is the sum of F over s, for every subset s of S.
IsSumTable(g, F, S) ==
  g = [s \in SUBSET S |-> IF s = {} THEN 0 ELSE F[Chosen(s)] + g[s \ {Chosen(s)}]]

SumOver(F, S) == MapThenSumSet(LAMBDA x : F[x], S)

LEMMA SumTableStep ==
  ASSUME NEW g, NEW F, NEW S, IsSumTable(g, F, S), NEW s \in SUBSET S
  PROVE  /\ s = {} => g[s] = 0
         /\ s # {} => \E c \in s : c = Chosen(s) /\ g[s] = F[c] + g[s \ {c}]
<1>1. s # {} => Chosen(s) \in s
  BY DEF Chosen
<1>2. QED BY <1>1 DEF IsSumTable

LEMMA SumTableExists ==
  ASSUME NEW S, IsFiniteSet(S), NEW F
  PROVE  \E g : IsSumTable(g, F, S)
<1> DEFINE Onto(g) == [s \in SUBSET S |->
                         IF s = {} THEN 0 ELSE F[Chosen(s)] + g[s \ {Chosen(s)}]]
           Upto(g, n) == \A s \in SUBSET S : Cardinality(s) <= n => g[s] = Onto(g)[s]
           H == {n \in Nat : \E g : g = [s \in SUBSET S |-> g[s]] /\ Upto(g, n)}
<1>1. \A s \in SUBSET S : IsFiniteSet(s) /\ Cardinality(s) \in Nat
  BY FS_Subset, FS_CardinalityType
<1>2. 0 \in H
  <2>1. PICK g : g = [s \in SUBSET S |-> 0]
    OBVIOUS
  <2>2. ASSUME NEW s \in SUBSET S, Cardinality(s) <= 0 PROVE g[s] = Onto(g)[s]
    <3>1. s = {}
      BY <1>1, <2>2, FS_EmptySet
    <3>2. QED BY <2>1, <3>1
  <2>3. g = [s \in SUBSET S |-> g[s]]
    BY <2>1
  <2>4. QED BY <2>2, <2>3
<1>3. ASSUME NEW n \in Nat, n \in H PROVE n + 1 \in H
  <2>1. PICK g : g = [s \in SUBSET S |-> g[s]] /\ Upto(g, n)
    BY <1>3
  <2>2. PICK h : h = Onto(g)
    OBVIOUS
  <2>3. ASSUME NEW s \in SUBSET S, Cardinality(s) <= n + 1 PROVE h[s] = Onto(h)[s]
    <3>1. CASE s = {}
      BY <2>2, <3>1
    <3>2. CASE s # {}
      <4>1. Chosen(s) \in s /\ s \ {Chosen(s)} \in SUBSET S
        BY <3>2 DEF Chosen
      <4>2. Cardinality(s \ {Chosen(s)}) <= n
        <5>1. /\ Cardinality(s) \in Nat
              /\ Cardinality(s \ {Chosen(s)}) = Cardinality(s) - 1
          BY <1>1, <4>1, WithoutOne
        <5>2. QED BY <5>1, <2>3
      <4>3. g[s \ {Chosen(s)}] = Onto(g)[s \ {Chosen(s)}]
        BY <2>1, <4>1, <4>2
      <4>4. h[s \ {Chosen(s)}] = g[s \ {Chosen(s)}]
        BY <2>2, <4>3
      <4>5. h[s] = F[Chosen(s)] + g[s \ {Chosen(s)}]
        BY <2>2, <3>2
      <4>6. Onto(h)[s] = F[Chosen(s)] + h[s \ {Chosen(s)}]
        BY <3>2
      <4>7. QED BY <4>4, <4>5, <4>6
    <3>3. QED BY <3>1, <3>2
  <2>4. h = [s \in SUBSET S |-> h[s]]
    BY <2>2
  <2>5. n + 1 \in Nat
    OBVIOUS
  <2>6. Upto(h, n + 1)
    BY <2>3
  <2> HIDE DEF Onto, Upto
  <2>7. QED BY <2>4, <2>5, <2>6
<1>4. Cardinality(S) \in H
  <2> HIDE DEF H
  <2>1. Nat \subseteq H
    BY <1>2, <1>3, NumberInduction
  <2>2. QED BY <1>1, <2>1
<1>5. PICK g : g = [s \in SUBSET S |-> g[s]] /\ Upto(g, Cardinality(S))
  BY <1>4
<1>6. \A s \in SUBSET S : g[s] = Onto(g)[s]
  <2>1. ASSUME NEW s \in SUBSET S PROVE Cardinality(s) <= Cardinality(S)
    BY FS_Subset
  <2>2. QED BY <1>5, <2>1
<1>7. g = Onto(g)
  <2>1. Onto(g) = [s \in SUBSET S |-> Onto(g)[s]]
    OBVIOUS
  <2>2. QED BY <1>5, <1>6, <2>1
<1>8. QED BY <1>7 DEF IsSumTable

LEMMA SumTableType ==
  ASSUME NEW S, IsFiniteSet(S), NEW F, \A x \in S : F[x] \in Int,
         NEW g, IsSumTable(g, F, S)
  PROVE  \A s \in SUBSET S : g[s] \in Int
<1> DEFINE G == {s \in SUBSET S : g[s] \in Int}
<1>1. ASSUME NEW s \in SUBSET S, \A x \in s : s \ {x} \in G PROVE s \in G
  <2>1. CASE s = {}
    BY <2>1, SumTableStep
  <2>2. CASE s # {}
    <3>1. PICK c \in s : g[s] = F[c] + g[s \ {c}]
      BY <2>2, SumTableStep
    <3>2. F[c] \in Int /\ g[s \ {c}] \in Int
      BY <1>1
    <3>3. QED BY <3>1, <3>2
  <2>3. QED BY <2>1, <2>2
<1> HIDE DEF G
<1>2. SUBSET S \subseteq G
  BY <1>1, SubsetInduction
<1>3. QED BY <1>2 DEF G

\* Whichever element is taken first, the sum is the same.
LEMMA SumTableSplit ==
  ASSUME NEW S, IsFiniteSet(S), NEW F, \A x \in S : F[x] \in Int,
         NEW g, IsSumTable(g, F, S)
  PROVE  \A s \in SUBSET S : \A x \in s : g[s] = F[x] + g[s \ {x}]
<1> DEFINE G == {s \in SUBSET S : \A x \in s : g[s] = F[x] + g[s \ {x}]}
<1>1. ASSUME NEW s \in SUBSET S, \A x \in s : s \ {x} \in G, NEW x \in s
      PROVE  g[s] = F[x] + g[s \ {x}]
  <2>1. PICK c \in s : g[s] = F[c] + g[s \ {c}]
    BY SumTableStep
  <2>2. CASE c = x
    BY <2>1, <2>2
  <2>3. CASE c # x
    <3>1. PICK a : a = g[(s \ {x}) \ {c}]
      OBVIOUS
    <3>2. (s \ {c}) \ {x} = (s \ {x}) \ {c}
      OBVIOUS
    <3>3. g[s \ {c}] = F[x] + a
      BY <1>1, <2>3, <3>1, <3>2
    <3>4. g[s \ {x}] = F[c] + a
      BY <1>1, <2>3, <3>1
    <3>5. a \in Int /\ F[x] \in Int /\ F[c] \in Int
      <4>1. (s \ {x}) \ {c} \in SUBSET S
        OBVIOUS
      <4>2. QED BY <3>1, <4>1, SumTableType
    <3>6. F[c] + (F[x] + a) = F[x] + (F[c] + a)
      BY <3>5
    <3>7. QED BY <2>1, <3>3, <3>4, <3>6
  <2>4. QED BY <2>2, <2>3
<1>2. \A s \in SUBSET S : (\A x \in s : s \ {x} \in G) => s \in G
  BY <1>1
<1> HIDE DEF G
<1>3. SUBSET S \subseteq G
  BY <1>2, SubsetInduction
<1>4. QED BY <1>3 DEF G

\* A sum depends on nothing but the summands.
LEMMA SumTableAgrees ==
  ASSUME NEW S, IsFiniteSet(S), NEW F, NEW g, IsSumTable(g, F, S),
         NEW T, NEW G, NEW h, IsSumTable(h, G, T),
         NEW s \in SUBSET S, s \in SUBSET T, \A x \in s : F[x] = G[x]
  PROVE  g[s] = h[s]
<1> DEFINE A == {r \in SUBSET s : g[r] = h[r]}
<1>1. IsFiniteSet(s)
  BY FS_Subset
<1>2. ASSUME NEW r \in SUBSET s, \A x \in r : r \ {x} \in A PROVE r \in A
  <2>1. r \in SUBSET S /\ r \in SUBSET T
    OBVIOUS
  <2>2. CASE r = {}
    BY <2>1, <2>2, SumTableStep
  <2>3. CASE r # {}
    <3>1. PICK c \in r : c = Chosen(r) /\ g[r] = F[c] + g[r \ {c}]
      BY <2>1, <2>3, SumTableStep
    <3>2. h[r] = G[c] + h[r \ {c}]
      <4>1. h[r] = G[Chosen(r)] + h[r \ {Chosen(r)}]
        BY <2>1, <2>3 DEF IsSumTable
      <4>2. QED BY <3>1, <4>1
    <3>3. g[r \ {c}] = h[r \ {c}] /\ F[c] = G[c]
      BY <1>2
    <3>4. QED BY <3>1, <3>2, <3>3
  <2>4. QED BY <2>2, <2>3
<1> HIDE DEF A
<1>3. SUBSET s \subseteq A
  BY <1>1, <1>2, SubsetInduction
<1>4. QED BY <1>3 DEF A

-----------------------------------------------------------------------------
(* What a sum returns *)

LEMMA SumTableUnfold ==
  ASSUME NEW S, IsFiniteSet(S), NEW F
  PROVE  \E g : IsSumTable(g, F, S) /\ SumOver(F, S) = g[S]
<1>1. PICK g0 : IsSumTable(g0, F, S)
  BY SumTableExists
<1>2. QED
  BY <1>1 DEF SumOver, MapThenSumSet, MapThenFoldSet, IsSumTable, Chosen

\* The sum over no element is zero.
LEMMA SumEmpty == ASSUME NEW F PROVE SumOver(F, {}) = 0
<1>1. PICK g : IsSumTable(g, F, {}) /\ SumOver(F, {}) = g[{}]
  BY FS_EmptySet, SumTableUnfold
<1>2. QED BY <1>1, SumTableStep

\* Equal summands, equal sums.
LEMMA SumSame ==
  ASSUME NEW S, IsFiniteSet(S), NEW F, NEW G, \A x \in S : F[x] = G[x]
  PROVE  SumOver(F, S) = SumOver(G, S)
<1>1. PICK g : IsSumTable(g, F, S) /\ SumOver(F, S) = g[S]
  BY SumTableUnfold
<1>2. PICK h : IsSumTable(h, G, S) /\ SumOver(G, S) = h[S]
  BY SumTableUnfold
<1>3. g[S] = h[S]
  BY <1>1, <1>2, SumTableAgrees
<1>4. QED BY <1>1, <1>2, <1>3

LEMMA SumType ==
  ASSUME NEW S, IsFiniteSet(S), NEW F, \A x \in S : F[x] \in Int
  PROVE  SumOver(F, S) \in Int
<1>1. PICK g : IsSumTable(g, F, S) /\ SumOver(F, S) = g[S]
  BY SumTableUnfold
<1>2. QED BY <1>1, SumTableType

\* One element apart: its summand and the sum over the others.
LEMMA SumWithout ==
  ASSUME NEW S, IsFiniteSet(S), NEW F, \A x \in S : F[x] \in Int, NEW x \in S
  PROVE  /\ SumOver(F, S \ {x}) \in Int
         /\ SumOver(F, S) = F[x] + SumOver(F, S \ {x})
<1>1. PICK g : IsSumTable(g, F, S) /\ SumOver(F, S) = g[S]
  BY SumTableUnfold
<1>2. IsFiniteSet(S \ {x})
  BY FS_RemoveElement
<1>3. PICK h : IsSumTable(h, F, S \ {x}) /\ SumOver(F, S \ {x}) = h[S \ {x}]
  BY <1>2, SumTableUnfold
<1>4. g[S \ {x}] = h[S \ {x}]
  BY <1>1, <1>3, SumTableAgrees
<1>5. g[S] = F[x] + g[S \ {x}]
  BY <1>1, SumTableSplit
<1>6. SumOver(F, S \ {x}) \in Int
  BY <1>2, SumType
<1>7. QED BY <1>1, <1>3, <1>4, <1>5, <1>6

\* One element more: its summand more.
LEMMA SumWith ==
  ASSUME NEW S, IsFiniteSet(S), NEW F, NEW x, x \notin S,
         \A y \in S \cup {x} : F[y] \in Int
  PROVE  /\ SumOver(F, S) \in Int
         /\ SumOver(F, S \cup {x}) = F[x] + SumOver(F, S)
<1>1. IsFiniteSet(S \cup {x})
  BY FS_AddElement
<1>2. (S \cup {x}) \ {x} = S
  OBVIOUS
<1>3. /\ SumOver(F, (S \cup {x}) \ {x}) \in Int
      /\ SumOver(F, S \cup {x}) = F[x] + SumOver(F, (S \cup {x}) \ {x})
  BY <1>1, SumWithout
<1>4. QED BY <1>2, <1>3

\* A set cut in two.
LEMMA SumSplit ==
  ASSUME NEW S, IsFiniteSet(S), NEW F, \A x \in S : F[x] \in Int, NEW T \in SUBSET S
  PROVE  /\ SumOver(F, T) \in Int /\ SumOver(F, S \ T) \in Int
         /\ SumOver(F, S) = SumOver(F, T) + SumOver(F, S \ T)
<1> DEFINE A == {r \in SUBSET S : SumOver(F, S) = SumOver(F, r) + SumOver(F, S \ r)}
<1>1. \A r \in SUBSET S : IsFiniteSet(r) /\ SumOver(F, r) \in Int
  BY FS_Subset, SumType
<1>2. ASSUME NEW r \in SUBSET S, \A x \in r : r \ {x} \in A PROVE r \in A
  <2>1. CASE r = {}
    <3>1. S \ r = S /\ SumOver(F, S) \in Int
      BY <1>1, <2>1
    <3>2. QED BY <2>1, <3>1, SumEmpty
  <2>2. ASSUME NEW c \in r PROVE r \in A
    <3>1. PICK p \in SUBSET S : p = r \ {c}
      OBVIOUS
    <3>2. PICK q \in SUBSET S : q = S \ r
      OBVIOUS
    <3>3. S \ p = q \cup {c} /\ c \notin q
      BY <3>1, <3>2
    <3>4. SumOver(F, S) = SumOver(F, p) + SumOver(F, S \ p)
      BY <1>2, <3>1
    <3>5. SumOver(F, r) = F[c] + SumOver(F, p)
      BY <1>1, <3>1, SumWithout
    <3>6. SumOver(F, q \cup {c}) = F[c] + SumOver(F, q)
      BY <1>1, <3>3, SumWith
    <3>7. PICK i \in Int, j \in Int, k \in Int : i = SumOver(F, p) /\ j = SumOver(F, q) /\ k = F[c]
      BY <1>1
    <3>8. SumOver(F, S) = i + (k + j) /\ SumOver(F, r) = k + i
      BY <3>3, <3>4, <3>5, <3>6, <3>7
    <3>9. i + (k + j) = (k + i) + j
      BY <3>7
    <3>10. QED BY <3>2, <3>7, <3>8, <3>9
  <2>3. QED BY <2>1, <2>2
<1> HIDE DEF A
<1>3. SUBSET S \subseteq A
  BY <1>2, SubsetInduction
<1>4. T \in A /\ S \ T \in SUBSET S
  BY <1>3
<1>5. QED BY <1>1, <1>4 DEF A

\* One summand changed: the difference moves the sum.
LEMMA SumChanged ==
  ASSUME NEW S, IsFiniteSet(S), NEW F, \A y \in S : F[y] \in Int,
         NEW G, \A y \in S : G[y] \in Int,
         NEW x \in S, \A y \in S \ {x} : G[y] = F[y]
  PROVE  SumOver(G, S) = SumOver(F, S) + (G[x] - F[x])
<1>1. /\ SumOver(F, S \ {x}) \in Int
      /\ SumOver(F, S) = F[x] + SumOver(F, S \ {x})
  BY SumWithout
<1>2. SumOver(G, S) = G[x] + SumOver(G, S \ {x})
  BY SumWithout
<1>3. SumOver(G, S \ {x}) = SumOver(F, S \ {x})
  BY FS_RemoveElement, SumSame
<1>4. F[x] \in Int /\ G[x] \in Int
  OBVIOUS
<1>5. QED BY <1>1, <1>2, <1>3, <1>4

\* Larger summands, larger sums.
LEMMA SumBound ==
  ASSUME NEW S, IsFiniteSet(S), NEW F, \A x \in S : F[x] \in Int,
         NEW G, \A x \in S : G[x] \in Int /\ F[x] <= G[x]
  PROVE  SumOver(F, S) <= SumOver(G, S)
<1> DEFINE A == {s \in SUBSET S : SumOver(F, s) <= SumOver(G, s)}
<1>1. ASSUME NEW s \in SUBSET S, \A x \in s : s \ {x} \in A PROVE s \in A
  <2>1. CASE s = {}
    BY <2>1, SumEmpty
  <2>2. ASSUME NEW c \in s PROVE s \in A
    <3>1. IsFiniteSet(s)
      BY FS_Subset
    <3>2. SumOver(F, s \ {c}) \in Int /\ SumOver(F, s) = F[c] + SumOver(F, s \ {c})
      BY <3>1, SumWithout
    <3>3. SumOver(G, s \ {c}) \in Int /\ SumOver(G, s) = G[c] + SumOver(G, s \ {c})
      BY <3>1, SumWithout
    <3>4. F[c] \in Int /\ G[c] \in Int /\ F[c] <= G[c]
      OBVIOUS
    <3>5. SumOver(F, s \ {c}) <= SumOver(G, s \ {c})
      BY <1>1
    <3>6. SumOver(F, s) <= SumOver(G, s)
      BY <3>2, <3>3, <3>4, <3>5
    <3>7. QED BY <3>6
  <2>3. QED BY <2>1, <2>2
<1> HIDE DEF A
<1>2. SUBSET S \subseteq A
  BY <1>1, SubsetInduction
<1>3. QED BY <1>2 DEF A

\* A sum of zeros.
LEMMA SumZero ==
  ASSUME NEW S, IsFiniteSet(S), NEW F, \A x \in S : F[x] = 0
  PROVE  SumOver(F, S) = 0
<1> DEFINE A == {s \in SUBSET S : SumOver(F, s) = 0}
<1>1. ASSUME NEW s \in SUBSET S, \A x \in s : s \ {x} \in A PROVE s \in A
  <2>1. CASE s = {}
    BY <2>1, SumEmpty
  <2>2. ASSUME NEW c \in s PROVE s \in A
    <3>1. IsFiniteSet(s)
      BY FS_Subset
    <3>2. SumOver(F, s) = F[c] + SumOver(F, s \ {c})
      BY <3>1, SumWithout
    <3>3. F[c] = 0 /\ SumOver(F, s \ {c}) = 0
      BY <1>1
    <3>4. QED BY <3>2, <3>3
  <2>3. QED BY <2>1, <2>2
<1> HIDE DEF A
<1>2. SUBSET S \subseteq A
  BY <1>1, SubsetInduction
<1>3. QED BY <1>2 DEF A

\* Where no summand is negative, no sum is.
LEMMA SumNatural ==
  ASSUME NEW S, IsFiniteSet(S), NEW F, \A x \in S : F[x] \in Nat
  PROVE  SumOver(F, S) \in Nat
<1> DEFINE zeros == [x \in S |-> 0]
<1>1. SumOver(zeros, S) = 0
  BY SumZero
<1>2. SumOver(zeros, S) <= SumOver(F, S)
  BY SumBound
<1>3. SumOver(F, S) \in Int
  BY SumType
<1>4. QED BY <1>1, <1>2, <1>3

\* The sums over one element and over two.
LEMMA SumOne == ASSUME NEW x, NEW F, F[x] \in Int PROVE SumOver(F, {x}) = F[x]
<1>1. SumOver(F, {x}) = F[x] + SumOver(F, {x} \ {x})
  BY FS_Singleton, SumWithout
<1>2. {x} \ {x} = {}
  OBVIOUS
<1>3. QED BY <1>1, <1>2, SumEmpty

LEMMA SumTwo ==
  ASSUME NEW x, NEW y, x # y, NEW F, F[x] \in Int, F[y] \in Int
  PROVE  SumOver(F, {x, y}) = F[x] + F[y]
<1>1. IsFiniteSet({y}) /\ {x, y} = {y} \cup {x}
  BY FS_Singleton
<1>2. SumOver(F, {y} \cup {x}) = F[x] + SumOver(F, {y})
  BY <1>1, SumWith
<1>3. QED BY <1>1, <1>2, SumOne
=============================================================================
