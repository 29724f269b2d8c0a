---------------------------------- MODULE Sums ----------------------------------
(***************************************************************************)
(* What the sums of the models add up to: SumFunctionOnSet(fun, S) of the  *)
(* community modules, for every finite set S.  Induction here is over sets *)
(* of sets, not over predicates: a subset of the natural numbers has a     *)
(* least element.                                                          *)
(***************************************************************************)
EXTENDS Integers, Functions, FiniteSetTheorems, WellFoundedInduction, TLAPS

(* A set of natural numbers has a least element. *)
LEMMA LeastNatural ==
    ASSUME NEW T \in SUBSET Nat, T # {}
    PROVE  \E n \in T : \A m \in T : n <= m
<1>1. \E n \in T : \A m \in T : ~(<<m, n>> \in OpToRel(<, Nat))
  BY WFMin, NatLessThanWellFounded
<1>2. \A m, n \in Nat : ~(<<m, n>> \in OpToRel(<, Nat)) => n <= m
  BY DEF OpToRel
<1> QED BY <1>1, <1>2

(* A set of subsets of U that has the empty set, and every set all of      *)
(* whose subsets with one element less it has, has them all.               *)
LEMMA SubsetInduction ==
    ASSUME NEW U, IsFiniteSet(U), NEW P, {} \in P,
           \A S \in SUBSET U : S # {} /\ (\A x \in S : S \ {x} \in P) => S \in P
    PROVE  \A S \in SUBSET U : S \in P
<1> DEFINE Bad == {n \in Nat : \E S \in SUBSET U : S \notin P /\ Cardinality(S) = n}
<1> SUFFICES ASSUME Bad # {} PROVE FALSE
  <2>1. ASSUME NEW S \in SUBSET U PROVE Cardinality(S) \in Nat
    BY FS_Subset, FS_CardinalityType
  <2> QED BY <2>1
<1>1. PICK n \in Bad : \A m \in Bad : n <= m
  BY LeastNatural
<1>2. PICK S \in SUBSET U : S \notin P /\ Cardinality(S) = n
  BY <1>1
<1>3. PICK x \in S : S \ {x} \notin P
  BY <1>2
<1>4. IsFiniteSet(S) /\ Cardinality(S \ {x}) = n - 1 /\ Cardinality(S \ {x}) \in Nat
  BY <1>2, FS_Subset, FS_RemoveElement, FS_CardinalityType
<1>5. n - 1 \in Bad
  BY <1>2, <1>3, <1>4
<1> QED BY <1>1, <1>5

-----------------------------------------------------------------------------
(* One element of s, and the sum of the rest as g gives it. *)
Chosen(s) == CHOOSE x \in s : TRUE
First(fun, g, s) == IF s = {} THEN 0 ELSE fun[Chosen(s)] + g[s \ {Chosen(s)}]
Iterates(fun, g, SS) == g = [s \in SS |-> First(fun, g, s)]

LEMMA ChosenIn == ASSUME NEW s, s # {} PROVE Chosen(s) \in s
BY DEF Chosen

LEMMA Unfold ==
    ASSUME NEW fun, NEW S
    PROVE  SumFunctionOnSet(fun, S) = (CHOOSE g : Iterates(fun, g, SUBSET S))[S]
BY DEF SumFunctionOnSet, FoldFunctionOnSet, MapThenFoldSet, Iterates, First, Chosen

(* The sums of all subsets exist: those of the subsets with n elements     *)
(* extend those of the smaller ones.                                       *)
LEMMA SumsExist ==
    ASSUME NEW fun, NEW S, IsFiniteSet(S)
    PROVE  \E g : Iterates(fun, g, SUBSET S)
<1> DEFINE Small(n) == {s \in SUBSET S : Cardinality(s) <= n}
           Bad == {n \in Nat : ~ \E g : Iterates(fun, g, Small(n))}
<1>1. ASSUME NEW s \in SUBSET S
      PROVE  /\ IsFiniteSet(s) /\ Cardinality(s) \in Nat /\ Cardinality(s) <= Cardinality(S)
             /\ Cardinality(s) = 0 <=> s = {}
             /\ \A x \in s : Cardinality(s \ {x}) = Cardinality(s) - 1
  BY FS_Subset, FS_CardinalityType, FS_EmptySet, FS_RemoveElement
<1>2. Bad = {}
  <2> SUFFICES ASSUME Bad # {} PROVE FALSE
    OBVIOUS
  <2>0. Bad \subseteq Nat
    OBVIOUS
  <2>1. PICK n \in Bad : \A m \in Bad : n <= m
    BY LeastNatural
  <2>2. CASE n = 0
    <3> DEFINE g == [s \in Small(0) |-> 0]
    <3>1. \A s \in Small(0) : s = {}
      BY <1>1
    <3>2. Iterates(fun, g, Small(0))
      BY <3>1 DEF Iterates, First
    <3> QED BY <2>1, <2>2, <3>2
  <2>3. CASE n # 0
    <3>1. n - 1 \in Nat /\ n - 1 < n
      BY <2>1, <2>3
    <3>2. n - 1 \notin Bad
      <4> HIDE DEF Bad
      <4> QED BY <2>0, <2>1, <3>1
    <3>3. PICK g : Iterates(fun, g, Small(n - 1))
      BY <3>1, <3>2
    <3> DEFINE h == [s \in Small(n) |-> First(fun, g, s)]
    <3>4. ASSUME NEW s \in Small(n) PROVE First(fun, h, s) = h[s]
      <4>1. CASE s = {}
        BY <4>1 DEF First
      <4>2. CASE s # {}
        <5>1. PICK t : t = s \ {Chosen(s)}
          OBVIOUS
        <5>2. t \in Small(n - 1) /\ t \in Small(n)
          BY <1>1, <2>1, <3>1, <4>2, <5>1, ChosenIn
        <5>3. h[t] = g[t]
          BY <3>3, <5>2 DEF Iterates
        <5> QED BY <4>2, <5>1, <5>3 DEF First
      <4> QED BY <4>1, <4>2
    <3>5. Iterates(fun, h, Small(n))
      BY <3>4 DEF Iterates
    <3> QED BY <2>1, <3>5
  <2> QED BY <2>2, <2>3
<1>3. Cardinality(S) \in Nat /\ Small(Cardinality(S)) = SUBSET S
  BY <1>1, FS_CardinalityType
<1> QED BY <1>2, <1>3

(* Two ways to iterate agree where both are defined. *)
LEMMA SumsAgree ==
    ASSUME NEW fun, NEW A, NEW B \in SUBSET A, NEW g, NEW h, IsFiniteSet(A),
           Iterates(fun, g, SUBSET A), Iterates(fun, h, SUBSET B)
    PROVE  g[B] = h[B]
<1> DEFINE P == {s \in SUBSET B : g[s] = h[s]}
<1>1. IsFiniteSet(B)
  BY FS_Subset
<1>2. \A s \in SUBSET B : g[s] = First(fun, g, s) /\ h[s] = First(fun, h, s)
  BY DEF Iterates
<1>3. {} \in P
  BY <1>2 DEF First
<1>4. ASSUME NEW s \in SUBSET B, s # {}, \A x \in s : s \ {x} \in P PROVE s \in P
  BY <1>2, <1>4, ChosenIn DEF First
<1>5. \A s \in SUBSET B : s \in P
  <2> HIDE DEF P
  <2> QED BY <1>1, <1>3, <1>4, SubsetInduction
<1> QED BY <1>5

(* The sum of a set: one element, and the sum of the others. *)
LEMMA SumFirst ==
    ASSUME NEW fun, NEW S, IsFiniteSet(S)
    PROVE  /\ S = {} => SumFunctionOnSet(fun, S) = 0
           /\ S # {} => SumFunctionOnSet(fun, S)
                          = fun[Chosen(S)] + SumFunctionOnSet(fun, S \ {Chosen(S)})
<1> DEFINE g == CHOOSE f : Iterates(fun, f, SUBSET S)
           T == S \ {Chosen(S)}
           h == CHOOSE f : Iterates(fun, f, SUBSET T)
<1>1. IsFiniteSet(T)
  BY FS_Subset
<1>2. Iterates(fun, g, SUBSET S)
  BY SumsExist
<1>3. Iterates(fun, h, SUBSET T)
  BY <1>1, SumsExist
<1>4. SumFunctionOnSet(fun, S) = g[S] /\ SumFunctionOnSet(fun, T) = h[T]
  BY Unfold
<1> HIDE DEF g, h
<1>5. g[T] = h[T]
  <2>1. PICK U, f, e : U = T /\ f = g /\ e = h
    OBVIOUS
  <2>2. U \in SUBSET S /\ Iterates(fun, f, SUBSET S) /\ Iterates(fun, e, SUBSET U)
    BY <1>2, <1>3, <2>1
  <2>3. f[U] = e[U]
    BY <2>2, SumsAgree
  <2> QED BY <2>1, <2>3
<1>6. g[S] = First(fun, g, S)
  BY <1>2 DEF Iterates
<1> QED BY <1>4, <1>5, <1>6 DEF First

-----------------------------------------------------------------------------
LEMMA SumEmpty == ASSUME NEW fun PROVE SumFunctionOnSet(fun, {}) = 0
BY SumFirst, FS_EmptySet

LEMMA SumInt ==
    ASSUME NEW fun, NEW U, IsFiniteSet(U), \A x \in U : fun[x] \in Int
    PROVE  SumFunctionOnSet(fun, U) \in Int
<1> DEFINE P == {S \in SUBSET U : SumFunctionOnSet(fun, S) \in Int}
<1>1. {} \in P
  BY SumEmpty
<1>2. ASSUME NEW S \in SUBSET U, S # {}, \A x \in S : S \ {x} \in P PROVE S \in P
  <2>1. IsFiniteSet(S) /\ Chosen(S) \in S
    BY <1>2, ChosenIn, FS_Subset
  <2>2. S \ {Chosen(S)} \in P
    BY <1>2, <2>1
  <2> QED BY <1>2, <2>1, <2>2, SumFirst
<1>3. \A S \in SUBSET U : S \in P
  <2> HIDE DEF P
  <2> QED BY <1>1, <1>2, SubsetInduction
<1> QED BY <1>3

LEMMA SumNat ==
    ASSUME NEW fun, NEW S, IsFiniteSet(S), \A x \in S : fun[x] \in Nat
    PROVE  SumFunctionOnSet(fun, S) \in Nat
<1> DEFINE P == {T \in SUBSET S : SumFunctionOnSet(fun, T) \in Nat}
<1>1. {} \in P
  BY SumEmpty
<1>2. ASSUME NEW T \in SUBSET S, T # {}, \A x \in T : T \ {x} \in P PROVE T \in P
  <2>1. IsFiniteSet(T) /\ Chosen(T) \in T
    BY <1>2, ChosenIn, FS_Subset
  <2>2. T \ {Chosen(T)} \in P
    BY <1>2, <2>1
  <2> QED BY <1>2, <2>1, <2>2, SumFirst
<1>3. \A T \in SUBSET S : T \in P
  <2> HIDE DEF P
  <2> QED BY <1>1, <1>2, SubsetInduction
<1> QED BY <1>3

(* Whichever element is taken first. *)
LEMMA SumTake ==
    ASSUME NEW fun, NEW S, IsFiniteSet(S), \A y \in S : fun[y] \in Int, NEW x \in S
    PROVE  SumFunctionOnSet(fun, S) = fun[x] + SumFunctionOnSet(fun, S \ {x})
<1> DEFINE Takes(T) == \A y \in T :
                           SumFunctionOnSet(fun, T) = fun[y] + SumFunctionOnSet(fun, T \ {y})
           P == {T \in SUBSET S : Takes(T)}
<1>1. {} \in P
  OBVIOUS
<1>2. ASSUME NEW T \in SUBSET S, T # {}, \A y \in T : T \ {y} \in P PROVE T \in P
  <2>0. IsFiniteSet(T)
    BY FS_Subset
  <2>1. PICK c \in T : c = Chosen(T)
    BY <1>2, ChosenIn
  <2>2. SumFunctionOnSet(fun, T) = fun[c] + SumFunctionOnSet(fun, T \ {c})
    BY <1>2, <2>0, <2>1, SumFirst
  <2>3. ASSUME NEW y \in T, y # c
        PROVE  SumFunctionOnSet(fun, T) = fun[y] + SumFunctionOnSet(fun, T \ {y})
    <3>1. Takes(T \ {c}) /\ Takes(T \ {y})
      BY <1>2
    <3>2. /\ SumFunctionOnSet(fun, T \ {c}) = fun[y] + SumFunctionOnSet(fun, (T \ {c}) \ {y})
          /\ SumFunctionOnSet(fun, T \ {y}) = fun[c] + SumFunctionOnSet(fun, (T \ {y}) \ {c})
      BY <2>3, <3>1
    <3>3. (T \ {c}) \ {y} = (T \ {y}) \ {c}
      OBVIOUS
    <3>4. IsFiniteSet((T \ {c}) \ {y}) /\ fun[c] \in Int /\ fun[y] \in Int
      BY FS_Subset
    <3>5. SumFunctionOnSet(fun, (T \ {c}) \ {y}) \in Int
      <4>1. PICK V : V = (T \ {c}) \ {y}
        OBVIOUS
      <4>2. IsFiniteSet(V) /\ \A v \in V : fun[v] \in Int
        BY <3>4, <4>1
      <4>3. SumFunctionOnSet(fun, V) \in Int
        BY <4>2, SumInt
      <4> QED BY <4>1, <4>3
    <3>6. PICK a, v, w, X \in Int :
              /\ X = SumFunctionOnSet(fun, (T \ {c}) \ {y})
              /\ X = SumFunctionOnSet(fun, (T \ {y}) \ {c})
              /\ v = fun[c] /\ w = fun[y] /\ a = v + (w + X)
      BY <3>3, <3>4, <3>5
    <3>7. SumFunctionOnSet(fun, T) = a /\ SumFunctionOnSet(fun, T \ {y}) = v + X
      BY <2>2, <3>2, <3>6
    <3> QED BY <3>6, <3>7
  <2> QED BY <2>2, <2>3
<1>3. \A T \in SUBSET S : T \in P
  <2> HIDE DEF P
  <2> QED BY <1>1, <1>2, SubsetInduction
<1> QED BY <1>3

(* One more element. *)
LEMMA SumAdd ==
    ASSUME NEW fun, NEW S, IsFiniteSet(S), NEW x, x \notin S, \A y \in S \cup {x} : fun[y] \in Int
    PROVE  SumFunctionOnSet(fun, S \cup {x}) = fun[x] + SumFunctionOnSet(fun, S)
<1>1. IsFiniteSet(S \cup {x}) /\ (S \cup {x}) \ {x} = S
  BY FS_AddElement
<1> QED BY <1>1, SumTake

(* Functions that agree on a set have the same sum over it. *)
LEMMA SumSame ==
    ASSUME NEW f, NEW g, NEW S, IsFiniteSet(S), \A x \in S : f[x] = g[x]
    PROVE  SumFunctionOnSet(f, S) = SumFunctionOnSet(g, S)
<1> DEFINE P == {T \in SUBSET S : SumFunctionOnSet(f, T) = SumFunctionOnSet(g, T)}
<1>1. {} \in P
  BY SumEmpty
<1>2. ASSUME NEW T \in SUBSET S, T # {}, \A x \in T : T \ {x} \in P PROVE T \in P
  <2>1. IsFiniteSet(T) /\ Chosen(T) \in T
    BY <1>2, ChosenIn, FS_Subset
  <2>2. T \ {Chosen(T)} \in P
    BY <1>2, <2>1
  <2> QED BY <1>2, <2>1, <2>2, SumFirst
<1>3. \A T \in SUBSET S : T \in P
  <2> HIDE DEF P
  <2> QED BY <1>1, <1>2, SubsetInduction
<1> QED BY <1>3

(* Functions that differ at one element. *)
LEMMA SumChange ==
    ASSUME NEW f, NEW g, NEW S, IsFiniteSet(S), NEW x \in S,
           \A y \in S : f[y] \in Int /\ g[y] \in Int,
           \A y \in S \ {x} : g[y] = f[y]
    PROVE  SumFunctionOnSet(g, S) = SumFunctionOnSet(f, S) - f[x] + g[x]
<1>1. /\ SumFunctionOnSet(f, S) = f[x] + SumFunctionOnSet(f, S \ {x})
      /\ SumFunctionOnSet(g, S) = g[x] + SumFunctionOnSet(g, S \ {x})
  BY SumTake
<1>2. SumFunctionOnSet(g, S \ {x}) = SumFunctionOnSet(f, S \ {x}) /\ IsFiniteSet(S \ {x})
  BY SumSame, FS_Subset
<1>3. SumFunctionOnSet(f, S \ {x}) \in Int
  BY <1>2, SumInt
<1> QED BY <1>1, <1>2, <1>3

(* A sum of nothing but zeros. *)
LEMMA SumZero ==
    ASSUME NEW fun, NEW S, IsFiniteSet(S), \A x \in S : fun[x] = 0
    PROVE  SumFunctionOnSet(fun, S) = 0
<1> DEFINE P == {T \in SUBSET S : SumFunctionOnSet(fun, T) = 0}
<1>1. {} \in P
  BY SumEmpty
<1>2. ASSUME NEW T \in SUBSET S, T # {}, \A x \in T : T \ {x} \in P PROVE T \in P
  <2>1. IsFiniteSet(T) /\ Chosen(T) \in T
    BY <1>2, ChosenIn, FS_Subset
  <2>2. SumFunctionOnSet(fun, T) = fun[Chosen(T)] + SumFunctionOnSet(fun, T \ {Chosen(T)})
    BY <1>2, <2>1, SumFirst
  <2> QED BY <1>2, <2>1, <2>2
<1>3. \A T \in SUBSET S : T \in P
  <2> HIDE DEF P
  <2> QED BY <1>1, <1>2, SubsetInduction
<1> QED BY <1>3

(* Where no term is less, neither is the sum. *)
LEMMA SumMonotone ==
    ASSUME NEW f, NEW g, NEW S, IsFiniteSet(S),
           \A x \in S : f[x] \in Int /\ g[x] \in Int /\ f[x] <= g[x]
    PROVE  SumFunctionOnSet(f, S) <= SumFunctionOnSet(g, S)
<1> DEFINE P == {T \in SUBSET S : SumFunctionOnSet(f, T) <= SumFunctionOnSet(g, T)}
<1>1. {} \in P
  BY SumEmpty
<1>2. ASSUME NEW T \in SUBSET S, T # {}, \A x \in T : T \ {x} \in P PROVE T \in P
  <2>1. IsFiniteSet(T) /\ Chosen(T) \in T
    BY <1>2, ChosenIn, FS_Subset
  <2> DEFINE rest == T \ {Chosen(T)}
  <2>2. IsFiniteSet(rest) /\ rest \in P /\ \A x \in rest : f[x] \in Int /\ g[x] \in Int
    BY <1>2, <2>1, FS_Subset
  <2>3. /\ SumFunctionOnSet(f, T) = f[Chosen(T)] + SumFunctionOnSet(f, rest)
        /\ SumFunctionOnSet(g, T) = g[Chosen(T)] + SumFunctionOnSet(g, rest)
    BY <1>2, <2>1, SumFirst
  <2>4. SumFunctionOnSet(f, rest) \in Int /\ SumFunctionOnSet(g, rest) \in Int
    <3> HIDE DEF rest
    <3> QED BY <2>2, SumInt
  <2>5. f[Chosen(T)] \in Int /\ g[Chosen(T)] \in Int /\ f[Chosen(T)] <= g[Chosen(T)]
    BY <2>1
  <2>6. SumFunctionOnSet(f, rest) <= SumFunctionOnSet(g, rest)
    BY <2>2
  <2> HIDE DEF rest
  <2> QED BY <2>3, <2>4, <2>5, <2>6
<1>3. \A T \in SUBSET S : T \in P
  <2> HIDE DEF P
  <2> QED BY <1>1, <1>2, SubsetInduction
<1> QED BY <1>3

(* A sum is no less than any of its terms, when none is negative. *)
LEMMA SumBounds ==
    ASSUME NEW fun, NEW S, IsFiniteSet(S), \A x \in S : fun[x] \in Nat
    PROVE  \A x \in S : fun[x] <= SumFunctionOnSet(fun, S)
<1> SUFFICES ASSUME NEW x \in S PROVE fun[x] <= SumFunctionOnSet(fun, S)
  OBVIOUS
<1>1. SumFunctionOnSet(fun, S) = fun[x] + SumFunctionOnSet(fun, S \ {x})
  BY SumTake
<1>2. IsFiniteSet(S \ {x})
  BY FS_Subset
<1>3. SumFunctionOnSet(fun, S \ {x}) \in Nat
  BY <1>2, SumNat
<1> QED BY <1>1, <1>3

(* What a sum over a set leaves out, when it is nothing. *)
LEMMA SumOfSupport ==
    ASSUME NEW f, NEW T, IsFiniteSet(T), NEW S \in SUBSET T,
           \A x \in T : f[x] \in Int, \A x \in T \ S : f[x] = 0
    PROVE  SumFunctionOnSet(f, T) = SumFunctionOnSet(f, S)
<1> DEFINE P == {U \in SUBSET T : SumFunctionOnSet(f, U) = SumFunctionOnSet(f, U \cap S)}
<1>1. {} \in P
  <2>1. {} \cap S = {}
    OBVIOUS
  <2> QED BY <2>1
<1>2. ASSUME NEW U \in SUBSET T, U # {}, \A x \in U : U \ {x} \in P PROVE U \in P
  <2>1. PICK x \in U : TRUE
    BY <1>2
  <2>2. PICK R : R = U \ {x}
    OBVIOUS
  <2>3. IsFiniteSet(U) /\ IsFiniteSet(R) /\ IsFiniteSet(U \cap S) /\ IsFiniteSet(R \cap S)
    BY <2>2, FS_Subset
  <2>4. SumFunctionOnSet(f, R) = SumFunctionOnSet(f, R \cap S)
    BY <1>2, <2>1, <2>2
  <2>5. SumFunctionOnSet(f, U) = f[x] + SumFunctionOnSet(f, R)
    BY <2>1, <2>2, <2>3, SumTake
  <2>6. CASE x \in S
    <3>1. x \in U \cap S /\ (U \cap S) \ {x} = R \cap S
      BY <2>1, <2>2, <2>6
    <3>2. SumFunctionOnSet(f, U \cap S) = f[x] + SumFunctionOnSet(f, R \cap S)
      BY <2>3, <3>1, SumTake
    <3> QED BY <2>4, <2>5, <3>2
  <2>7. CASE x \notin S
    <3>1. U \cap S = R \cap S /\ f[x] = 0
      BY <2>1, <2>2, <2>7
    <3>2. PICK n \in Int : n = SumFunctionOnSet(f, R)
      BY <2>2, <2>3, SumInt
    <3>3. SumFunctionOnSet(f, U) = n
      BY <2>5, <3>1, <3>2
    <3>4. SumFunctionOnSet(f, U) = SumFunctionOnSet(f, U \cap S)
      BY <2>4, <3>1, <3>2, <3>3
    <3> QED BY <3>4
  <2> QED BY <2>6, <2>7
<1>3. \A U \in SUBSET T : U \in P
  <2> HIDE DEF P
  <2> QED BY <1>1, <1>2, SubsetInduction
<1>4. T \cap S = S
  OBVIOUS
<1> QED BY <1>3, <1>4

(* A sum over fewer elements is no greater, when no term is negative. *)
LEMMA SumOfSubset ==
    ASSUME NEW f, NEW T, IsFiniteSet(T), NEW S \in SUBSET T, \A x \in T : f[x] \in Nat
    PROVE  SumFunctionOnSet(f, S) <= SumFunctionOnSet(f, T)
<1> DEFINE g == [x \in T |-> IF x \in S THEN f[x] ELSE 0]
<1>1. /\ \A x \in T : g[x] \in Int /\ f[x] \in Int /\ g[x] <= f[x]
      /\ \A x \in T \ S : g[x] = 0
      /\ \A x \in S : g[x] = f[x]
  OBVIOUS
<1> HIDE DEF g
<1>2. SumFunctionOnSet(g, T) <= SumFunctionOnSet(f, T)
  BY <1>1, SumMonotone
<1>3. SumFunctionOnSet(g, T) = SumFunctionOnSet(g, S)
  BY <1>1, SumOfSupport
<1>4. SumFunctionOnSet(g, S) = SumFunctionOnSet(f, S)
  BY <1>1, FS_Subset, SumSame
<1> QED BY <1>2, <1>3, <1>4

(* As many equal terms. *)
LEMMA SumOfEqual ==
    ASSUME NEW f, NEW T, IsFiniteSet(T), NEW n \in Nat, \A x \in T : f[x] = n
    PROVE  SumFunctionOnSet(f, T) = n * Cardinality(T)
<1> DEFINE P == {U \in SUBSET T : SumFunctionOnSet(f, U) = n * Cardinality(U)}
<1>1. {} \in P
  <2>1. Cardinality({}) = 0 /\ SumFunctionOnSet(f, {}) = 0
    BY SumEmpty, FS_EmptySet
  <2> QED BY <2>1
<1>2. ASSUME NEW U \in SUBSET T, U # {}, \A x \in U : U \ {x} \in P PROVE U \in P
  <2>1. PICK x \in U : TRUE
    BY <1>2
  <2>2. PICK R : R = U \ {x}
    OBVIOUS
  <2>3. IsFiniteSet(U) /\ IsFiniteSet(R)
    BY <2>2, FS_Subset
  <2>4. PICK m \in Nat : m = Cardinality(R) /\ Cardinality(U) = m + 1
    BY <2>1, <2>2, <2>3, FS_RemoveElement, FS_CardinalityType
  <2>5. SumFunctionOnSet(f, R) = n * m
    BY <1>2, <2>1, <2>2, <2>4
  <2>6. \A y \in U : f[y] \in Int
    OBVIOUS
  <2>7. SumFunctionOnSet(f, U) = f[x] + SumFunctionOnSet(f, R)
    BY <2>1, <2>2, <2>3, <2>6, SumTake
  <2>8. n * (m + 1) = n + n * m
    OBVIOUS
  <2>9. SumFunctionOnSet(f, U) = n * Cardinality(U)
    BY <2>1, <2>4, <2>5, <2>7, <2>8
  <2> QED BY <2>9
<1>3. \A U \in SUBSET T : U \in P
  <2> HIDE DEF P
  <2> QED BY <1>1, <1>2, SubsetInduction
<1> QED BY <1>3

(* One term is greater by one. *)
LEMMA SumOneMore ==
    ASSUME NEW f, NEW g, NEW S, IsFiniteSet(S), NEW a \in S,
           \A x \in S : f[x] \in Nat /\ g[x] \in Nat,
           \A x \in S \ {a} : g[x] = f[x], g[a] = f[a] + 1
    PROVE  SumFunctionOnSet(g, S) = SumFunctionOnSet(f, S) + 1
<1>1. \A x \in S : f[x] \in Int /\ g[x] \in Int
  OBVIOUS
<1>2. SumFunctionOnSet(g, S) = SumFunctionOnSet(f, S) - f[a] + g[a]
  BY <1>1, SumChange
<1>3. SumFunctionOnSet(f, S) \in Nat /\ f[a] \in Nat
  BY SumNat
<1>4. PICK n, m \in Nat : n = SumFunctionOnSet(f, S) /\ m = f[a]
  BY <1>3
<1> QED BY <1>2, <1>4
=============================================================================
