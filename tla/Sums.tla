-------------------------------- MODULE Sums --------------------------------
(***************************************************************************)
(* Facts about SumFunctionOnSet and SumFunction of the module Functions,   *)
(* with which balances, claims and executed quantities are added up.       *)
(*                                                                         *)
(* The sum is a fold, a recursive function on the subsets of a finite set  *)
(* that takes one element after the other.  Induction is by a least        *)
(* counterexample, for sets of naturals and sets of subsets rather than    *)
(* for operators.                                                          *)
(***************************************************************************)
EXTENDS Integers, Functions, FiniteSetTheorems, WellFoundedInduction, TLAPS

\* Every set of naturals that has an element has a least one.
LEMMA LeastNatural ==
    ASSUME NEW S \in SUBSET Nat, S # {}
    PROVE  \E x \in S : \A y \in S : x <= y
<1>1. PICK x \in S : \A y \in S : ~(<<y, x>> \in OpToRel(<, Nat))
  BY NatLessThanWellFounded, WFMin
<1>2. \A y \in S : ~(y < x)
  BY <1>1 DEF OpToRel
<1> QED
  BY <1>2

\* Induction over the naturals, for a set of them.
LEMMA NaturalsAreReached ==
    ASSUME NEW T, 0 \in T, \A n \in Nat : n \in T => n + 1 \in T
    PROVE  Nat \subseteq T
<1> DEFINE Bad == {n \in Nat : n \notin T}
<1>1. SUFFICES ASSUME Bad # {} PROVE FALSE
  OBVIOUS
<1>2. Bad \in SUBSET Nat
  OBVIOUS
<1>3. PICK x \in Bad : \A y \in Bad : x <= y
  <2> HIDE DEF Bad
  <2> QED
    BY <1>1, <1>2, LeastNatural
<1>4. x \in Nat /\ x # 0 /\ x - 1 \in Nat
  OBVIOUS
<1>5. x - 1 \in T
  BY <1>3, <1>4
<1>6. (x - 1) + 1 \in T
  BY <1>4, <1>5
<1> QED
  BY <1>4, <1>6

\* Induction over a finite set: a set of its subsets with {} in it, and with each member
\* every larger one by one element, has the whole set in it.
LEMMA SubsetsAreReached ==
    ASSUME NEW S, IsFiniteSet(S), NEW Q, {} \in Q,
           \A s \in SUBSET S : \A x \in S \ s : s \in Q => s \cup {x} \in Q
    PROVE  S \in Q
<1> DEFINE T == {n \in Nat : \A s \in SUBSET S : Cardinality(s) = n => s \in Q}
<1>1. \A s \in SUBSET S : IsFiniteSet(s) /\ Cardinality(s) \in Nat
  BY FS_Subset, FS_CardinalityType
<1>2. 0 \in T
  BY <1>1, FS_EmptySet
<1>3. ASSUME NEW n \in Nat, n \in T PROVE n + 1 \in T
  <2>1. SUFFICES ASSUME NEW s \in SUBSET S, Cardinality(s) = n + 1 PROVE s \in Q
    OBVIOUS
  <2>2. s # {}
    BY <2>1, FS_EmptySet
  <2>3. PICK x \in s : TRUE
    BY <2>2
  <2>4. Cardinality(s \ {x}) = n
    <3>1. IsFiniteSet(s)
      BY <1>1
    <3>2. Cardinality(s \ {x}) = Cardinality(s) - 1
      BY <3>1, FS_RemoveElement
    <3> QED
      BY <2>1, <3>2
  <2>5. s \ {x} \in Q
    BY <1>3, <2>4
  <2>6. (s \ {x}) \cup {x} = s
    OBVIOUS
  <2> QED
    BY <2>5, <2>6
<1>4. Nat \subseteq T
  <2> HIDE DEF T
  <2> QED
    BY <1>2, <1>3, NaturalsAreReached
<1> QED
  BY <1>1, <1>4

-----------------------------------------------------------------------------
(* The fold *)

Chosen(s) == CHOOSE x \in s : TRUE

\* g adds up f over every set of D
AddsUp(f, g, D) ==
    \A s \in D : g[s] = IF s = {} THEN 0 ELSE f[Chosen(s)] + g[s \ {Chosen(s)}]

\* the same of a function that is defined on D and nowhere else
FoldOn(f, g, D) == g = [s \in D |-> IF s = {} THEN 0 ELSE f[Chosen(s)] + g[s \ {Chosen(s)}]]

\* Removing the chosen element leaves a set with one element less.
LEMMA ChosenIsRemoved ==
    ASSUME NEW S, IsFiniteSet(S), NEW s \in SUBSET S, s # {}
    PROVE  /\ Chosen(s) \in s /\ Chosen(s) \in S
           /\ s \ {Chosen(s)} \in SUBSET S
           /\ Cardinality(s) \in Nat /\ Cardinality(s \ {Chosen(s)}) \in Nat
           /\ Cardinality(s \ {Chosen(s)}) = Cardinality(s) - 1
<1>1. Chosen(s) \in s
  BY DEF Chosen
<1>2. IsFiniteSet(s) /\ IsFiniteSet(s \ {Chosen(s)})
  BY FS_Subset, FS_RemoveElement
<1> QED
  BY <1>1, <1>2, FS_RemoveElement, FS_CardinalityType

Small(S, n) == {s \in SUBSET S : Cardinality(s) <= n}

\* There is such a function, defined on sets of at most n elements for every n.
LEMMA FoldExists ==
    ASSUME NEW S, IsFiniteSet(S), NEW f
    PROVE  \E g : FoldOn(f, g, SUBSET S)
<1> DEFINE T == {n \in Nat : \E g : FoldOn(f, g, Small(S, n))}
<1>1. 0 \in T
  <2> DEFINE g == [s \in Small(S, 0) |-> 0]
  <2>1. ASSUME NEW s \in Small(S, 0) PROVE s = {}
    <3>1. IsFiniteSet(s) /\ Cardinality(s) \in Nat /\ Cardinality(s) <= 0
      BY FS_Subset, FS_CardinalityType DEF Small
    <3> QED
      BY <3>1, FS_EmptySet
  <2>2. FoldOn(f, g, Small(S, 0))
    BY <2>1 DEF FoldOn
  <2> HIDE DEF g
  <2> QED
    BY <2>2
<1>2. ASSUME NEW n \in Nat, n \in T PROVE n + 1 \in T
  <2>1. PICK g : FoldOn(f, g, Small(S, n))
    BY <1>2
  <2> DEFINE h == [s \in Small(S, n + 1) |-> IF s = {} THEN 0 ELSE f[Chosen(s)] + g[s \ {Chosen(s)}]]
  <2>2. ASSUME NEW s \in Small(S, n + 1), s # {} PROVE s \ {Chosen(s)} \in Small(S, n)
    BY <2>2, ChosenIsRemoved DEF Small
  <2>3. ASSUME NEW s \in Small(S, n) PROVE h[s] = g[s]
    <3>1. Cardinality(s) \in Nat
      BY FS_Subset, FS_CardinalityType DEF Small
    <3>2. s \in Small(S, n + 1)
      BY <3>1 DEF Small
    <3> QED
      BY <2>1, <3>2 DEF FoldOn
  <2>4. FoldOn(f, h, Small(S, n + 1))
    <3>1. ASSUME NEW s \in Small(S, n + 1), s # {}
          PROVE  h[s \ {Chosen(s)}] = g[s \ {Chosen(s)}]
      BY <2>2, <2>3, <3>1
    <3> QED
      BY <3>1 DEF FoldOn
  <2> HIDE DEF h
  <2> QED
    BY <2>4
<1>3. Cardinality(S) \in T
  <2> HIDE DEF T
  <2> QED
    BY <1>1, <1>2, NaturalsAreReached, FS_CardinalityType
<1>4. Small(S, Cardinality(S)) = SUBSET S
  BY FS_Subset DEF Small
<1> QED
  BY <1>3, <1>4

\* Two such functions agree on the sets both are defined on.
LEMMA FoldIsUnique ==
    ASSUME NEW S, IsFiniteSet(S), NEW f, NEW g, NEW h,
           AddsUp(f, g, SUBSET S), AddsUp(f, h, SUBSET S)
    PROVE  g[S] = h[S]
<1> DEFINE T == {n \in Nat : \A s \in SUBSET S : Cardinality(s) = n => g[s] = h[s]}
<1>1. 0 \in T
  <2>1. SUFFICES ASSUME NEW s \in SUBSET S, Cardinality(s) = 0 PROVE g[s] = h[s]
    OBVIOUS
  <2>2. s = {}
    BY <2>1, FS_Subset, FS_EmptySet
  <2> QED
    BY <2>2 DEF AddsUp
<1>2. ASSUME NEW n \in Nat, n \in T PROVE n + 1 \in T
  <2>1. SUFFICES ASSUME NEW s \in SUBSET S, Cardinality(s) = n + 1 PROVE g[s] = h[s]
    OBVIOUS
  <2>2. s # {}
    <3>1. Cardinality(s) # 0
      BY <2>1
    <3> QED
      BY <3>1, FS_EmptySet
  <2>3. g[s \ {Chosen(s)}] = h[s \ {Chosen(s)}]
    BY <1>2, <2>1, <2>2, ChosenIsRemoved
  <2> QED
    BY <2>2, <2>3 DEF AddsUp
<1>3. Cardinality(S) \in T
  <2> HIDE DEF T
  <2> QED
    BY <1>1, <1>2, NaturalsAreReached, FS_CardinalityType
<1> QED
  BY <1>3

\* The fold of a set is what some function that adds up gives for it.
LEMMA SumIsAFold ==
    ASSUME NEW S, IsFiniteSet(S), NEW f
    PROVE  \E g : AddsUp(f, g, SUBSET S) /\ SumFunctionOnSet(f, S) = g[S]
<1> DEFINE g == CHOOSE h : FoldOn(f, h, SUBSET S)
<1>1. SumFunctionOnSet(f, S) = g[S]
  BY DEF SumFunctionOnSet, FoldFunctionOnSet, MapThenFoldSet, Chosen, FoldOn
<1>2. FoldOn(f, g, SUBSET S)
  BY FoldExists
<1> HIDE DEF g
<1>3. AddsUp(f, g, SUBSET S)
  BY <1>2 DEF AddsUp, FoldOn
<1> QED
  BY <1>1, <1>3

-----------------------------------------------------------------------------
(* Sums *)

\* An account book without accounts adds up to 0.
THEOREM SumOfNothing ==
    ASSUME NEW f
    PROVE  SumFunctionOnSet(f, {}) = 0
<1>1. PICK g : AddsUp(f, g, SUBSET {}) /\ SumFunctionOnSet(f, {}) = g[{}]
  BY SumIsAFold, FS_EmptySet
<1> QED
  BY <1>1 DEF AddsUp

\* The element the definition takes first can be taken out of the sum.
LEMMA SumTakesTheChosen ==
    ASSUME NEW S, IsFiniteSet(S), S # {}, NEW f
    PROVE  SumFunctionOnSet(f, S) = f[Chosen(S)] + SumFunctionOnSet(f, S \ {Chosen(S)})
<1> DEFINE R == S \ {Chosen(S)}
<1>1. R \in SUBSET S /\ IsFiniteSet(R)
  BY FS_Subset
<1> HIDE DEF R
<1>2. PICK g : AddsUp(f, g, SUBSET S) /\ SumFunctionOnSet(f, S) = g[S]
  BY SumIsAFold
<1>3. PICK h : AddsUp(f, h, SUBSET R) /\ SumFunctionOnSet(f, R) = h[R]
  BY <1>1, SumIsAFold
<1>4. AddsUp(f, g, SUBSET R)
  BY <1>1, <1>2 DEF AddsUp
<1>5. g[R] = h[R]
  BY <1>1, <1>3, <1>4, FoldIsUnique
<1>6. g[S] = f[Chosen(S)] + g[R]
  BY <1>2 DEF AddsUp, R
<1> QED
  BY <1>2, <1>3, <1>5, <1>6 DEF R

\* A sum of integers is one, and any element may be taken out first.
LEMMA SumOfIntegers ==
    ASSUME NEW S, IsFiniteSet(S), NEW f, \A x \in S : f[x] \in Int
    PROVE  /\ SumFunctionOnSet(f, S) \in Int
           /\ \A x \in S : SumFunctionOnSet(f, S) = f[x] + SumFunctionOnSet(f, S \ {x})
<1> DEFINE Good(s) == /\ SumFunctionOnSet(f, s) \in Int
                      /\ \A x \in s : SumFunctionOnSet(f, s) = f[x] + SumFunctionOnSet(f, s \ {x})
           T == {n \in Nat : \A s \in SUBSET S : Cardinality(s) <= n => Good(s)}
<1>1. \A s \in SUBSET S : IsFiniteSet(s) /\ Cardinality(s) \in Nat
  BY FS_Subset, FS_CardinalityType
<1>2. 0 \in T
  <2>1. SUFFICES ASSUME NEW s \in SUBSET S, Cardinality(s) <= 0 PROVE Good(s)
    OBVIOUS
  <2>2. s = {}
    BY <1>1, <2>1, FS_EmptySet
  <2> QED
    BY <2>2, SumOfNothing
<1>3. ASSUME NEW n \in Nat, n \in T PROVE n + 1 \in T
  <2>1. SUFFICES ASSUME NEW s \in SUBSET S, Cardinality(s) <= n + 1, s # {} PROVE Good(s)
    <3>1. Good({})
      BY SumOfNothing
    <3> HIDE DEF Good
    <3> QED
      BY <3>1
  <2>2. ASSUME NEW r \in SUBSET S, NEW x \in r, Cardinality(r) <= n + 1
        PROVE  /\ r \ {x} \in SUBSET S /\ IsFiniteSet(r \ {x}) /\ Good(r \ {x})
               /\ Cardinality(r \ {x}) <= n
    <3>1. IsFiniteSet(r) /\ Cardinality(r) \in Nat
      BY <1>1
    <3>2. Cardinality(r \ {x}) = Cardinality(r) - 1 /\ IsFiniteSet(r \ {x})
      BY <3>1, FS_RemoveElement
    <3>3. r \ {x} \in SUBSET S /\ Cardinality(r \ {x}) <= n
      BY <2>2, <3>1, <3>2
    <3> HIDE DEF Good
    <3> QED
      BY <1>3, <3>2, <3>3
  <2> DEFINE c == Chosen(s)
  <2>3. c \in s /\ IsFiniteSet(s)
    BY <1>1, <2>1 DEF Chosen
  <2>4. SumFunctionOnSet(f, s) = f[c] + SumFunctionOnSet(f, s \ {c})
    BY <2>1, <2>3, SumTakesTheChosen
  <2> HIDE DEF c
  <2>5. Good(s \ {c}) /\ f[c] \in Int
    <3> HIDE DEF Good
    <3> QED
      BY <2>1, <2>2, <2>3
  <2>6. ASSUME NEW x \in s, x # c
        PROVE  SumFunctionOnSet(f, s) = f[x] + SumFunctionOnSet(f, s \ {x})
    <3> DEFINE r == s \ {c, x}
    <3>1. Good(s \ {x}) /\ f[x] \in Int
      <4> HIDE DEF Good
      <4> QED
        BY <2>1, <2>2, <2>6
    <3>2. (s \ {c}) \ {x} = r /\ (s \ {x}) \ {c} = r
      OBVIOUS
    <3>3. SumFunctionOnSet(f, s \ {c}) = f[x] + SumFunctionOnSet(f, r)
      BY <2>5, <2>6, <3>2
    <3>4. SumFunctionOnSet(f, s \ {x}) = f[c] + SumFunctionOnSet(f, r)
      BY <2>3, <2>6, <3>1, <3>2
    <3>5. SumFunctionOnSet(f, r) \in Int
      <4>1. x \in s \ {c}
        BY <2>6
      <4>2. Cardinality(s \ {c}) <= n + 1
        <5>1. Cardinality(s \ {c}) <= n /\ Cardinality(s \ {c}) \in Nat
          BY <1>1, <2>1, <2>2, <2>3
        <5> QED
          BY <5>1
      <4>3. Good((s \ {c}) \ {x})
        <5> HIDE DEF Good
        <5> QED
          BY <2>2, <4>1, <4>2
      <4> QED
        BY <3>2, <4>3
    <3> HIDE DEF r
    <3> QED
      BY <2>4, <2>5, <3>1, <3>3, <3>4, <3>5
  <2>7. SumFunctionOnSet(f, s) \in Int
    BY <2>4, <2>5
  <2> QED
    BY <2>4, <2>6, <2>7
<1>4. Cardinality(S) \in T /\ Cardinality(S) \in Nat
  <2> HIDE DEF T
  <2> QED
    BY <1>2, <1>3, NaturalsAreReached, FS_CardinalityType
<1> QED
  BY <1>4

\* The sum of finitely many integers is one: no entry of a book is left undefined.
THEOREM SumIsInt ==
    ASSUME NEW S, IsFiniteSet(S), NEW f, \A x \in S : f[x] \in Int
    PROVE  SumFunctionOnSet(f, S) \in Int
BY SumOfIntegers

\* An entry can be taken out of the sum, whichever the sum's definition takes first.
THEOREM SumTakesOne ==
    ASSUME NEW S, IsFiniteSet(S), NEW f, \A y \in S : f[y] \in Int, NEW x \in S
    PROVE  SumFunctionOnSet(f, S) = f[x] + SumFunctionOnSet(f, S \ {x})
BY SumOfIntegers

\* The same, adding an element.
THEOREM SumAddsOne ==
    ASSUME NEW S, IsFiniteSet(S), NEW f, NEW x, x \notin S,
           \A y \in S \cup {x} : f[y] \in Int
    PROVE  SumFunctionOnSet(f, S \cup {x}) = f[x] + SumFunctionOnSet(f, S)
<1>1. IsFiniteSet(S \cup {x})
  BY FS_AddElement
<1>2. (S \cup {x}) \ {x} = S
  OBVIOUS
<1>3. x \in S \cup {x}
  OBVIOUS
<1>4. SumFunctionOnSet(f, S \cup {x}) = f[x] + SumFunctionOnSet(f, (S \cup {x}) \ {x})
  BY <1>1, <1>3, SumTakesOne
<1> QED
  BY <1>2, <1>4

\* If k f <= c g everywhere, then so it is of the sums.
THEOREM SumsCompare ==
    ASSUME NEW S, IsFiniteSet(S), NEW f, NEW g, NEW k \in Int, NEW c \in Int,
           \A x \in S : f[x] \in Int /\ g[x] \in Int /\ k * f[x] <= c * g[x]
    PROVE  k * SumFunctionOnSet(f, S) <= c * SumFunctionOnSet(g, S)
<1> DEFINE Good(s) == k * SumFunctionOnSet(f, s) <= c * SumFunctionOnSet(g, s)
           Q == {s \in SUBSET S : Good(s)}
<1>1. {} \in Q
  BY SumOfNothing
<1>2. ASSUME NEW s \in SUBSET S, NEW x \in S \ s, s \in Q PROVE s \cup {x} \in Q
  <2> DEFINE F == SumFunctionOnSet(f, s)
             G == SumFunctionOnSet(g, s)
  <2>1. F \in Int /\ G \in Int /\ k * F <= c * G
    BY <1>2, FS_Subset, SumIsInt
  <2>2. /\ SumFunctionOnSet(f, s \cup {x}) = f[x] + F
        /\ SumFunctionOnSet(g, s \cup {x}) = g[x] + G
    BY <1>2, FS_Subset, SumAddsOne
  <2>3. f[x] \in Int /\ g[x] \in Int /\ k * f[x] <= c * g[x]
    OBVIOUS
  <2> HIDE DEF F, G
  <2>4. k * (f[x] + F) = k * f[x] + k * F /\ c * (g[x] + G) = c * g[x] + c * G
    BY <2>1, <2>3
  <2>5. k * f[x] + k * F <= c * g[x] + c * G
    BY <2>1, <2>3
  <2> QED
    BY <2>2, <2>4, <2>5
<1>3. S \in Q
  <2> HIDE DEF Q
  <2> QED
    BY <1>1, <1>2, SubsetsAreReached
<1> QED
  BY <1>3

\* Books with the same entries have the same sum: what a step leaves alone adds up as before.
THEOREM SumsAgree ==
    ASSUME NEW S, IsFiniteSet(S), NEW f, NEW g, \A x \in S : f[x] \in Int /\ f[x] = g[x]
    PROVE  SumFunctionOnSet(f, S) = SumFunctionOnSet(g, S)
<1>1. \A x \in S : f[x] \in Int /\ g[x] \in Int /\ 1 * f[x] <= 1 * g[x] /\ 1 * g[x] <= 1 * f[x]
  OBVIOUS
<1>2. /\ 1 * SumFunctionOnSet(f, S) <= 1 * SumFunctionOnSet(g, S)
      /\ 1 * SumFunctionOnSet(g, S) <= 1 * SumFunctionOnSet(f, S)
  BY <1>1, SumsCompare
<1> QED
  BY <1>1, <1>2, SumIsInt

\* Two entries kept for each account add up together as they do apart.
THEOREM SumOfSums ==
    ASSUME NEW S, IsFiniteSet(S), NEW f, NEW g, NEW h,
           \A x \in S : f[x] \in Int /\ g[x] \in Int /\ h[x] = f[x] + g[x]
    PROVE  SumFunctionOnSet(h, S) = SumFunctionOnSet(f, S) + SumFunctionOnSet(g, S)
<1> DEFINE Good(s) == SumFunctionOnSet(h, s) = SumFunctionOnSet(f, s) + SumFunctionOnSet(g, s)
           Q == {s \in SUBSET S : Good(s)}
<1>1. {} \in Q
  BY SumOfNothing
<1>2. ASSUME NEW s \in SUBSET S, NEW x \in S \ s, s \in Q PROVE s \cup {x} \in Q
  <2>1. IsFiniteSet(s) /\ \A y \in s \cup {x} : f[y] \in Int /\ g[y] \in Int /\ h[y] \in Int
    BY FS_Subset
  <2>2. /\ SumFunctionOnSet(f, s) \in Int /\ SumFunctionOnSet(g, s) \in Int
    BY <2>1, SumIsInt
  <2>3. /\ SumFunctionOnSet(f, s \cup {x}) = f[x] + SumFunctionOnSet(f, s)
        /\ SumFunctionOnSet(g, s \cup {x}) = g[x] + SumFunctionOnSet(g, s)
        /\ SumFunctionOnSet(h, s \cup {x}) = h[x] + SumFunctionOnSet(h, s)
    BY <1>2, <2>1, SumAddsOne
  <2> QED
    BY <1>2, <2>2, <2>3
<1>3. S \in Q
  <2> HIDE DEF Q
  <2> QED
    BY <1>1, <1>2, SubsetsAreReached
<1> QED
  BY <1>3

\* Where one entry differs, so does the sum, by as much.
THEOREM SumChangesAt ==
    ASSUME NEW S, IsFiniteSet(S), NEW f, NEW g, NEW x \in S,
           \A y \in S : f[y] \in Int /\ g[y] \in Int /\ (y # x => g[y] = f[y])
    PROVE  SumFunctionOnSet(g, S) = SumFunctionOnSet(f, S) + (g[x] - f[x])
<1>1. IsFiniteSet(S \ {x})
  BY FS_Subset
<1>2. SumFunctionOnSet(f, S \ {x}) = SumFunctionOnSet(g, S \ {x}) /\ SumFunctionOnSet(f, S \ {x}) \in Int
  BY <1>1, SumsAgree, SumIsInt
<1>3. /\ SumFunctionOnSet(f, S) = f[x] + SumFunctionOnSet(f, S \ {x})
      /\ SumFunctionOnSet(g, S) = g[x] + SumFunctionOnSet(g, S \ {x})
  BY SumTakesOne
<1> QED
  BY <1>2, <1>3

\* Balances and quantities, which are naturals, add up to a natural.
THEOREM SumIsNat ==
    ASSUME NEW S, IsFiniteSet(S), NEW f, \A x \in S : f[x] \in Nat
    PROVE  SumFunctionOnSet(f, S) \in Nat
<1> DEFINE Q == {s \in SUBSET S : SumFunctionOnSet(f, s) \in Nat}
<1>1. {} \in Q
  BY SumOfNothing
<1>2. ASSUME NEW s \in SUBSET S, NEW x \in S \ s, s \in Q PROVE s \cup {x} \in Q
  <2>1. IsFiniteSet(s) /\ \A y \in s \cup {x} : f[y] \in Int
    BY FS_Subset
  <2>2. SumFunctionOnSet(f, s \cup {x}) = f[x] + SumFunctionOnSet(f, s)
    BY <1>2, <2>1, SumAddsOne
  <2> QED
    BY <1>2, <2>2
<1>3. S \in Q
  <2> HIDE DEF Q
  <2> QED
    BY <1>1, <1>2, SubsetsAreReached
<1> QED
  BY <1>3

\* Each of the naturals that are added up is at most the sum, and so are any two.
THEOREM PartOfTheSum ==
    ASSUME NEW S, IsFiniteSet(S), NEW f, \A y \in S : f[y] \in Nat, NEW x \in S
    PROVE  /\ f[x] <= SumFunctionOnSet(f, S)
           /\ \A y \in S \ {x} : f[x] + f[y] <= SumFunctionOnSet(f, S)
<1>1. IsFiniteSet(S \ {x})
  BY FS_Subset
<1>2. SumFunctionOnSet(f, S) = f[x] + SumFunctionOnSet(f, S \ {x})
  BY SumTakesOne
<1>3. SumFunctionOnSet(f, S \ {x}) \in Nat
  BY <1>1, SumIsNat
<1>4. ASSUME NEW y \in S \ {x} PROVE f[y] <= SumFunctionOnSet(f, S \ {x})
  <2>1. IsFiniteSet((S \ {x}) \ {y})
    BY FS_Subset
  <2>2. SumFunctionOnSet(f, S \ {x}) = f[y] + SumFunctionOnSet(f, (S \ {x}) \ {y})
    BY <1>1, <1>4, SumTakesOne
  <2>3. SumFunctionOnSet(f, (S \ {x}) \ {y}) \in Nat
    BY <2>1, SumIsNat
  <2> QED
    BY <2>2, <2>3
<1> DEFINE rest == SumFunctionOnSet(f, S \ {x})
           all == SumFunctionOnSet(f, S)
<1>5. all = f[x] + rest /\ rest \in Nat /\ f[x] \in Nat
  BY <1>2, <1>3
<1>6. \A y \in S \ {x} : f[y] \in Nat /\ f[y] <= rest
  BY <1>4
<1> HIDE DEF rest, all
<1>7. f[x] <= all /\ \A y \in S \ {x} : f[x] + f[y] <= all
  BY <1>5, <1>6
<1> QED
  BY <1>7 DEF all

\* Empty accounts add up to 0.
THEOREM SumOfZeros ==
    ASSUME NEW S, IsFiniteSet(S), NEW f, \A x \in S : f[x] = 0
    PROVE  SumFunctionOnSet(f, S) = 0
<1>1. \A x \in S : f[x] \in Int /\ 1 * f[x] <= 0 * f[x] /\ f[x] \in Nat
  OBVIOUS
<1>2. 1 * SumFunctionOnSet(f, S) <= 0 * SumFunctionOnSet(f, S)
  BY <1>1, SumsCompare
<1> QED
  BY <1>1, <1>2, SumIsNat

\* Adding to one entry adds to the sum.
THEOREM SumOfOneMore ==
    ASSUME NEW S, IsFiniteSet(S), NEW f, NEW x \in S, NEW d \in Int,
           \A y \in S : f[y] \in Int,
           NEW g, \A y \in S : g[y] = IF y = x THEN f[y] + d ELSE f[y]
    PROVE  SumFunctionOnSet(g, S) = SumFunctionOnSet(f, S) + d
<1>1. \A y \in S : f[y] \in Int /\ g[y] \in Int /\ (y # x => g[y] = f[y])
  OBVIOUS
<1>2. SumFunctionOnSet(g, S) = SumFunctionOnSet(f, S) + (g[x] - f[x])
  BY <1>1, SumChangesAt
<1> QED
  BY <1>1, <1>2

\* g is f with d added at x.
IsGrowth(f, g, S, x, d) == \A y \in S : g[y] = IF y = x THEN f[y] + d ELSE f[y]

\* A book whose entry x grows by d adds up to d more: a mint, a claim, a trade.
THEOREM SumOfAGrowth ==
    ASSUME NEW S, IsFiniteSet(S), NEW f, \A y \in S : f[y] \in Int,
           NEW g, NEW x \in S, NEW d \in Int, IsGrowth(f, g, S, x, d)
    PROVE  SumFunctionOnSet(g, S) = SumFunctionOnSet(f, S) + d
<1>1. \A y \in S : g[y] = IF y = x THEN f[y] + d ELSE f[y]
  BY DEF IsGrowth
<1> QED
  BY <1>1, SumOfOneMore

\* g is f with n taken from x, part of it given to y and the rest to z.
IsMove(f, g, S, x, y, z, n, part) ==
    \A a \in S : g[a] = f[a] - (IF a = x THEN n ELSE 0)
                            + (IF a = y THEN part ELSE 0)
                            + (IF a = z THEN n - part ELSE 0)

\* Taking n from one entry, and giving part of it to a second and the rest to a third,
\* however many of the three are the same, leaves the sum as it is.
THEOREM SumOfAMove ==
    ASSUME NEW S, IsFiniteSet(S), NEW f, \A y \in S : f[y] \in Int,
           NEW x \in S, NEW y \in S, NEW z \in S, NEW n \in Int, NEW part \in Int,
           NEW g, IsMove(f, g, S, x, y, z, n, part)
    PROVE  SumFunctionOnSet(g, S) = SumFunctionOnSet(f, S)
<1> DEFINE f1 == [a \in S |-> IF a = x THEN f[a] + (-n) ELSE f[a]]
           f2 == [a \in S |-> IF a = y THEN f1[a] + part ELSE f1[a]]
<1>1. /\ \A a \in S : f1[a] \in Int /\ f1[a] = f[a] - (IF a = x THEN n ELSE 0)
      /\ \A a \in S : f1[a] = IF a = x THEN f[a] + (-n) ELSE f[a]
  OBVIOUS
<1> HIDE DEF f1
<1>2. /\ \A a \in S : f2[a] \in Int /\ f2[a] = f1[a] + (IF a = y THEN part ELSE 0)
      /\ \A a \in S : f2[a] = IF a = y THEN f1[a] + part ELSE f1[a]
  BY <1>1
<1> HIDE DEF f2
<1>3. \A a \in S : g[a] = IF a = z THEN f2[a] + (n - part) ELSE f2[a]
  BY <1>1, <1>2 DEF IsMove
<1>4. -n \in Int /\ n - part \in Int
  OBVIOUS
<1>5. SumFunctionOnSet(f1, S) = SumFunctionOnSet(f, S) + (-n)
  BY <1>1, <1>4, SumOfOneMore
<1>6. SumFunctionOnSet(f2, S) = SumFunctionOnSet(f1, S) + part
  BY <1>1, <1>2, SumOfOneMore
<1>7. SumFunctionOnSet(g, S) = SumFunctionOnSet(f2, S) + (n - part)
  <2> DEFINE d == n - part
  <2>1. d \in Int /\ \A a \in S : g[a] = IF a = z THEN f2[a] + d ELSE f2[a]
    BY <1>3, <1>4
  <2> HIDE DEF d
  <2>2. SumFunctionOnSet(g, S) = SumFunctionOnSet(f2, S) + d
    BY <1>2, <2>1, SumOfOneMore
  <2> QED
    BY <2>2 DEF d
<1>8. SumFunctionOnSet(f, S) \in Int
  BY SumIsInt
<1> QED
  BY <1>5, <1>6, <1>7, <1>8
=============================================================================
