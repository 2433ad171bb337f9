----------------------------- MODULE FiniteSums -----------------------------
(***************************************************************************)
(* Facts about the sums that money is counted with (SumFunctionOnSet of    *)
(* the community module Functions) over finite sets of any size, and about *)
(* the lists of finite sets in a strict order.                             *)
(*                                                                         *)
(* The induction principles of the library take an operator as parameter,  *)
(* which the provers cannot instantiate.  Every induction here is therefore *)
(* one over a smallest set: among the subsets of a finite set for which a  *)
(* fact fails there would be a minimal one.                                *)
(***************************************************************************)
EXTENDS Integers, Sequences, FiniteSets, FiniteSetsExt, Functions, FiniteSetTheorems, WellFoundedInduction, TLAPS

LEMMA SmallestSubset ==
  ASSUME NEW S, IsFiniteSet(S), NEW Bad \in SUBSET SUBSET S, Bad # {}
  PROVE  \E T \in Bad : \A U \in Bad : U \subseteq T => U = T
<1>1. IsWellFoundedOn(StrictSubsetOrdering(S), SUBSET S)
  BY FS_StrictSubsetOrderingWellFounded, FS_FiniteSubsetsOfFinite
<1>2. PICK T \in Bad : \A U \in Bad : ~ (<<U, T>> \in StrictSubsetOrdering(S))
  BY <1>1, WFMin
<1> QED BY <1>2 DEF StrictSubsetOrdering

-----------------------------------------------------------------------------
(* The recursion of the fold. *)

Some(s) == CHOOSE x \in s : TRUE

\* g is the running sum of f over the subsets of S.
Adds(f, S, g) ==
  g = [s \in SUBSET S |-> IF s = {} THEN 0 ELSE f[Some(s)] + g[s \ {Some(s)}]]

LEMMA SumIsChosen ==
  ASSUME NEW f, NEW S
  PROVE  SumFunctionOnSet(f, S) = (CHOOSE g : Adds(f, S, g))[S]
BY DEF SumFunctionOnSet, FoldFunctionOnSet, MapThenFoldSet, Adds, Some

LEMMA AddsStep ==
  ASSUME NEW f, NEW S, NEW g, Adds(f, S, g)
  PROVE  \A s \in SUBSET S : g[s] = IF s = {} THEN 0 ELSE f[Some(s)] + g[s \ {Some(s)}]
BY DEF Adds

LEMMA SomeInside ==
  ASSUME NEW s, s # {}
  PROVE  Some(s) \in s /\ s \ {Some(s)} \in SUBSET s /\ s \ {Some(s)} # s
BY DEF Some

LEMMA AddsUnique ==
  ASSUME NEW f, NEW S, IsFiniteSet(S), NEW T \in SUBSET S,
         NEW g, NEW h, Adds(f, S, g), Adds(f, T, h)
  PROVE  \A s \in SUBSET T : g[s] = h[s]
<1> DEFINE Bad == {s \in SUBSET T : g[s] # h[s]}
<1>1. SUFFICES ASSUME Bad # {} PROVE FALSE
  OBVIOUS
<1>2. Bad \in SUBSET SUBSET S
  OBVIOUS
<1> HIDE DEF Bad
<1>3. PICK s \in Bad : \A u \in Bad : u \subseteq s => u = s
  BY <1>1, <1>2, SmallestSubset
<1>4. s \in SUBSET T /\ s \in SUBSET S /\ g[s] # h[s]
  BY <1>3 DEF Bad
<1>5. s # {}
  BY <1>4, AddsStep
<1>6. g[s \ {Some(s)}] = h[s \ {Some(s)}]
  BY <1>3, <1>4, <1>5, SomeInside DEF Bad
<1> QED BY <1>4, <1>5, <1>6, AddsStep

LEMMA AddsExists ==
  ASSUME NEW f, NEW S, IsFiniteSet(S)
  PROVE  \E g : Adds(f, S, g)
<1> DEFINE Bad == {s \in SUBSET S : ~ \E g : Adds(f, s, g)}
<1>1. SUFFICES ASSUME Bad # {} PROVE FALSE
  OBVIOUS
<1>2. Bad \in SUBSET SUBSET S
  OBVIOUS
<1> HIDE DEF Bad
<1>3. PICK s \in Bad : \A u \in Bad : u \subseteq s => u = s
  BY <1>1, <1>2, SmallestSubset
<1>4. s \in SUBSET S /\ IsFiniteSet(s) /\ ~ \E g : Adds(f, s, g)
  BY <1>3, FS_Subset DEF Bad
<1> DEFINE Below(t) == CHOOSE g : Adds(f, t, g)
<1>5. \A t \in SUBSET s : t # s => Adds(f, t, Below(t))
  <2> SUFFICES ASSUME NEW t \in SUBSET s, t # s PROVE Adds(f, t, Below(t))
    OBVIOUS
  <2>1. \E g : Adds(f, t, g)
    BY <1>3, <1>4 DEF Bad
  <2> QED BY <2>1
<1> HIDE DEF Below
<1> DEFINE val(t) == IF t = {} THEN 0 ELSE f[Some(t)] + Below(t \ {Some(t)})[t \ {Some(t)}]
           G == [t \in SUBSET s |-> val(t)]
<1>6. \A t \in SUBSET s : t # s => Below(t)[t] = val(t)
  <2> SUFFICES ASSUME NEW t \in SUBSET s, t # s PROVE Below(t)[t] = val(t)
    OBVIOUS
  <2>1. Adds(f, t, Below(t))
    BY <1>5
  <2>2. CASE t = {}
    BY <2>1, <2>2, AddsStep
  <2>3. CASE t # {}
    <3>1. Adds(f, t \ {Some(t)}, Below(t \ {Some(t)}))
      BY <2>3, <1>5, SomeInside
    <3>2. IsFiniteSet(t) /\ t \ {Some(t)} \in SUBSET t
      BY <1>4, FS_Subset
    <3> HIDE DEF val
    <3>3. Below(t)[t \ {Some(t)}] = Below(t \ {Some(t)})[t \ {Some(t)}]
      BY <2>1, <3>1, <3>2, AddsUnique
    <3>4. Below(t)[t] = f[Some(t)] + Below(t)[t \ {Some(t)}]
      BY <2>1, <2>3, AddsStep
    <3> QED BY <2>3, <3>3, <3>4 DEF val
  <2> QED BY <2>2, <2>3
<1>7. \A t \in SUBSET s : t # {} => G[t \ {Some(t)}] = Below(t \ {Some(t)})[t \ {Some(t)}]
  <2> SUFFICES ASSUME NEW t \in SUBSET s, t # {}
               PROVE  G[t \ {Some(t)}] = Below(t \ {Some(t)})[t \ {Some(t)}]
    OBVIOUS
  <2>1. t \ {Some(t)} \in SUBSET s /\ t \ {Some(t)} # s
    BY SomeInside
  <2> QED BY <2>1, <1>6
<1>8. G = [t \in SUBSET s |-> IF t = {} THEN 0 ELSE f[Some(t)] + G[t \ {Some(t)}]]
  <2>1. \A t \in SUBSET s : G[t] = IF t = {} THEN 0 ELSE f[Some(t)] + G[t \ {Some(t)}]
    BY <1>7
  <2>2. G = [t \in SUBSET s |-> G[t]]
    OBVIOUS
  <2> HIDE DEF G
  <2> QED BY <2>1, <2>2
<1> HIDE DEF G
<1> QED BY <1>4, <1>8 DEF Adds

LEMMA SumStep ==
  ASSUME NEW f, NEW S, IsFiniteSet(S)
  PROVE  /\ SumFunctionOnSet(f, {}) = 0
         /\ S # {} => SumFunctionOnSet(f, S) = f[Some(S)] + SumFunctionOnSet(f, S \ {Some(S)})
<1> DEFINE g == CHOOSE h : Adds(f, S, h)
           rest == S \ {Some(S)}
           r == CHOOSE h : Adds(f, rest, h)
           e == CHOOSE h : Adds(f, {}, h)
<1>1. IsFiniteSet(rest) /\ rest \in SUBSET S /\ IsFiniteSet({})
  BY FS_Subset, FS_EmptySet
<1>2. Adds(f, S, g) /\ Adds(f, rest, r) /\ Adds(f, {}, e)
  BY <1>1, AddsExists
<1>3. SumFunctionOnSet(f, S) = g[S] /\ SumFunctionOnSet(f, rest) = r[rest]
      /\ SumFunctionOnSet(f, {}) = e[{}]
  BY SumIsChosen
<1> HIDE DEF g, r, e, rest
<1>4. g[rest] = r[rest]
  BY <1>1, <1>2, AddsUnique
<1>5. e[{}] = 0
  BY <1>2, AddsStep
<1>6. S # {} => g[S] = f[Some(S)] + g[rest]
  BY <1>2, AddsStep DEF rest
<1> QED BY <1>3, <1>4, <1>5, <1>6 DEF rest

-----------------------------------------------------------------------------
(* What a sum of integers satisfies. *)

LEMMA SumEmpty == \A f : SumFunctionOnSet(f, {}) = 0
BY SumStep, FS_EmptySet

\* Any summand can be taken out.
LEMMA SumRemove ==
  ASSUME NEW f, NEW S, IsFiniteSet(S), \A x \in S : f[x] \in Int
  PROVE  /\ SumFunctionOnSet(f, S) \in Int
         /\ \A x \in S : SumFunctionOnSet(f, S) = f[x] + SumFunctionOnSet(f, S \ {x})
<1> DEFINE total(s) == SumFunctionOnSet(f, s)
           Good(s) == total(s) \in Int /\ \A x \in s : total(s) = f[x] + total(s \ {x})
           Bad == {s \in SUBSET S : ~ Good(s)}
<1>1. SUFFICES ASSUME Bad # {} PROVE FALSE
  OBVIOUS
<1>2. Bad \in SUBSET SUBSET S
  OBVIOUS
<1> HIDE DEF Bad
<1>3. PICK s \in Bad : \A u \in Bad : u \subseteq s => u = s
  BY <1>1, <1>2, SmallestSubset
<1> HIDE DEF Good
<1>4. s \in SUBSET S /\ IsFiniteSet(s) /\ ~ Good(s)
  BY <1>3, FS_Subset DEF Bad
<1>5. \A t \in SUBSET s : t # s => Good(t)
  BY <1>3, <1>4 DEF Bad
<1> DEFINE c == Some(s)
<1> HIDE DEF total
<1>6. s # {} => total(s) = f[c] + total(s \ {c})
  BY <1>4, SumStep DEF total
<1>7. total({}) = 0
  BY SumEmpty DEF total
<1>8. s # {}
  <2>1. Good({})
    BY <1>7 DEF Good
  <2> QED BY <2>1, <1>4
<1>9. c \in s /\ s \ {c} \in SUBSET s /\ s \ {c} # s /\ f[c] \in Int
  BY <1>4, <1>8, SomeInside
<1> HIDE DEF c
<1>10. Good(s \ {c})
  BY <1>5, <1>9
<1>11. total(s) \in Int
  BY <1>6, <1>8, <1>9, <1>10 DEF Good
<1>12. ASSUME NEW x \in s, x # c PROVE total(s) = f[x] + total(s \ {x})
  <2>1. Good(s \ {x}) /\ Good((s \ {c}) \ {x})
    BY <1>5, <1>12
  <2>2. (s \ {x}) \ {c} = (s \ {c}) \ {x}
    OBVIOUS
  <2>3. total(s \ {x}) = f[c] + total((s \ {c}) \ {x})
    BY <2>1, <2>2, <1>9, <1>12 DEF Good
  <2>4. total(s \ {c}) = f[x] + total((s \ {c}) \ {x})
    BY <1>10, <1>12 DEF Good
  <2>5. f[x] \in Int /\ total((s \ {c}) \ {x}) \in Int
    BY <2>1, <1>4 DEF Good
  <2> QED BY <2>3, <2>4, <2>5, <1>6, <1>8, <1>9
<1>13. Good(s)
  BY <1>6, <1>8, <1>11, <1>12 DEF Good
<1> QED BY <1>4, <1>13

LEMMA SumAdd ==
  ASSUME NEW f, NEW S, IsFiniteSet(S), \A y \in S : f[y] \in Int,
         NEW x, x \notin S, f[x] \in Int
  PROVE  SumFunctionOnSet(f, S \union {x}) = f[x] + SumFunctionOnSet(f, S)
<1>1. IsFiniteSet(S \union {x}) /\ (S \union {x}) \ {x} = S
  BY FS_AddElement
<1> QED BY <1>1, SumRemove

\* Only the summands matter.
LEMMA SumSame ==
  ASSUME NEW f, NEW g, NEW S, IsFiniteSet(S), \A x \in S : f[x] = g[x]
  PROVE  SumFunctionOnSet(f, S) = SumFunctionOnSet(g, S)
<1> DEFINE Bad == {s \in SUBSET S : SumFunctionOnSet(f, s) # SumFunctionOnSet(g, s)}
<1>1. SUFFICES ASSUME Bad # {} PROVE FALSE
  OBVIOUS
<1>2. Bad \in SUBSET SUBSET S
  OBVIOUS
<1> HIDE DEF Bad
<1>3. PICK s \in Bad : \A u \in Bad : u \subseteq s => u = s
  BY <1>1, <1>2, SmallestSubset
<1>4. s \in SUBSET S /\ IsFiniteSet(s) /\ SumFunctionOnSet(f, s) # SumFunctionOnSet(g, s)
  BY <1>3, FS_Subset DEF Bad
<1>5. s # {}
  BY <1>4, SumEmpty
<1>6. Some(s) \in s /\ s \ {Some(s)} \in SUBSET s /\ s \ {Some(s)} # s
  BY <1>5, SomeInside
<1>7. SumFunctionOnSet(f, s \ {Some(s)}) = SumFunctionOnSet(g, s \ {Some(s)})
  BY <1>3, <1>4, <1>6 DEF Bad
<1>8. f[Some(s)] = g[Some(s)]
  BY <1>4, <1>6
<1> QED BY <1>4, <1>5, <1>7, <1>8, SumStep

\* A sum of equal summands.
LEMMA SumConstant ==
  ASSUME NEW f, NEW S, IsFiniteSet(S), NEW c \in Nat, \A x \in S : f[x] = c
  PROVE  SumFunctionOnSet(f, S) = c * Cardinality(S)
<1> DEFINE Bad == {s \in SUBSET S : SumFunctionOnSet(f, s) # c * Cardinality(s)}
<1>1. SUFFICES ASSUME Bad # {} PROVE FALSE
  OBVIOUS
<1>2. Bad \in SUBSET SUBSET S
  OBVIOUS
<1> HIDE DEF Bad
<1>3. PICK s \in Bad : \A u \in Bad : u \subseteq s => u = s
  BY <1>1, <1>2, SmallestSubset
<1>4. s \in SUBSET S /\ IsFiniteSet(s) /\ SumFunctionOnSet(f, s) # c * Cardinality(s)
  BY <1>3, FS_Subset DEF Bad
<1>5. s # {}
  <2>1. SumFunctionOnSet(f, {}) = 0 /\ Cardinality({}) = 0 /\ c * 0 = 0
    BY SumEmpty, FS_EmptySet
  <2> QED BY <1>4, <2>1
<1> DEFINE x == Some(s)
           rest == s \ {x}
<1>6. x \in s /\ rest \in SUBSET s /\ rest # s
  BY <1>5, SomeInside
<1>7. SumFunctionOnSet(f, rest) = c * Cardinality(rest)
  BY <1>3, <1>4, <1>6 DEF Bad
<1>8. Cardinality(rest) \in Nat /\ Cardinality(s) = Cardinality(rest) + 1
  <2>1. IsFiniteSet(rest) /\ Cardinality(rest) = Cardinality(s) - 1 /\ Cardinality(s) \in Nat
    BY <1>4, <1>6, FS_RemoveElement, FS_CardinalityType
  <2>2. Cardinality(rest) \in Nat
    BY <2>1, FS_CardinalityType
  <2> HIDE DEF rest
  <2> QED BY <2>1, <2>2
<1>9. SumFunctionOnSet(f, s) = f[x] + SumFunctionOnSet(f, rest)
  BY <1>4, <1>5, SumStep
<1> HIDE DEF x, rest
<1>10. f[x] = c
  BY <1>4, <1>6
<1> DEFINE n == Cardinality(rest)
<1>11. c * (n + 1) = c + c * n
  <2> HIDE DEF n
  <2>1. n \in Nat => c * (n + 1) = c + c * n
    OBVIOUS
  <2> QED BY <1>8, <2>1 DEF n
<1> QED BY <1>4, <1>7, <1>8, <1>9, <1>10, <1>11

\* A sum of natural numbers is one, and is not below the sum of a part.
LEMMA SumPart ==
  ASSUME NEW f, NEW S, IsFiniteSet(S), \A x \in S : f[x] \in Nat
  PROVE  /\ SumFunctionOnSet(f, S) \in Nat
         /\ \A T \in SUBSET S : SumFunctionOnSet(f, T) <= SumFunctionOnSet(f, S)
<1> DEFINE total(s) == SumFunctionOnSet(f, s)
           Good(s) == total(s) \in Nat /\ \A t \in SUBSET s : total(t) \in Nat /\ total(t) <= total(s)
           Bad == {s \in SUBSET S : ~ Good(s)}
<1>1. SUFFICES ASSUME Bad # {} PROVE FALSE
  OBVIOUS
<1>2. Bad \in SUBSET SUBSET S
  OBVIOUS
<1> HIDE DEF Bad
<1>3. PICK s \in Bad : \A u \in Bad : u \subseteq s => u = s
  BY <1>1, <1>2, SmallestSubset
<1> HIDE DEF Good
<1>4. s \in SUBSET S /\ IsFiniteSet(s) /\ ~ Good(s)
  BY <1>3, FS_Subset DEF Bad
<1>5. \A t \in SUBSET s : t # s => Good(t)
  BY <1>3, <1>4 DEF Bad
<1> HIDE DEF total
<1>6. total({}) = 0
  BY SumEmpty DEF total
<1>7. \A x \in s : total(s) = f[x] + total(s \ {x})
  BY <1>4, SumRemove DEF total
<1>8. \A x \in s : total(s) \in Nat /\ total(s \ {x}) <= total(s)
  <2> SUFFICES ASSUME NEW x \in s PROVE total(s) \in Nat /\ total(s \ {x}) <= total(s)
    OBVIOUS
  <2>1. Good(s \ {x}) /\ f[x] \in Nat
    BY <1>4, <1>5
  <2> QED BY <2>1, <1>7 DEF Good
<1>9. ASSUME NEW t \in SUBSET s, t # s PROVE total(t) \in Nat /\ total(t) <= total(s)
  <2>1. PICK x \in s : x \notin t
    BY <1>9
  <2>2. Good(s \ {x}) /\ t \in SUBSET (s \ {x})
    BY <1>5, <2>1
  <2>3. total(t) \in Nat /\ total(s \ {x}) \in Nat /\ total(t) <= total(s \ {x})
    BY <2>2 DEF Good
  <2> QED BY <2>3, <1>8
<1>10. total(s) \in Nat
  <2>1. CASE s = {}
    BY <2>1, <1>6
  <2>2. CASE \E x : x \in s
    BY <2>2, <1>8
  <2> QED BY <2>1, <2>2
<1>11. Good(s)
  BY <1>9, <1>10 DEF Good
<1> QED BY <1>4, <1>11

-----------------------------------------------------------------------------
(* Sets of natural numbers. *)

Numbers(S) == S \subseteq Nat

LEMMA NatMinimum ==
  ASSUME NEW S, Numbers(S), S # {}
  PROVE  Min(S) \in S /\ \A y \in S : Min(S) <= y
<1>1. PICK x \in S : x \in Nat
  BY DEF Numbers
<1> DEFINE Below(m) == {y \in Nat : y < m}
           Bad == {Below(m) : m \in {y \in S : y <= x}}
           All == 0 .. x
<1>2. Bad \in SUBSET SUBSET All /\ Bad # {} /\ IsFiniteSet(All)
  <2>1. \A m \in S : m \in Nat
    BY DEF Numbers
  <2>2. \A m \in S : m <= x => Below(m) \in SUBSET All
    BY <1>1, <2>1
  <2>3. x \in {y \in S : y <= x}
    BY <1>1
  <2>4. IsFiniteSet(All)
    BY <1>1, FS_Interval
  <2> HIDE DEF Below, All
  <2> QED BY <2>2, <2>3, <2>4
<1>3. PICK T \in Bad : \A U \in Bad : U \subseteq T => U = T
  <2> HIDE DEF Bad, All
  <2> QED BY <1>2, SmallestSubset
<1>4. PICK m \in S : m <= x /\ T = Below(m)
  BY <1>3
<1>5. ASSUME NEW y \in S, ~ (m <= y) PROVE FALSE
  <2>1. y \in Nat /\ m \in Nat
    BY DEF Numbers
  <2>2. Below(y) \subseteq Below(m) /\ y \in Below(m) /\ y \notin Below(y)
    BY <2>1, <1>5
  <2>3. Below(y) \in Bad
    BY <1>1, <1>4, <1>5, <2>1
  <2> QED BY <2>2, <2>3, <1>3, <1>4
<1>6. \E k \in S : \A y \in S : k <= y
  BY <1>5
<1> QED BY <1>6 DEF Min

-----------------------------------------------------------------------------
(* A finite set in the order of a relation.  Relations are hidden in        *)
(* StrictOrder until a step compares members.                               *)

StrictOrder(R, S) ==
  /\ \A a \in S : <<a, a>> \notin R
  /\ \A a, b \in S : a = b \/ <<a, b>> \in R \/ <<b, a>> \in R
  /\ \A a, b, c \in S : <<a, b>> \in R /\ <<b, c>> \in R => <<a, c>> \in R

Lists(s, S, R) ==
  /\ s \in [1 .. Cardinality(S) -> S]
  /\ \A i, j \in 1 .. Cardinality(S) : i < j => <<s[i], s[j]>> \in R

LEMMA LastExists ==
  ASSUME NEW S, IsFiniteSet(S), S # {}, NEW R, StrictOrder(R, S)
  PROVE  \E m \in S : \A y \in S : y # m => <<y, m>> \in R
<1> DEFINE Last(m, T) == m \in T /\ \A y \in T : y # m => <<y, m>> \in R
           Bad == {T \in SUBSET S : T # {} /\ ~ \E m : Last(m, T)}
<1>1. SUFFICES ASSUME Bad # {} PROVE FALSE
  BY Zenon
<1>2. Bad \in SUBSET SUBSET S
  OBVIOUS
<1> HIDE DEF Bad
<1>3. PICK T \in Bad : \A U \in Bad : U \subseteq T => U = T
  BY <1>1, <1>2, SmallestSubset
<1>4. T \in SUBSET S /\ T # {} /\ ~ \E m : Last(m, T)
  BY <1>3 DEF Bad
<1>5. PICK e \in T : TRUE
  BY <1>4
<1>6. T \ {e} # {}
  BY <1>4, <1>5
<1>7. T \ {e} \notin Bad /\ T \ {e} \in SUBSET S
  BY <1>3, <1>4, <1>5
<1>8. PICK m : Last(m, T \ {e})
  BY <1>6, <1>7 DEF Bad
<1>9. m \in S /\ e \in S /\ \A y \in T : y \in S
  BY <1>4, <1>8
<1>10. CASE <<e, m>> \in R
  BY <1>4, <1>8, <1>10
<1>11. CASE <<m, e>> \in R
  <2>1. \A y \in T : y # e => <<y, e>> \in R
    BY <1>8, <1>9, <1>11 DEF StrictOrder
  <2> QED BY <1>4, <1>5, <2>1
<1> QED BY <1>8, <1>9, <1>10, <1>11 DEF StrictOrder

LEMMA ListsEmpty == \A R : \E s : Lists(s, {}, R)
<1>1. Cardinality({}) = 0 /\ 1 .. 0 = {}
  BY FS_EmptySet
<1>2. [i \in {} |-> i] \in [{} -> {}]
  OBVIOUS
<1> QED BY <1>1, <1>2 DEF Lists

LEMMA ListsAppend ==
  ASSUME NEW T, IsFiniteSet(T), NEW R, NEW m \in T, \A y \in T : y # m => <<y, m>> \in R,
         NEW s, Lists(s, T \ {m}, R)
  PROVE  \E t : Lists(t, T, R)
<1> DEFINE n == Cardinality(T \ {m})
           t == [i \in 1 .. n + 1 |-> IF i = n + 1 THEN m ELSE s[i]]
<1>1. n \in Nat /\ Cardinality(T) = n + 1
  <2>1. IsFiniteSet(T \ {m}) /\ Cardinality(T \ {m}) = Cardinality(T) - 1
    BY FS_RemoveElement
  <2>2. Cardinality(T) \in Nat /\ Cardinality(T \ {m}) \in Nat
    BY <2>1, FS_CardinalityType
  <2> QED BY <2>1, <2>2
<1>2. s \in [1 .. n -> T \ {m}] /\ \A i, j \in 1 .. n : i < j => <<s[i], s[j]>> \in R
  BY DEF Lists
<1> HIDE DEF n
<1>3. \A i \in 1 .. n : s[i] \in T /\ s[i] # m
  BY <1>2
<1>4. \A i \in 1 .. n : <<s[i], m>> \in R
  BY <1>3
<1>5. \A i \in 1 .. n + 1 : t[i] \in T
  BY <1>1, <1>3
<1>6. \A i, j \in 1 .. n + 1 : i < j => <<t[i], t[j]>> \in R
  BY <1>1, <1>2, <1>4
<1>7. t \in [1 .. n + 1 -> T]
  BY <1>5
<1> HIDE DEF t
<1> QED BY <1>1, <1>6, <1>7 DEF Lists

LEMMA ListsExists ==
  ASSUME NEW S, IsFiniteSet(S), NEW R, StrictOrder(R, S)
  PROVE  \E s : Lists(s, S, R)
<1> DEFINE Bad == {T \in SUBSET S : ~ \E s : Lists(s, T, R)}
<1>1. SUFFICES ASSUME Bad # {} PROVE FALSE
  OBVIOUS
<1>2. Bad \in SUBSET SUBSET S
  OBVIOUS
<1> HIDE DEF Bad
<1>3. PICK T \in Bad : \A U \in Bad : U \subseteq T => U = T
  BY <1>1, <1>2, SmallestSubset
<1>4. T \in SUBSET S /\ IsFiniteSet(T) /\ ~ \E s : Lists(s, T, R)
  BY <1>3, FS_Subset DEF Bad
<1>5. T # {}
  BY <1>4, ListsEmpty
<1>6. StrictOrder(R, T)
  BY <1>4 DEF StrictOrder
<1>7. PICK m \in T : \A y \in T : y # m => <<y, m>> \in R
  BY <1>4, <1>5, <1>6, LastExists
<1>8. T \ {m} \in SUBSET S /\ T \ {m} \notin Bad
  BY <1>3, <1>4
<1>9. \E s : Lists(s, T \ {m}, R)
  BY <1>8 DEF Bad
<1> QED BY <1>4, <1>7, <1>9, ListsAppend

\* A list has every member once.
LEMMA ListsAll ==
  ASSUME NEW S, IsFiniteSet(S), NEW R, StrictOrder(R, S), NEW s, Lists(s, S, R)
  PROVE  /\ s \in Seq(S) /\ Len(s) = Cardinality(S)
         /\ \A i, j \in 1 .. Len(s) : s[i] = s[j] => i = j
         /\ {s[i] : i \in 1 .. Len(s)} = S
<1> DEFINE n == Cardinality(S)
<1>1. n \in Nat
  BY FS_CardinalityType
<1>2. s \in [1 .. n -> S] /\ \A i, j \in 1 .. n : i < j => <<s[i], s[j]>> \in R
  BY DEF Lists
<1>3. Cardinality(1 .. n) = n /\ IsFiniteSet(1 .. n)
  <2> HIDE DEF n
  <2>1. Cardinality(1 .. n) = IF 1 > n THEN 0 ELSE n - 1 + 1
    BY <1>1, FS_Interval
  <2> QED BY <1>1, <2>1, FS_Interval
<1>4. \A i, j \in 1 .. n : s[i] = s[j] => i = j
  <2> SUFFICES ASSUME NEW i \in 1 .. n, NEW j \in 1 .. n, s[i] = s[j], i # j PROVE FALSE
    OBVIOUS
  <2> HIDE DEF n
  <2>1. s[i] \in S /\ s[j] \in S
    BY <1>2
  <2>2. i < j \/ j < i
    BY <1>1
  <2> QED BY <1>2, <2>1, <2>2 DEF StrictOrder
<1>5. s \in Injection(1 .. n, S)
  BY <1>2, <1>4 DEF Injection, IsInjective
<1>6. s \in Surjection(1 .. n, S)
  BY <1>3, <1>5, FS_Injection
<1>7. {s[i] : i \in 1 .. n} = S
  BY <1>2, <1>6 DEF Surjection
<1>8. s \in Seq(S) /\ Len(s) = n
  <2> HIDE DEF n
  <2> QED BY <1>1, <1>2
<1> HIDE DEF n
<1> QED BY <1>4, <1>7, <1>8 DEF n

Sorted(s, S) ==
  /\ s \in [1 .. Cardinality(S) -> S]
  /\ \A i, j \in 1 .. Cardinality(S) : i < j => s[i] < s[j]

LEMMA SortedExists ==
  ASSUME NEW S, Numbers(S), IsFiniteSet(S)
  PROVE  \E s : Sorted(s, S)
<1> DEFINE R == {p \in S \X S : p[1] < p[2]}
<1>1. \A a, b \in S : a \in Nat /\ b \in Nat /\ (<<a, b>> \in R <=> a < b)
  BY DEF Numbers
<1> HIDE DEF R
<1>2. StrictOrder(R, S)
  BY <1>1 DEF StrictOrder
<1>3. PICK s : Lists(s, S, R)
  BY <1>2, ListsExists
<1>4. \A i \in 1 .. Cardinality(S) : s[i] \in S
  BY <1>3 DEF Lists
<1> QED BY <1>1, <1>3, <1>4 DEF Lists, Sorted
=============================================================================
