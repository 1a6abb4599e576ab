---------------------------------- MODULE Sums ----------------------------------
(***************************************************************************)
(* Laws of SumFunctionOnSet, the sum the counters of Connections and       *)
(* History are compared by.  The library defines it by recursion; the laws *)
(* are proved by looking at a smallest set they would not hold of.         *)
(***************************************************************************)
EXTENDS FiniteSetTheorems, Functions, Folds, TLAPS

-----------------------------------------------------------------------------
(* Induction.                                                              *)

\* Every set of numbers has a least element.
Less == {ss \in Nat \X Nat : ss[1] < ss[2]}
LEMMA LeastNumber ==
  ASSUME NEW T, T \subseteq Nat, T # {}
  PROVE  \E n \in T : \A m \in T : ~ (m < n)
<1>1. IsWellFoundedOn(Less, Nat)
  BY NatLessThanWellFounded DEF OpToRel, Less
<1>2. \E n \in T : \A m \in T : <<m, n>> \notin Less
  BY <1>1, WFMin
<1> QED BY <1>2 DEF Less

\* Subsets of a finite set, and one element less.
LEMMA Subsets ==
  ASSUME NEW S, IsFiniteSet(S), NEW T \in SUBSET S
  PROVE  /\ IsFiniteSet(T) /\ Cardinality(T) \in Nat
         /\ Cardinality(T) = 0 <=> T = {}
         /\ \A x \in T : Cardinality(T \ {x}) = Cardinality(T) - 1
<1>1. IsFiniteSet(T)
  BY FS_Subset
<1>2. Cardinality(T) \in Nat /\ (Cardinality(T) = 0 <=> T = {})
  BY <1>1, FS_CardinalityType, FS_EmptySet
<1>3. \A x \in T : Cardinality(T \ {x}) = Cardinality(T) - 1
  BY <1>1, FS_RemoveElement
<1> QED BY <1>1, <1>2, <1>3

\* A property of the subsets of a finite set that fails, fails first of one
\* without which it would hold of everything smaller.
LEMMA FirstFailure ==
  ASSUME NEW S, IsFiniteSet(S), NEW B, B \subseteq SUBSET S, B # {}
  PROVE  \E T \in B : \A x \in T : T \ {x} \notin B
<1> DEFINE N == {Cardinality(T) : T \in B}
<1>1. N \subseteq Nat /\ N # {}
  BY Subsets
<1>2. PICK n \in N : \A m \in N : ~ (m < n)
  BY <1>1, LeastNumber
<1>3. PICK T \in B : n = Cardinality(T)
  BY <1>2
<1>4. ASSUME NEW x \in T, T \ {x} \in B
      PROVE  FALSE
  <2>1. Cardinality(T \ {x}) = Cardinality(T) - 1 /\ Cardinality(T) \in Nat
    BY Subsets
  <2>2. ~ (Cardinality(T \ {x}) < n)
    BY <1>2, <1>4
  <2> QED BY <1>3, <2>1, <2>2
<1> QED BY <1>4

-----------------------------------------------------------------------------
(* The recursion of the definition.                                        *)

One(s) == CHOOSE x \in s : TRUE
Step(g, f, s) == IF s = {} THEN 0 ELSE f[One(s)] + g[s \ {One(s)}]
IsSum(g, f, S) == g = [s \in SUBSET S |-> Step(g, f, s)]

\* What such a function yields.
LEMMA Unfolded ==
  ASSUME NEW f, NEW S
  PROVE  SumFunctionOnSet(f, S) = (CHOOSE g : IsSum(g, f, S))[S]
BY DEF SumFunctionOnSet, FoldFunctionOnSet, MapThenFoldSet, IsSum, Step, One

\* There is such a function, up to every size of subsets ...
UpTo(S, n) == {s \in SUBSET S : Cardinality(s) <= n}
LEMMA Exists ==
  ASSUME NEW f, NEW S, IsFiniteSet(S)
  PROVE  \E g : IsSum(g, f, S)
<1> DEFINE Good(n) == \E g : g = [s \in UpTo(S, n) |-> Step(g, f, s)]
           Bad == {n \in Nat : ~ Good(n)}
<1>1. Good(0)
  <2> DEFINE g == [s \in UpTo(S, 0) |-> 0]
  <2>1. \A s \in UpTo(S, 0) : s = {}
    <3> SUFFICES ASSUME NEW s \in SUBSET S, Cardinality(s) <= 0 PROVE s = {}
      BY DEF UpTo
    <3> QED BY Subsets
  <2>2. \A s \in UpTo(S, 0) : Step(g, f, s) = 0
    BY <2>1 DEF Step
  <2>3. g = [s \in UpTo(S, 0) |-> Step(g, f, s)]
    BY <2>2
  <2> QED BY <2>3
<1>2. ASSUME NEW n \in Nat, Good(n) PROVE Good(n + 1)
  <2>1. PICK g : g = [s \in UpTo(S, n) |-> Step(g, f, s)]
    BY <1>2
  <2> DEFINE h == [s \in UpTo(S, n + 1) |-> Step(g, f, s)]
  <2>2. \A s \in UpTo(S, n) : s \in UpTo(S, n + 1) /\ h[s] = g[s]
    <3> SUFFICES ASSUME NEW s \in SUBSET S, Cardinality(s) <= n
                 PROVE  s \in UpTo(S, n + 1) /\ h[s] = g[s]
      BY DEF UpTo
    <3>1. s \in UpTo(S, n + 1) /\ s \in UpTo(S, n)
      BY Subsets DEF UpTo
    <3> QED BY <2>1, <3>1
  <2>3. ASSUME NEW s \in UpTo(S, n + 1), s # {} PROVE s \ {One(s)} \in UpTo(S, n)
    <3>1. s \in SUBSET S /\ Cardinality(s) <= n + 1 /\ One(s) \in s
      BY <2>3 DEF UpTo, One
    <3>2. Cardinality(s \ {One(s)}) = Cardinality(s) - 1 /\ Cardinality(s) \in Nat
      BY <3>1, Subsets
    <3> QED BY <3>1, <3>2 DEF UpTo
  <2>4. \A s \in UpTo(S, n + 1) : Step(g, f, s) = Step(h, f, s)
    BY <2>2, <2>3 DEF Step
  <2>5. h = [s \in UpTo(S, n + 1) |-> Step(h, f, s)]
    BY <2>4
  <2> QED BY <2>5
<1>3. Bad = {}
  <2> SUFFICES ASSUME Bad # {} PROVE FALSE
    OBVIOUS
  <2>1. PICK n \in Bad : \A m \in Bad : ~ (m < n)
    BY LeastNumber
  <2>2. n # 0
    BY <1>1
  <2>3. n - 1 \in Nat /\ n - 1 \notin Bad
    BY <2>1, <2>2
  <2>4. Good(n - 1)
    BY <2>3
  <2>5. Good((n - 1) + 1)
    BY <1>2, <2>3, <2>4
  <2> QED BY <2>5
<1>4. UpTo(S, Cardinality(S)) = SUBSET S
  <2> SUFFICES ASSUME NEW s \in SUBSET S PROVE Cardinality(s) <= Cardinality(S)
    BY DEF UpTo
  <2> QED BY FS_Subset
<1>5. Cardinality(S) \in Nat
  BY FS_CardinalityType
<1>6. Good(Cardinality(S))
  BY <1>3, <1>5
<1> QED BY <1>4, <1>6 DEF IsSum

\* ... and on the subsets they share two of them agree.
LEMMA Agree ==
  ASSUME NEW f, NEW S, IsFiniteSet(S), NEW T \in SUBSET S,
         NEW g, IsSum(g, f, S), NEW h, IsSum(h, f, T)
  PROVE  \A s \in SUBSET T : g[s] = h[s]
<1> DEFINE B == {s \in SUBSET T : g[s] # h[s]}
<1> SUFFICES ASSUME B # {} PROVE FALSE
  OBVIOUS
<1>1. IsFiniteSet(T)
  BY Subsets
<1>2. PICK s \in B : \A x \in s : s \ {x} \notin B
  BY <1>1, FirstFailure
<1>3. g[s] = Step(g, f, s) /\ h[s] = Step(h, f, s)
  BY DEF IsSum
<1>4. s # {}
  BY <1>3 DEF Step
<1>5. One(s) \in s
  BY <1>4 DEF One
<1>6. g[s \ {One(s)}] = h[s \ {One(s)}]
  BY <1>2, <1>5
<1> QED BY <1>3, <1>6 DEF Step

-----------------------------------------------------------------------------
(* The laws.                                                               *)

\* What a sum over a subset is, by one function for all of them.
LEMMA SumOf ==
  ASSUME NEW f, NEW S, IsFiniteSet(S)
  PROVE  \E g : /\ IsSum(g, f, S)
                /\ \A T \in SUBSET S : SumFunctionOnSet(f, T) = g[T]
<1>1. PICK g : IsSum(g, f, S)
  BY Exists
<1>2. ASSUME NEW T \in SUBSET S
      PROVE  SumFunctionOnSet(f, T) = g[T]
  <2> DEFINE h == CHOOSE k : IsSum(k, f, T)
  <2>1. IsSum(h, f, T)
    BY Subsets, Exists
  <2>2. g[T] = h[T]
    BY <1>1, <2>1, Agree
  <2> QED BY <2>2, Unfolded
<1> QED BY <1>1, <1>2

\* Nothing adds up to zero.
THEOREM SumOfNothing == \A f : SumFunctionOnSet(f, {}) = 0
<1> SUFFICES ASSUME NEW f PROVE SumFunctionOnSet(f, {}) = 0
  OBVIOUS
<1>1. PICK g : IsSum(g, f, {}) /\ SumFunctionOnSet(f, {}) = g[{}]
  BY FS_EmptySet, SumOf
<1> QED BY <1>1 DEF IsSum, Step

\* The element the definition takes out first.
LEMMA SumFirst ==
  ASSUME NEW f, NEW S, IsFiniteSet(S), NEW T \in SUBSET S, T # {}
  PROVE  /\ One(T) \in T
         /\ SumFunctionOnSet(f, T) = f[One(T)] + SumFunctionOnSet(f, T \ {One(T)})
<1>1. PICK g : IsSum(g, f, S) /\ \A U \in SUBSET S : SumFunctionOnSet(f, U) = g[U]
  BY SumOf
<1>2. One(T) \in T /\ T \ {One(T)} \in SUBSET S
  BY DEF One
<1>3. g[T] = Step(g, f, T)
  BY <1>1 DEF IsSum
<1> QED BY <1>1, <1>2, <1>3 DEF Step

\* A sum of numbers is a number.
THEOREM SumIsInt ==
  ASSUME NEW f, NEW S, IsFiniteSet(S), \A x \in S : f[x] \in Int
  PROVE  SumFunctionOnSet(f, S) \in Int
<1> DEFINE B == {T \in SUBSET S : SumFunctionOnSet(f, T) \notin Int}
<1> SUFFICES ASSUME B # {} PROVE FALSE
  OBVIOUS
<1>1. PICK T \in B : \A x \in T : T \ {x} \notin B
  BY FirstFailure
<1>2. T # {}
  BY SumOfNothing
<1>3. One(T) \in T /\ SumFunctionOnSet(f, T) = f[One(T)] + SumFunctionOnSet(f, T \ {One(T)})
  BY <1>2, SumFirst
<1>4. SumFunctionOnSet(f, T \ {One(T)}) \in Int
  BY <1>1, <1>3
<1> QED BY <1>3, <1>4

\* A sum of natural numbers is one.
THEOREM SumIsNat ==
  ASSUME NEW f, NEW S, IsFiniteSet(S), \A x \in S : f[x] \in Nat
  PROVE  SumFunctionOnSet(f, S) \in Nat
<1> DEFINE B == {T \in SUBSET S : SumFunctionOnSet(f, T) \notin Nat}
<1> SUFFICES ASSUME B # {} PROVE FALSE
  OBVIOUS
<1>1. PICK T \in B : \A x \in T : T \ {x} \notin B
  BY FirstFailure
<1>2. T # {}
  BY SumOfNothing
<1>3. One(T) \in T /\ SumFunctionOnSet(f, T) = f[One(T)] + SumFunctionOnSet(f, T \ {One(T)})
  BY <1>2, SumFirst
<1>4. SumFunctionOnSet(f, T \ {One(T)}) \in Nat
  BY <1>1, <1>3
<1> QED BY <1>3, <1>4

\* The order makes no difference: any element may be taken out.
THEOREM SumTake ==
  ASSUME NEW f, NEW S, IsFiniteSet(S), \A x \in S : f[x] \in Int, NEW x \in S
  PROVE  SumFunctionOnSet(f, S) = f[x] + SumFunctionOnSet(f, S \ {x})
<1> DEFINE sum(T) == SumFunctionOnSet(f, T)
           B == {T \in SUBSET S : \E y \in T : sum(T) # f[y] + sum(T \ {y})}
<1> SUFFICES ASSUME B # {} PROVE FALSE
  OBVIOUS
<1>1. PICK T \in B : \A y \in T : T \ {y} \notin B
  BY FirstFailure
<1>2. PICK y \in T : sum(T) # f[y] + sum(T \ {y})
  OBVIOUS
<1> DEFINE z == One(T)
<1>3. z \in T /\ sum(T) = f[z] + sum(T \ {z})
  BY <1>2, SumFirst
<1>4. z # y
  BY <1>2, <1>3
<1>5. sum(T \ {z}) = f[y] + sum((T \ {z}) \ {y}) /\ sum(T \ {y}) = f[z] + sum((T \ {y}) \ {z})
  BY <1>1, <1>2, <1>3, <1>4
<1>6. (T \ {z}) \ {y} = (T \ {y}) \ {z}
  OBVIOUS
<1>7. sum((T \ {y}) \ {z}) \in Int
  <2>1. IsFiniteSet((T \ {y}) \ {z})
    BY Subsets
  <2>2. \A u \in (T \ {y}) \ {z} : f[u] \in Int
    OBVIOUS
  <2> QED BY <2>1, <2>2, SumIsInt
<1>8. f[y] \in Int /\ f[z] \in Int
  BY <1>2, <1>3
<1> HIDE DEF z, sum
<1> QED BY <1>2, <1>3, <1>5, <1>6, <1>7, <1>8

\* One element more.
THEOREM SumAdd ==
  ASSUME NEW f, NEW S, IsFiniteSet(S), NEW x, x \notin S, \A y \in S \cup {x} : f[y] \in Int
  PROVE  SumFunctionOnSet(f, S \cup {x}) = f[x] + SumFunctionOnSet(f, S)
<1>1. IsFiniteSet(S \cup {x})
  BY FS_AddElement
<1>2. (S \cup {x}) \ {x} = S
  OBVIOUS
<1> QED BY <1>1, <1>2, SumTake

\* Functions that agree on a set have the same sum over it.
THEOREM SumSame ==
  ASSUME NEW f, NEW g, NEW S, IsFiniteSet(S), \A x \in S : f[x] = g[x]
  PROVE  SumFunctionOnSet(f, S) = SumFunctionOnSet(g, S)
<1> DEFINE B == {T \in SUBSET S : SumFunctionOnSet(f, T) # SumFunctionOnSet(g, T)}
<1> SUFFICES ASSUME B # {} PROVE FALSE
  OBVIOUS
<1>1. PICK T \in B : \A x \in T : T \ {x} \notin B
  BY FirstFailure
<1>2. T # {}
  BY SumOfNothing
<1>3. /\ One(T) \in T
      /\ SumFunctionOnSet(f, T) = f[One(T)] + SumFunctionOnSet(f, T \ {One(T)})
      /\ SumFunctionOnSet(g, T) = g[One(T)] + SumFunctionOnSet(g, T \ {One(T)})
  BY <1>2, SumFirst
<1>4. SumFunctionOnSet(f, T \ {One(T)}) = SumFunctionOnSet(g, T \ {One(T)})
  BY <1>1, <1>3
<1> QED BY <1>3, <1>4

\* Zeros add up to zero.
THEOREM SumOfZeros ==
  ASSUME NEW f, NEW S, IsFiniteSet(S), \A x \in S : f[x] = 0
  PROVE  SumFunctionOnSet(f, S) = 0
<1> DEFINE B == {T \in SUBSET S : SumFunctionOnSet(f, T) # 0}
<1> SUFFICES ASSUME B # {} PROVE FALSE
  OBVIOUS
<1>1. PICK T \in B : \A x \in T : T \ {x} \notin B
  BY FirstFailure
<1>2. T # {}
  BY SumOfNothing
<1>3. One(T) \in T /\ SumFunctionOnSet(f, T) = f[One(T)] + SumFunctionOnSet(f, T \ {One(T)})
  BY <1>2, SumFirst
<1>4. SumFunctionOnSet(f, T \ {One(T)}) = 0
  BY <1>1, <1>3
<1> QED BY <1>3, <1>4

\* One value changes, and so does the sum, by as much.
THEOREM SumChange ==
  ASSUME NEW f, NEW g, NEW S, IsFiniteSet(S), NEW x \in S, \A y \in S : f[y] \in Int,
         g[x] \in Int, \A y \in S \ {x} : g[y] = f[y]
  PROVE  SumFunctionOnSet(g, S) = SumFunctionOnSet(f, S) + (g[x] - f[x])
<1>1. SumFunctionOnSet(f, S) = f[x] + SumFunctionOnSet(f, S \ {x})
  BY SumTake
<1>2. SumFunctionOnSet(g, S) = g[x] + SumFunctionOnSet(g, S \ {x})
  <2>1. \A y \in S : g[y] \in Int
    OBVIOUS
  <2> QED BY <2>1, SumTake
<1>3. SumFunctionOnSet(g, S \ {x}) = SumFunctionOnSet(f, S \ {x})
  <2>1. IsFiniteSet(S \ {x})
    BY Subsets
  <2> QED BY <2>1, SumSame
<1>4. SumFunctionOnSet(f, S \ {x}) \in Int
  <2>1. IsFiniteSet(S \ {x})
    BY Subsets
  <2> QED BY <2>1, SumIsInt
<1> QED BY <1>1, <1>2, <1>3, <1>4

\* A value is added to, or put into, a function.
THEOREM SumGrow ==
  ASSUME NEW f, NEW g, NEW S, IsFiniteSet(S), NEW x, NEW n \in Int, \A y \in S : f[y] \in Int,
         g[x] = (IF x \in S THEN f[x] ELSE 0) + n, \A y \in S \ {x} : g[y] = f[y]
  PROVE  SumFunctionOnSet(g, S \cup {x}) = SumFunctionOnSet(f, S) + n
<1>0. SumFunctionOnSet(f, S) \in Int
  BY SumIsInt
<1>1. CASE x \in S
  <2>1. g[x] = f[x] + n /\ f[x] \in Int /\ S \cup {x} = S
    BY <1>1
  <2>2. g[x] \in Int /\ g[x] - f[x] = n
    BY <2>1
  <2>3. SumFunctionOnSet(g, S) = SumFunctionOnSet(f, S) + (g[x] - f[x])
    BY <1>1, <2>2, SumChange
  <2> QED BY <2>1, <2>2, <2>3
<1>2. CASE x \notin S
  <2>1. g[x] = n /\ \A y \in S : g[y] = f[y]
    BY <1>2
  <2>2. \A y \in S \cup {x} : g[y] \in Int
    BY <2>1
  <2>3. SumFunctionOnSet(g, S \cup {x}) = g[x] + SumFunctionOnSet(g, S)
    BY <1>2, <2>2, SumAdd
  <2>4. SumFunctionOnSet(g, S) = SumFunctionOnSet(f, S)
    BY <2>1, SumSame
  <2> QED BY <1>0, <2>1, <2>3, <2>4
<1> QED BY <1>1, <1>2

\* A sum over two parts.
THEOREM SumParts ==
  ASSUME NEW f, NEW S, IsFiniteSet(S), \A x \in S : f[x] \in Int, NEW P \in SUBSET S
  PROVE  SumFunctionOnSet(f, S) = SumFunctionOnSet(f, P) + SumFunctionOnSet(f, S \ P)
<1> DEFINE sum(T) == SumFunctionOnSet(f, T)
           B == {T \in SUBSET P : sum(S) # sum(T) + sum(S \ T)}
<1>1. \A T \in SUBSET S : IsFiniteSet(T) /\ sum(T) \in Int
  <2> SUFFICES ASSUME NEW T \in SUBSET S PROVE IsFiniteSet(T) /\ sum(T) \in Int
    OBVIOUS
  <2>1. IsFiniteSet(T)
    BY Subsets
  <2> QED BY <2>1, SumIsInt
<1> SUFFICES ASSUME B # {} PROVE FALSE
  OBVIOUS
<1>2. PICK T \in B : \A x \in T : T \ {x} \notin B
  BY <1>1, FirstFailure
<1>3. sum({}) = 0 /\ S \ {} = S /\ sum(S) \in Int
  BY <1>1, SumOfNothing
<1>4. T # {}
  <2>1. ASSUME T = {} PROVE FALSE
    <3>1. sum(T) = 0
      BY <1>3, <2>1
    <3>2. S \ T = S
      BY <2>1
    <3>3. sum(S \ T) = sum(S)
      BY <3>2
    <3>4. sum(S) = sum(T) + sum(S \ T)
      BY <1>3, <3>1, <3>3
    <3> QED BY <3>4
  <2> QED BY <2>1
<1>5. PICK x \in T : TRUE
  BY <1>4
<1>6. sum(S) = sum(T \ {x}) + sum(S \ (T \ {x}))
  BY <1>2
<1>7. sum(T) = f[x] + sum(T \ {x})
  <2>1. T \in SUBSET S
    OBVIOUS
  <2> QED BY <1>1, <2>1, SumTake
<1>8. sum(S \ (T \ {x})) = f[x] + sum(S \ T)
  <2>1. S \ (T \ {x}) = (S \ T) \cup {x} /\ IsFiniteSet(S \ T) /\ x \notin S \ T
    BY <1>1
  <2>2. \A y \in (S \ T) \cup {x} : f[y] \in Int
    OBVIOUS
  <2>3. sum((S \ T) \cup {x}) = f[x] + sum(S \ T)
    BY <2>1, <2>2, SumAdd
  <2> QED BY <2>1, <2>3
<1>9. sum(T \ {x}) \in Int /\ sum(S \ T) \in Int /\ f[x] \in Int
  BY <1>1
<1> HIDE DEF sum
<1>a. sum(S) = sum(T) + sum(S \ T)
  BY <1>6, <1>7, <1>8, <1>9
<1> QED BY <1>a DEF B

\* A part adds up to no more than the whole.
THEOREM SumOfPart ==
  ASSUME NEW f, NEW S, IsFiniteSet(S), \A x \in S : f[x] \in Nat, NEW P \in SUBSET S
  PROVE  /\ SumFunctionOnSet(f, P) \in Nat /\ SumFunctionOnSet(f, S) \in Nat
         /\ SumFunctionOnSet(f, P) <= SumFunctionOnSet(f, S)
<1>1. IsFiniteSet(P) /\ IsFiniteSet(S \ P)
  BY Subsets
<1>2. SumFunctionOnSet(f, P) \in Nat /\ SumFunctionOnSet(f, S \ P) \in Nat
      /\ SumFunctionOnSet(f, S) \in Nat
  BY <1>1, SumIsNat
<1>3. \A x \in S : f[x] \in Int
  OBVIOUS
<1>4. SumFunctionOnSet(f, S) = SumFunctionOnSet(f, P) + SumFunctionOnSet(f, S \ P)
  BY <1>3, SumParts
<1> QED BY <1>2, <1>4

\* A sum taken group by group, by the value that `key` has.
THEOREM SumGroups ==
  ASSUME NEW f, NEW S, IsFiniteSet(S), \A x \in S : f[x] \in Int,
         NEW key, NEW K, IsFiniteSet(K), \A x \in S : key[x] \in K,
         NEW group, \A k \in K : group[k] \in SUBSET S,
         \A k \in K : \A x \in S : x \in group[k] <=> key[x] = k,
         NEW g, \A k \in K : g[k] = SumFunctionOnSet(f, group[k])
  PROVE  SumFunctionOnSet(g, K) = SumFunctionOnSet(f, S)
<1> DEFINE In(L) == {x \in S : key[x] \in L}
           B == {L \in SUBSET K : SumFunctionOnSet(g, L) # SumFunctionOnSet(f, In(L))}
<1>1. \A T \in SUBSET S : IsFiniteSet(T) /\ SumFunctionOnSet(f, T) \in Int
  <2> SUFFICES ASSUME NEW T \in SUBSET S
               PROVE  IsFiniteSet(T) /\ SumFunctionOnSet(f, T) \in Int
    OBVIOUS
  <2>1. IsFiniteSet(T)
    BY Subsets
  <2> QED BY <2>1, SumIsInt
<1>2. B = {}
  <2> SUFFICES ASSUME B # {} PROVE FALSE
    OBVIOUS
  <2>1. PICK L \in B : \A k \in L : L \ {k} \notin B
    BY FirstFailure
  <2>2. L # {}
    <3>1. In({}) = {}
      OBVIOUS
    <3>2. SumFunctionOnSet(g, {}) = SumFunctionOnSet(f, In({}))
      BY <3>1, SumOfNothing
    <3>3. SumFunctionOnSet(g, L) # SumFunctionOnSet(f, In(L))
      BY <2>1
    <3> HIDE DEF In
    <3> QED BY <3>2, <3>3
  <2>3. PICK k \in L : TRUE
    BY <2>2
  <2> DEFINE G == group[k]
  <2>4. g[k] = SumFunctionOnSet(f, G)
    OBVIOUS
  <2>5. SumFunctionOnSet(g, L \ {k}) = SumFunctionOnSet(f, In(L \ {k}))
    BY <2>1
  <2>6. SumFunctionOnSet(g, L) = g[k] + SumFunctionOnSet(g, L \ {k})
    <3>1. IsFiniteSet(L)
      BY Subsets
    <3>2. \A l \in L : group[l] \in SUBSET S
      OBVIOUS
    <3>3. \A l \in L : g[l] \in Int
      BY <1>1, <3>2
    <3> QED BY <3>1, <3>3, SumTake
  <2>7. SumFunctionOnSet(f, In(L)) = SumFunctionOnSet(f, G) + SumFunctionOnSet(f, In(L \ {k}))
    <3>1. IsFiniteSet(In(L)) /\ G \in SUBSET In(L) /\ In(L) \ G = In(L \ {k})
      BY <1>1
    <3>2. \A x \in In(L) : f[x] \in Int
      OBVIOUS
    <3>3. SumFunctionOnSet(f, In(L)) = SumFunctionOnSet(f, G) + SumFunctionOnSet(f, In(L) \ G)
      <4> HIDE DEF G, In
      <4> QED BY <3>1, <3>2, SumParts
    <3> QED BY <3>1, <3>3
  <2>8. SumFunctionOnSet(g, L) = SumFunctionOnSet(f, In(L))
    BY <2>4, <2>5, <2>6, <2>7
  <2> QED BY <2>8
<1>3. In(K) = S
  OBVIOUS
<1>4. SumFunctionOnSet(g, K) = SumFunctionOnSet(f, In(K))
  BY <1>2
<1> QED BY <1>3, <1>4

=============================================================================
