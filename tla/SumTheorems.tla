---------------------------- MODULE SumTheorems ----------------------------
(***************************************************************************)
(* What the proofs about balances need of SumFunctionOnSet, the sum of a   *)
(* function over a finite set: it is what its recursion says, every member *)
(* contributes once in whatever order, and only what changes changes it.   *)
(*                                                                         *)
(* Induction over a finite set is stated for a set of its subsets instead  *)
(* of a predicate: strict inclusion is well-founded on them.               *)
(***************************************************************************)
EXTENDS Integers, Functions, FiniteSetTheorems, TLAPS

\* Among subsets of a finite set some one includes no other.
LEMMA LeastSubset ==
    ASSUME NEW S, IsFiniteSet(S), NEW Family \in SUBSET (SUBSET S), Family # {}
    PROVE  \E A \in Family : \A B \in Family : B \subseteq A => B = A
    <1>1. Family \subseteq FiniteSubsetsOf(S)
        BY FS_FiniteSubsetsOfFinite
    <1>2. PICK A \in Family : \A B \in Family : <<B, A>> \notin StrictSubsetOrdering(S)
        BY <1>1, FS_StrictSubsetOrderingWellFounded, WFMin
    <1>3. ASSUME NEW B \in Family, B \subseteq A PROVE B = A
        BY <1>2, <1>3 DEF StrictSubsetOrdering
    <1>. QED
        BY <1>3

\* A family of subsets that has a set whenever it has all those that lack one
\* member of it has them all.
LEMMA SetInduction ==
    ASSUME NEW S, IsFiniteSet(S), NEW Good,
           \A T \in SUBSET S : (\A x \in T : T \ {x} \in Good) => T \in Good
    PROVE  S \in Good
    <1>. SUFFICES ASSUME S \notin Good PROVE FALSE
        OBVIOUS
    <1>. DEFINE Bad == {T \in SUBSET S : T \notin Good}
    <1>1. Bad \in SUBSET (SUBSET S) /\ Bad # {}
        OBVIOUS
    <1>. HIDE DEF Bad
    <1>2. PICK T \in Bad : \A U \in Bad : U \subseteq T => U = T
        BY <1>1, LeastSubset
    <1>3. T \in SUBSET S /\ T \notin Good
        BY DEF Bad
    <1>4. ASSUME NEW x \in T PROVE T \ {x} \in Good
        BY <1>2, <1>3, <1>4 DEF Bad
    <1>. QED
        BY <1>3, <1>4

-----------------------------------------------------------------------------
(* The recursion is well-defined                                             *)

First(s) == CHOOSE x \in s : TRUE

\* A set that is not empty has a first element.
LEMMA FirstIsMember == ASSUME NEW s, s # {} PROVE First(s) \in s
BY DEF First

\* g sums f over every subset of S.
Sums(f, S, g) ==
    g = [s \in SUBSET S |-> IF s = {} THEN 0 ELSE f[First(s)] + g[s \ {First(s)}]]

\* The recursion by which the sum is defined, taken apart.
LEMMA SumByRecursion ==
    ASSUME NEW f, NEW S
    PROVE  SumFunctionOnSet(f, S) = (CHOOSE g : Sums(f, S, g))[S]
BY DEF SumFunctionOnSet, FoldFunctionOnSet, MapThenFoldSet, Sums, First

\* Two such functions agree where both are defined.
LEMMA SumsAgree ==
    ASSUME NEW f, NEW A, NEW B, NEW g, NEW h, Sums(f, A, g), Sums(f, B, h),
           NEW S, IsFiniteSet(S), S \subseteq A, S \subseteq B
    PROVE  g[S] = h[S]
    <1>. DEFINE Good == {T \in SUBSET S : g[T] = h[T]}
    <1>1. ASSUME NEW T \in SUBSET S, \A x \in T : T \ {x} \in Good
          PROVE  T \in Good
        <2>1. CASE T = {}
            BY <2>1 DEF Sums
        <2>2. CASE T # {}
            <3>1. T \ {First(T)} \in Good
                BY <1>1, <2>2, FirstIsMember
            <3>2. g[T] = f[First(T)] + g[T \ {First(T)}] /\ h[T] = f[First(T)] + h[T \ {First(T)}]
                BY <2>2 DEF Sums
            <3>. QED
                BY <3>1, <3>2
        <2>. QED
            BY <2>1, <2>2
    <1>. HIDE DEF Good
    <1>2. S \in Good
        BY <1>1, SetInduction
    <1>. QED
        BY <1>2 DEF Good

\* And there is one.
LEMMA SumsExists ==
    ASSUME NEW f, NEW S, IsFiniteSet(S)
    PROVE  \E g : Sums(f, S, g)
    <1>. DEFINE Good == {T \in SUBSET S : \A B \in SUBSET T : \E g : Sums(f, B, g)}
    <1>1. ASSUME NEW A \in SUBSET S, \A x \in A : A \ {x} \in Good
          PROVE  A \in Good
        <2>. DEFINE part == [B \in SUBSET A |-> CHOOSE g : Sums(f, B, g)]
                    g == [s \in SUBSET A |-> IF s = {} THEN 0
                            ELSE f[First(s)] + part[s \ {First(s)}][s \ {First(s)}]]
        <2>1. ASSUME NEW B \in SUBSET A, B # A PROVE Sums(f, B, part[B])
            <3>1. PICK x \in A : x \notin B
                BY <2>1
            <3>2. B \in SUBSET (A \ {x})
                BY <3>1
            <3>3. \E h : Sums(f, B, h)
                BY <1>1, <3>1, <3>2
            <3>. QED
                BY <3>3
        <2>2. ASSUME NEW t \in SUBSET A, t # A PROVE g[t] = part[t][t]
            <3>1. Sums(f, t, part[t])
                BY <2>1, <2>2
            <3>2. CASE t = {}
                BY <3>1, <3>2 DEF Sums
            <3>3. CASE t # {}
                <4>. DEFINE u == t \ {First(t)}
                <4>1. First(t) \in t
                    BY <3>3, FirstIsMember
                <4>2. u \in SUBSET A /\ u # A /\ IsFiniteSet(u)
                    BY <4>1, FS_Subset
                <4>3. Sums(f, u, part[u])
                    BY <2>1, <4>2
                <4>4. part[u][u] = part[t][u]
                    BY <3>1, <4>2, <4>3, SumsAgree
                <4>5. part[t][t] = f[First(t)] + part[t][u]
                    BY <3>1, <3>3 DEF Sums
                <4>. QED
                    BY <3>3, <4>4, <4>5
            <3>. QED
                BY <3>2, <3>3
        <2>3. ASSUME NEW s \in SUBSET A, s # {}
              PROVE  g[s] = f[First(s)] + g[s \ {First(s)}]
            <3>1. s \ {First(s)} \in SUBSET A /\ s \ {First(s)} # A
                BY <2>3, FirstIsMember
            <3>2. g[s \ {First(s)}] = part[s \ {First(s)}][s \ {First(s)}]
                BY <2>2, <3>1
            <3>. QED
                BY <2>3, <3>2
        <2>4. Sums(f, A, g)
            <3>. HIDE DEF part
            <3>1. g = [s \in SUBSET A |-> IF s = {} THEN 0 ELSE f[First(s)] + g[s \ {First(s)}]]
                BY <2>3
            <3>. QED
                BY <3>1 DEF Sums
        <2>5. \A B \in SUBSET A : \E h : Sums(f, B, h)
            <3>. HIDE DEF g, part
            <3>. QED
                BY <2>1, <2>4
        <2>. QED
            BY <2>5
    <1>. HIDE DEF Good
    <1>2. S \in Good
        BY <1>1, SetInduction
    <1>. QED
        BY <1>2 DEF Good

\* The sum of nothing is zero.
LEMMA SumEmpty == ASSUME NEW f PROVE SumFunctionOnSet(f, {}) = 0
    <1>1. Sums(f, {}, CHOOSE g : Sums(f, {}, g))
        BY SumsExists, FS_EmptySet
    <1>. QED
        BY <1>1, SumByRecursion DEF Sums

\* A sum is its first summand and the sum of the others.
LEMMA SumFirst ==
    ASSUME NEW f, NEW S, IsFiniteSet(S), S # {}
    PROVE  SumFunctionOnSet(f, S) = f[First(S)] + SumFunctionOnSet(f, S \ {First(S)})
    <1>. DEFINE T == S \ {First(S)}
                g == CHOOSE h : Sums(f, S, h)
                r == CHOOSE h : Sums(f, T, h)
    <1>1. IsFiniteSet(T)
        BY FS_Subset
    <1>2. Sums(f, S, g) /\ Sums(f, T, r)
        BY <1>1, SumsExists
    <1>3. g[T] = r[T]
        BY <1>1, <1>2, SumsAgree
    <1>4. g[S] = f[First(S)] + g[T]
        BY <1>2 DEF Sums
    <1>5. SumFunctionOnSet(f, S) = g[S] /\ SumFunctionOnSet(f, T) = r[T]
        BY SumByRecursion
    <1>. QED
        BY <1>3, <1>4, <1>5

-----------------------------------------------------------------------------
(* What a sum is, in whatever order its members are taken                    *)

\* A sum of integers is one.
LEMMA SumType ==
    ASSUME NEW S, IsFiniteSet(S), NEW f, \A x \in S : f[x] \in Int
    PROVE  SumFunctionOnSet(f, S) \in Int
    <1>. DEFINE Good == {T \in SUBSET S : SumFunctionOnSet(f, T) \in Int}
    <1>1. ASSUME NEW T \in SUBSET S, \A x \in T : T \ {x} \in Good PROVE T \in Good
        <2>1. CASE T = {}
            BY <2>1, SumEmpty
        <2>2. CASE T # {}
            <3>1. First(T) \in T /\ T \ {First(T)} \in Good
                BY <1>1, <2>2, FirstIsMember
            <3>2. SumFunctionOnSet(f, T) = f[First(T)] + SumFunctionOnSet(f, T \ {First(T)})
                BY <2>2, FS_Subset, SumFirst
            <3>. QED
                BY <3>1, <3>2
        <2>. QED
            BY <2>1, <2>2
    <1>. HIDE DEF Good
    <1>2. S \in Good
        BY <1>1, SetInduction
    <1>. QED
        BY <1>2 DEF Good

\* A sum of natural numbers is one.
LEMMA SumNatural ==
    ASSUME NEW S, IsFiniteSet(S), NEW f, \A x \in S : f[x] \in Nat
    PROVE  SumFunctionOnSet(f, S) \in Nat
    <1>. DEFINE Good == {T \in SUBSET S : SumFunctionOnSet(f, T) \in Nat}
    <1>1. ASSUME NEW T \in SUBSET S, \A x \in T : T \ {x} \in Good PROVE T \in Good
        <2>1. CASE T = {}
            BY <2>1, SumEmpty
        <2>2. CASE T # {}
            <3>1. First(T) \in T /\ T \ {First(T)} \in Good
                BY <1>1, <2>2, FirstIsMember
            <3>2. SumFunctionOnSet(f, T) = f[First(T)] + SumFunctionOnSet(f, T \ {First(T)})
                BY <2>2, FS_Subset, SumFirst
            <3>. QED
                BY <3>1, <3>2
        <2>. QED
            BY <2>1, <2>2
    <1>. HIDE DEF Good
    <1>2. S \in Good
        BY <1>1, SetInduction
    <1>. QED
        BY <1>2 DEF Good

\* Any member may be taken first.
LEMMA SumAny ==
    ASSUME NEW S, IsFiniteSet(S), NEW f, \A x \in S : f[x] \in Int, NEW x \in S
    PROVE  SumFunctionOnSet(f, S) = f[x] + SumFunctionOnSet(f, S \ {x})
    <1>. DEFINE Good == {T \in SUBSET S : \A y \in T :
                    SumFunctionOnSet(f, T) = f[y] + SumFunctionOnSet(f, T \ {y})}
    <1>1. ASSUME NEW T \in SUBSET S, \A y \in T : T \ {y} \in Good PROVE T \in Good
        <2>. SUFFICES ASSUME NEW y \in T
                      PROVE  SumFunctionOnSet(f, T) = f[y] + SumFunctionOnSet(f, T \ {y})
            OBVIOUS
        <2>. DEFINE z == First(T)
                    rest == (T \ {y}) \ {z}
        <2>1. z \in T
            BY FirstIsMember
        <2>2. SumFunctionOnSet(f, T) = f[z] + SumFunctionOnSet(f, T \ {z})
            BY SumFirst, FS_Subset
        <2>3. CASE y = z
            BY <2>2, <2>3
        <2>4. CASE y # z
            <3>1. SumFunctionOnSet(f, T \ {z}) = f[y] + SumFunctionOnSet(f, (T \ {z}) \ {y})
                BY <1>1, <2>1, <2>4
            <3>2. SumFunctionOnSet(f, T \ {y}) = f[z] + SumFunctionOnSet(f, rest)
                BY <1>1, <2>1, <2>4
            <3>3. (T \ {z}) \ {y} = rest
                OBVIOUS
            <3>4. /\ SumFunctionOnSet(f, rest) \in Int
                  /\ f[y] \in Int /\ f[z] \in Int
                BY <2>1, FS_Subset, SumType
            <3>5. SumFunctionOnSet(f, T \ {z}) = f[y] + SumFunctionOnSet(f, rest)
                BY <3>1, <3>3
            <3>. HIDE DEF z, rest
            <3>. QED
                BY <2>2, <3>2, <3>4, <3>5
        <2>. QED
            BY <2>3, <2>4
    <1>. HIDE DEF Good
    <1>2. S \in Good
        BY <1>1, SetInduction
    <1>. QED
        BY <1>2 DEF Good

\* A sum with one more member.
LEMMA SumAdd ==
    ASSUME NEW S, IsFiniteSet(S), NEW f, NEW x, x \notin S, \A y \in S \cup {x} : f[y] \in Int
    PROVE  SumFunctionOnSet(f, S \cup {x}) = f[x] + SumFunctionOnSet(f, S)
    <1>1. IsFiniteSet(S \cup {x}) /\ (S \cup {x}) \ {x} = S
        BY FS_AddElement
    <1>. QED
        BY <1>1, SumAny

-----------------------------------------------------------------------------
(* Sums of related functions                                                 *)

\* Only the values on the set count.
LEMMA SumCongruence ==
    ASSUME NEW S, IsFiniteSet(S), NEW f, NEW g, \A x \in S : f[x] = g[x]
    PROVE  SumFunctionOnSet(f, S) = SumFunctionOnSet(g, S)
    <1>. DEFINE Good == {T \in SUBSET S : SumFunctionOnSet(f, T) = SumFunctionOnSet(g, T)}
    <1>1. ASSUME NEW T \in SUBSET S, \A x \in T : T \ {x} \in Good PROVE T \in Good
        <2>1. CASE T = {}
            BY <2>1, SumEmpty
        <2>2. CASE T # {}
            <3>1. First(T) \in T /\ T \ {First(T)} \in Good
                BY <1>1, <2>2, FirstIsMember
            <3>2. /\ SumFunctionOnSet(f, T) = f[First(T)] + SumFunctionOnSet(f, T \ {First(T)})
                  /\ SumFunctionOnSet(g, T) = g[First(T)] + SumFunctionOnSet(g, T \ {First(T)})
                BY <2>2, FS_Subset, SumFirst
            <3>. QED
                BY <3>1, <3>2
        <2>. QED
            BY <2>1, <2>2
    <1>. HIDE DEF Good
    <1>2. S \in Good
        BY <1>1, SetInduction
    <1>. QED
        BY <1>2 DEF Good

\* Values add up member by member.
LEMMA SumPlus ==
    ASSUME NEW S, IsFiniteSet(S), NEW f, NEW g, NEW h,
           \A x \in S : f[x] \in Int /\ g[x] \in Int /\ h[x] = f[x] + g[x]
    PROVE  SumFunctionOnSet(h, S) = SumFunctionOnSet(f, S) + SumFunctionOnSet(g, S)
    <1>. DEFINE Good == {T \in SUBSET S : SumFunctionOnSet(h, T)
                            = SumFunctionOnSet(f, T) + SumFunctionOnSet(g, T)}
    <1>1. ASSUME NEW T \in SUBSET S, \A x \in T : T \ {x} \in Good PROVE T \in Good
        <2>1. CASE T = {}
            BY <2>1, SumEmpty
        <2>2. CASE T # {}
            <3>. DEFINE z == First(T)
                        rest == T \ {z}
            <3>1. z \in T /\ rest \in Good
                BY <1>1, <2>2, FirstIsMember
            <3>2. /\ SumFunctionOnSet(f, T) = f[z] + SumFunctionOnSet(f, rest)
                  /\ SumFunctionOnSet(g, T) = g[z] + SumFunctionOnSet(g, rest)
                  /\ SumFunctionOnSet(h, T) = h[z] + SumFunctionOnSet(h, rest)
                BY <2>2, SumFirst, FS_Subset
            <3>3. SumFunctionOnSet(f, rest) \in Int /\ SumFunctionOnSet(g, rest) \in Int
                BY FS_Subset, SumType
            <3>4. SumFunctionOnSet(h, rest)
                    = SumFunctionOnSet(f, rest) + SumFunctionOnSet(g, rest)
                BY <3>1
            <3>5. f[z] \in Int /\ g[z] \in Int /\ h[z] = f[z] + g[z]
                BY <3>1
            <3>. HIDE DEF z, rest
            <3>6. SumFunctionOnSet(h, T) = SumFunctionOnSet(f, T) + SumFunctionOnSet(g, T)
                BY <3>2, <3>3, <3>4, <3>5
            <3>. QED
                BY <3>6
        <2>. QED
            BY <2>1, <2>2
    <1>. HIDE DEF Good
    <1>2. S \in Good
        BY <1>1, SetInduction
    <1>. QED
        BY <1>2 DEF Good

\* Only the part on which the function is not zero counts.
LEMMA SumOfPart ==
    ASSUME NEW S, IsFiniteSet(S), NEW T \in SUBSET S, NEW f,
           \A x \in T : f[x] \in Int, \A x \in S \ T : f[x] = 0
    PROVE  SumFunctionOnSet(f, S) = SumFunctionOnSet(f, T)
    <1>. DEFINE Good == {U \in SUBSET S :
                            SumFunctionOnSet(f, U) = SumFunctionOnSet(f, U \cap T)}
    <1>1. ASSUME NEW U \in SUBSET S, \A x \in U : U \ {x} \in Good PROVE U \in Good
        <2>1. CASE U \cap T = U
            BY <2>1
        <2>2. CASE U \cap T # U
            <3>1. PICK x \in U : x \notin T
                BY <2>2
            <3>2. (U \ {x}) \cap T = U \cap T
                BY <3>1
            <3>3. f[x] = 0 /\ \A y \in U : f[y] \in Int
                BY <3>1
            <3>4. SumFunctionOnSet(f, U) = f[x] + SumFunctionOnSet(f, U \ {x})
                BY <3>3, FS_Subset, SumAny
            <3>5. SumFunctionOnSet(f, U \ {x}) \in Int
                BY <3>3, FS_Subset, SumType
            <3>6. SumFunctionOnSet(f, U \ {x}) = SumFunctionOnSet(f, U \cap T)
                BY <1>1, <3>1, <3>2
            <3>. QED
                BY <3>3, <3>4, <3>5, <3>6
        <2>. QED
            BY <2>1, <2>2
    <1>. HIDE DEF Good
    <1>2. S \in Good
        BY <1>1, SetInduction
    <1>3. S \cap T = T
        OBVIOUS
    <1>. QED
        BY <1>2, <1>3 DEF Good

\* Nothing adds up to nothing.
LEMMA SumZero ==
    ASSUME NEW S, IsFiniteSet(S), NEW f, \A x \in S : f[x] = 0
    PROVE  SumFunctionOnSet(f, S) = 0
BY SumOfPart, SumEmpty

\* When one value changes, the sum changes by as much.
LEMMA SumChange ==
    ASSUME NEW S, IsFiniteSet(S), NEW f, NEW g, NEW x \in S,
           \A y \in S : f[y] \in Int, g[x] \in Int, \A y \in S \ {x} : g[y] = f[y]
    PROVE  SumFunctionOnSet(g, S) = SumFunctionOnSet(f, S) + g[x] - f[x]
    <1>1. \A y \in S : g[y] \in Int
        OBVIOUS
    <1>2. IsFiniteSet(S \ {x})
        BY FS_Subset
    <1>3. /\ SumFunctionOnSet(f, S) = f[x] + SumFunctionOnSet(f, S \ {x})
          /\ SumFunctionOnSet(g, S) = g[x] + SumFunctionOnSet(g, S \ {x})
        BY <1>1, SumAny
    <1>4. SumFunctionOnSet(g, S \ {x}) = SumFunctionOnSet(f, S \ {x})
        BY <1>2, SumCongruence
    <1>5. SumFunctionOnSet(f, S \ {x}) \in Int
        BY <1>2, SumType
    <1>. QED
        BY <1>3, <1>4, <1>5

\* The sum over an image is the sum over what is mapped, one to one.
LEMMA SumImage ==
    ASSUME NEW I, IsFiniteSet(I), NEW k, NEW f, NEW g,
           \A i \in I : f[i] \in Int /\ g[k[i]] = f[i],
           \A i, j \in I : k[i] = k[j] => i = j
    PROVE  SumFunctionOnSet(g, {k[i] : i \in I}) = SumFunctionOnSet(f, I)
    <1>. DEFINE Image(J) == {k[i] : i \in J}
                Good == {J \in SUBSET I :
                            SumFunctionOnSet(g, Image(J)) = SumFunctionOnSet(f, J)}
    <1>1. ASSUME NEW J \in SUBSET I, \A i \in J : J \ {i} \in Good PROVE J \in Good
        <2>1. CASE J = {}
            BY <2>1, SumEmpty
        <2>2. CASE J # {}
            <3>1. PICK i \in J : TRUE
                BY <2>2
            <3>2. Image(J \ {i}) = Image(J) \ {k[i]} /\ k[i] \in Image(J)
                OBVIOUS
            <3>3. IsFiniteSet(Image(J)) /\ IsFiniteSet(J)
                <4>1. IsFiniteSet(J)
                    BY FS_Subset
                <4>2. [j \in J |-> k[j]] \in Surjection(J, Image(J))
                    BY DEF Surjection
                <4>. QED
                    BY <4>1, <4>2, FS_Surjection
            <3>4. \A y \in Image(J) : g[y] \in Int
                OBVIOUS
            <3>. HIDE DEF Image
            <3>5. SumFunctionOnSet(g, Image(J)) = g[k[i]] + SumFunctionOnSet(g, Image(J) \ {k[i]})
                BY <3>2, <3>3, <3>4, SumAny
            <3>6. SumFunctionOnSet(f, J) = f[i] + SumFunctionOnSet(f, J \ {i})
                BY <3>3, SumAny
            <3>7. SumFunctionOnSet(g, Image(J) \ {k[i]}) = SumFunctionOnSet(f, J \ {i})
                BY <1>1, <3>2
            <3>. QED
                BY <3>5, <3>6, <3>7
        <2>. QED
            BY <2>1, <2>2
    <1>. HIDE DEF Good
    <1>2. I \in Good
        BY <1>1, SetInduction
    <1>. QED
        BY <1>2 DEF Good

\* The members of a set are counted by a sum of ones.
LEMMA SumCounts ==
    ASSUME NEW S, IsFiniteSet(S), NEW T \in SUBSET S, NEW f,
           \A x \in S : f[x] = IF x \in T THEN 1 ELSE 0
    PROVE  SumFunctionOnSet(f, S) = Cardinality(T)
    <1>. DEFINE Good == {U \in SUBSET T : SumFunctionOnSet(f, U) = Cardinality(U)}
    <1>1. IsFiniteSet(T)
        BY FS_Subset
    <1>2. ASSUME NEW U \in SUBSET T, \A x \in U : U \ {x} \in Good PROVE U \in Good
        <2>1. CASE U = {}
            BY <2>1, SumEmpty, FS_EmptySet
        <2>2. CASE U # {}
            <3>1. PICK x \in U : TRUE
                BY <2>2
            <3>2. IsFiniteSet(U)
                BY <1>1, FS_Subset
            <3>3. Cardinality(U) = 1 + Cardinality(U \ {x})
                <4>1. Cardinality(U \ {x}) = Cardinality(U) - 1
                    BY <3>2, FS_RemoveElement
                <4>2. Cardinality(U) \in Nat
                    BY <3>2, FS_CardinalityType
                <4>. QED
                    BY <4>1, <4>2
            <3>4. SumFunctionOnSet(f, U) = f[x] + SumFunctionOnSet(f, U \ {x})
                BY <3>2, SumAny
            <3>. QED
                BY <1>2, <3>3, <3>4
        <2>. QED
            BY <2>1, <2>2
    <1>. HIDE DEF Good
    <1>3. T \in Good
        BY <1>1, <1>2, SetInduction
    <1>4. SumFunctionOnSet(f, S) = SumFunctionOnSet(f, T)
        BY SumOfPart
    <1>. QED
        BY <1>3, <1>4 DEF Good
=============================================================================
