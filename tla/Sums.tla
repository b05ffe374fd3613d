-------------------------------- MODULE Sums --------------------------------
(***************************************************************************)
(* What the proofs of the contracts need to know of a sum over a finite    *)
(* set, SumFunctionOnSet(f, S) of the community module Functions: it is    *)
(* defined by a recursive function under CHOOSE, which exists and is       *)
(* unique on a finite set.  Induction over the subsets of a finite set is  *)
(* induction over a set of subsets, by its smallest counterexample.        *)
(***************************************************************************)
EXTENDS Integers, FiniteSets, Functions, FiniteSetTheorems, WellFoundedInduction, TLAPS

\* The element that the fold takes out of s first.
Pick(s) == CHOOSE x \in s : TRUE

\* The equation of the recursive function behind SumFunctionOnSet, on the
\* subsets of S.
SumsOf(g, f, S) ==
  g = [s \in SUBSET S |-> IF s = {} THEN 0 ELSE f[Pick(s)] + g[s \ {Pick(s)}]]

\* A sum is the value of such a function.
LEMMA SumUnfolds ==
  ASSUME NEW f, NEW S
  PROVE  SumFunctionOnSet(f, S) = (CHOOSE g : SumsOf(g, f, S))[S]
BY DEF SumFunctionOnSet, FoldFunctionOnSet, MapThenFoldSet, SumsOf, Pick

\* Among the subsets of a finite set with a property, one is smallest.
LEMMA Smallest ==
  ASSUME NEW S, IsFiniteSet(S), NEW B \in SUBSET SUBSET S, B # {}
  PROVE  \E T \in B : \A U \in B : ~ (U \subseteq T /\ U # T)
<1>1. IsWellFoundedOn(StrictSubsetOrdering(S), SUBSET S)
  BY FS_StrictSubsetOrderingWellFounded, FS_FiniteSubsetsOfFinite
<1>2. PICK T \in B : \A U \in B : <<U, T>> \notin StrictSubsetOrdering(S)
  BY <1>1, WFMin
<1> QED BY <1>2 DEF StrictSubsetOrdering

\* Two functions that obey the equation agree where both are defined.
LEMMA SumsAgree ==
  ASSUME NEW f, NEW A, NEW C, IsFiniteSet(A), NEW g, NEW h, SumsOf(g, f, A), SumsOf(h, f, C),
         NEW s \in SUBSET A, s \in SUBSET C
  PROVE  g[s] = h[s]
<1> DEFINE Bad == {t \in SUBSET A : t \in SUBSET C /\ g[t] # h[t]}
<1> SUFFICES ASSUME Bad # {} PROVE FALSE
  OBVIOUS
<1>1. PICK t \in Bad : \A u \in Bad : ~ (u \subseteq t /\ u # t)
  <2>1. Bad \in SUBSET SUBSET A
    OBVIOUS
  <2> HIDE DEF Bad
  <2> QED BY <2>1, Smallest
<1>2. CASE t = {}
  BY <1>1, <1>2 DEF SumsOf
<1>3. CASE t # {}
  <2>1. Pick(t) \in t
    BY <1>3 DEF Pick
  <2> DEFINE r == t \ {Pick(t)}
  <2>2. g[t] = f[Pick(t)] + g[r] /\ h[t] = f[Pick(t)] + h[r]
    BY <1>1, <1>3 DEF SumsOf
  <2>3. g[r] = h[r]
    BY <1>1, <2>1
  <2> QED BY <1>1, <2>2, <2>3
<1> QED BY <1>2, <1>3

\* The recursion is well founded on a finite set: such a function exists.
LEMMA SumsExist ==
  ASSUME NEW f, NEW S, IsFiniteSet(S)
  PROVE  \E g : SumsOf(g, f, S)
<1> DEFINE Bad == {t \in SUBSET S : ~ \E g : SumsOf(g, f, t)}
<1> SUFFICES ASSUME Bad # {} PROVE FALSE
  OBVIOUS
<1>1. PICK t \in Bad : \A u \in Bad : ~ (u \subseteq t /\ u # t)
  <2>1. Bad \in SUBSET SUBSET S
    OBVIOUS
  <2> HIDE DEF Bad
  <2> QED BY <2>1, Smallest
<1> DEFINE sums(u) == CHOOSE g : SumsOf(g, f, u)
<1>2. \A u \in SUBSET t : u # t => SumsOf(sums(u), f, u)
  BY <1>1
<1> DEFINE rest(s) == s \ {Pick(s)}
           g == [s \in SUBSET t |->
                   IF s = {} THEN 0 ELSE f[Pick(s)] + sums(rest(s))[rest(s)]]
<1>3. \A s \in SUBSET t : s # {} => rest(s) \in SUBSET t /\ rest(s) # t /\ rest(s) # s
  BY DEF Pick
<1>4. ASSUME NEW s \in SUBSET t, s # {} PROVE g[rest(s)] = sums(rest(s))[rest(s)]
  <2> DEFINE r == rest(s)
  <2>0. r \in SUBSET t /\ SumsOf(sums(r), f, r)
    BY <1>2, <1>3, <1>4
  <2> HIDE DEF sums
  <2>1. CASE r = {}
    BY <2>0, <2>1 DEF SumsOf
  <2>2. CASE r # {}
    <3>1. rest(r) \in SUBSET r /\ rest(r) \in SUBSET t /\ SumsOf(sums(rest(r)), f, rest(r))
      BY <1>2, <1>3, <2>0, <2>2
    <3>2. sums(r)[r] = f[Pick(r)] + sums(r)[rest(r)]
      BY <2>0, <2>2 DEF SumsOf
    <3>3. IsFiniteSet(rest(r)) /\ IsFiniteSet(r)
      BY <2>0, <3>1, FS_Subset
    <3>4. sums(r)[rest(r)] = sums(rest(r))[rest(r)]
      <4> HIDE DEF rest
      <4> QED BY <2>0, <3>1, <3>3, SumsAgree
    <3>5. g[r] = f[Pick(r)] + sums(rest(r))[rest(r)]
      BY <2>0, <2>2
    <3> QED BY <3>2, <3>4, <3>5
  <2> QED BY <2>1, <2>2
<1>5. SumsOf(g, f, t)
  <2> HIDE DEF sums
  <2>1. ASSUME NEW s \in SUBSET t
        PROVE  g[s] = IF s = {} THEN 0 ELSE f[Pick(s)] + g[s \ {Pick(s)}]
    BY <1>4
  <2>2. \A s \in SUBSET t : g[s] = IF s = {} THEN 0 ELSE f[Pick(s)] + g[s \ {Pick(s)}]
    BY <2>1
  <2>3. g = [s \in SUBSET t |-> g[s]]
    OBVIOUS
  <2> HIDE DEF g
  <2> QED BY <2>2, <2>3 DEF SumsOf
<1> QED BY <1>1, <1>5

\* The sum over no index.
LEMMA SumEmpty ==
  ASSUME NEW f
  PROVE  SumFunctionOnSet(f, {}) = 0
<1>1. PICK g : SumsOf(g, f, {})
  BY SumsExist, FS_EmptySet
<1>2. SumsOf(CHOOSE h : SumsOf(h, f, {}), f, {})
  BY <1>1
<1> QED BY <1>2, SumUnfolds DEF SumsOf

\* Summing takes out the index CHOOSE picks ...
LEMMA SumPick ==
  ASSUME NEW f, NEW S, IsFiniteSet(S), S # {}
  PROVE  SumFunctionOnSet(f, S) = f[Pick(S)] + SumFunctionOnSet(f, S \ {Pick(S)})
<1> DEFINE R == S \ {Pick(S)}
           g == CHOOSE g : SumsOf(g, f, S)
           h == CHOOSE h : SumsOf(h, f, R)
<1>1. IsFiniteSet(R)
  BY FS_Subset
<1>2. SumsOf(g, f, S) /\ SumsOf(h, f, R)
  BY <1>1, SumsExist
<1>3. SumFunctionOnSet(f, S) = g[S] /\ SumFunctionOnSet(f, R) = h[R]
  BY SumUnfolds
<1> HIDE DEF g, h
<1>4. g[S] = f[Pick(S)] + g[R]
  BY <1>2 DEF SumsOf
<1>5. g[R] = h[R]
  <2>1. R \in SUBSET S /\ R \in SUBSET R
    OBVIOUS
  <2> HIDE DEF R
  <2> QED BY <1>2, <2>1, SumsAgree
<1> QED BY <1>3, <1>4, <1>5

-----------------------------------------------------------------------------
(* What a sum of naturals does *)

\* Induction on a finite set: a set of subsets that has the empty one, and
\* every subset it has with one element taken out, has the whole set.
LEMMA SubsetInduction ==
  ASSUME NEW S, IsFiniteSet(S), NEW Good, {} \in Good,
         \A t \in SUBSET S : \A x \in t : t \ {x} \in Good => t \in Good
  PROVE  S \in Good
<1> DEFINE Bad == {t \in SUBSET S : t \notin Good}
<1> SUFFICES ASSUME Bad # {} PROVE FALSE
  OBVIOUS
<1>1. PICK t \in Bad : \A u \in Bad : ~ (u \subseteq t /\ u # t)
  <2>1. Bad \in SUBSET SUBSET S
    OBVIOUS
  <2> HIDE DEF Bad
  <2> QED BY <2>1, Smallest
<1>2. PICK x \in t : TRUE
  BY <1>1
<1>3. t \ {x} \in Good
  BY <1>1
<1> QED BY <1>1, <1>3

\* A sum of naturals is a natural.
LEMMA SumNat ==
  ASSUME NEW S, IsFiniteSet(S), NEW f, \A x \in S : f[x] \in Nat
  PROVE  SumFunctionOnSet(f, S) \in Nat
<1> DEFINE Bad == {t \in SUBSET S : SumFunctionOnSet(f, t) \notin Nat}
<1> SUFFICES ASSUME Bad # {} PROVE FALSE
  OBVIOUS
<1>1. PICK t \in Bad : \A u \in Bad : ~ (u \subseteq t /\ u # t)
  <2>1. Bad \in SUBSET SUBSET S
    OBVIOUS
  <2> HIDE DEF Bad
  <2> QED BY <2>1, Smallest
<1>2. t # {}
  <2>1. ASSUME t = {} PROVE SumFunctionOnSet(f, t) = 0
    BY <2>1, SumEmpty
  <2>2. SumFunctionOnSet(f, t) \notin Nat
    BY <1>1
  <2> QED BY <2>1, <2>2
<1>3. Pick(t) \in t /\ IsFiniteSet(t)
  BY <1>1, <1>2, FS_Subset DEF Pick
<1>4. SumFunctionOnSet(f, t \ {Pick(t)}) \in Nat
  BY <1>1, <1>3
<1>5. SumFunctionOnSet(f, t) = f[Pick(t)] + SumFunctionOnSet(f, t \ {Pick(t)})
  BY <1>2, <1>3, SumPick
<1>6. f[Pick(t)] \in Nat
  BY <1>1, <1>3
<1> QED BY <1>1, <1>4, <1>5, <1>6

\* ... and any index can be taken out first.
LEMMA SumRemove ==
  ASSUME NEW S, IsFiniteSet(S), NEW f, \A y \in S : f[y] \in Nat, NEW x \in S
  PROVE  SumFunctionOnSet(f, S) = f[x] + SumFunctionOnSet(f, S \ {x})
<1> DEFINE sum(t) == SumFunctionOnSet(f, t)
           Bad == {t \in SUBSET S : \E y \in t : sum(t) # f[y] + sum(t \ {y})}
<1> SUFFICES ASSUME Bad # {} PROVE FALSE
  OBVIOUS
<1>0. \A t \in SUBSET S : sum(t) \in Nat /\ IsFiniteSet(t)
  BY SumNat, FS_Subset
<1>1. PICK t \in Bad : \A u \in Bad : ~ (u \subseteq t /\ u # t)
  <2>1. Bad \in SUBSET SUBSET S
    OBVIOUS
  <2> HIDE DEF Bad
  <2> QED BY <2>1, Smallest
<1>2. PICK z \in t : sum(t) # f[z] + sum(t \ {z})
  BY <1>1
<1> DEFINE y == Pick(t)
<1>3. /\ y \in t /\ t \in SUBSET S
      /\ \A u \in SUBSET t : u # t => \A a \in u : sum(u) = f[a] + sum(u \ {a})
  BY <1>1 DEF Pick
<1>4. sum(t) = f[y] + sum(t \ {y})
  BY <1>0, <1>3, SumPick
<1>5. z # y
  BY <1>2, <1>4
<1> HIDE DEF y, sum, Bad
<1>6. sum(t \ {y}) = f[z] + sum((t \ {y}) \ {z})
  BY <1>3, <1>5
<1>7. sum(t \ {z}) = f[y] + sum((t \ {z}) \ {y})
  BY <1>3, <1>5
<1>8. (t \ {z}) \ {y} = (t \ {y}) \ {z}
  OBVIOUS
<1>9. f[z] \in Nat /\ f[y] \in Nat /\ sum((t \ {y}) \ {z}) \in Nat
  BY <1>0, <1>3
<1>10. sum((t \ {z}) \ {y}) = sum((t \ {y}) \ {z})
  BY <1>8
<1> QED BY <1>2, <1>4, <1>6, <1>7, <1>9, <1>10

\* No term exceeds the sum.
LEMMA SumCovers ==
  ASSUME NEW S, IsFiniteSet(S), NEW f, \A y \in S : f[y] \in Nat, NEW x \in S
  PROVE  f[x] <= SumFunctionOnSet(f, S)
<1>1. IsFiniteSet(S \ {x}) /\ SumFunctionOnSet(f, S) = f[x] + SumFunctionOnSet(f, S \ {x})
  BY SumRemove, FS_Subset
<1>2. SumFunctionOnSet(f, S \ {x}) \in Nat
  BY <1>1, SumNat
<1> QED BY <1>1, <1>2

\* Summing respects the order of the terms ...
LEMMA SumMonotone ==
  ASSUME NEW S, IsFiniteSet(S), NEW f, NEW g,
         \A x \in S : f[x] \in Nat /\ g[x] \in Nat /\ f[x] <= g[x]
  PROVE  SumFunctionOnSet(f, S) <= SumFunctionOnSet(g, S)
<1> DEFINE F(t) == SumFunctionOnSet(f, t)
           G(t) == SumFunctionOnSet(g, t)
           Good == {t \in SUBSET S : F(t) <= G(t)}
<1>1. {} \in Good
  BY SumEmpty
<1>2. ASSUME NEW t \in SUBSET S, NEW x \in t, t \ {x} \in Good
      PROVE  t \in Good
  <2>1. IsFiniteSet(t) /\ IsFiniteSet(t \ {x})
    BY FS_Subset
  <2>2. F(t) = f[x] + F(t \ {x}) /\ G(t) = g[x] + G(t \ {x})
    BY <2>1, SumRemove
  <2>3. F(t \ {x}) \in Nat /\ G(t \ {x}) \in Nat
    BY <2>1, SumNat
  <2>4. F(t \ {x}) <= G(t \ {x})
    BY <1>2
  <2> HIDE DEF F, G
  <2> QED BY <2>2, <2>3, <2>4
<1> HIDE DEF F, G, Good
<1>3. S \in Good
  BY <1>1, <1>2, SubsetInduction
<1> QED BY <1>3 DEF Good, F, G

\* ... so it depends on the terms alone.
LEMMA SumEqual ==
  ASSUME NEW S, IsFiniteSet(S), NEW f, NEW g,
         \A x \in S : f[x] \in Nat /\ g[x] = f[x]
  PROVE  SumFunctionOnSet(g, S) = SumFunctionOnSet(f, S)
<1>1. SumFunctionOnSet(f, S) <= SumFunctionOnSet(g, S)
  BY SumMonotone
<1>2. SumFunctionOnSet(g, S) <= SumFunctionOnSet(f, S)
  BY SumMonotone
<1>3. SumFunctionOnSet(g, S) \in Nat /\ SumFunctionOnSet(f, S) \in Nat
  BY SumNat
<1> QED BY <1>1, <1>2, <1>3

\* The sum of termwise sums is the sum of the sums.
LEMMA SumOfSums ==
  ASSUME NEW S, IsFiniteSet(S), NEW f, NEW g, NEW h,
         \A x \in S : f[x] \in Nat /\ g[x] \in Nat /\ h[x] = f[x] + g[x]
  PROVE  SumFunctionOnSet(h, S) = SumFunctionOnSet(f, S) + SumFunctionOnSet(g, S)
<1> DEFINE F(t) == SumFunctionOnSet(f, t)
           G(t) == SumFunctionOnSet(g, t)
           H(t) == SumFunctionOnSet(h, t)
           Good == {t \in SUBSET S : H(t) = F(t) + G(t)}
<1>1. {} \in Good
  BY SumEmpty
<1>2. ASSUME NEW t \in SUBSET S, NEW x \in t, t \ {x} \in Good
      PROVE  t \in Good
  <2>1. IsFiniteSet(t) /\ IsFiniteSet(t \ {x})
    BY FS_Subset
  <2>2. F(t) = f[x] + F(t \ {x}) /\ G(t) = g[x] + G(t \ {x}) /\ H(t) = h[x] + H(t \ {x})
    BY <2>1, SumRemove
  <2>3. F(t \ {x}) \in Nat /\ G(t \ {x}) \in Nat
    BY <2>1, SumNat
  <2>4. H(t \ {x}) = F(t \ {x}) + G(t \ {x})
    BY <1>2
  <2> HIDE DEF F, G, H
  <2> QED BY <2>2, <2>3, <2>4
<1> HIDE DEF F, G, H, Good
<1>3. S \in Good
  BY <1>1, <1>2, SubsetInduction
<1> QED BY <1>3 DEF Good, F, G, H

\* A common factor can be taken out of a sum.
LEMMA SumScaled ==
  ASSUME NEW S, IsFiniteSet(S), NEW c \in Nat, NEW f, NEW h,
         \A x \in S : f[x] \in Nat /\ h[x] = f[x] * c
  PROVE  SumFunctionOnSet(h, S) = SumFunctionOnSet(f, S) * c
<1> DEFINE F(t) == SumFunctionOnSet(f, t)
           H(t) == SumFunctionOnSet(h, t)
           Good == {t \in SUBSET S : H(t) = F(t) * c}
<1>1. {} \in Good
  BY SumEmpty
<1>2. ASSUME NEW t \in SUBSET S, NEW x \in t, t \ {x} \in Good
      PROVE  t \in Good
  <2>1. IsFiniteSet(t) /\ IsFiniteSet(t \ {x})
    BY FS_Subset
  <2>2. F(t) = f[x] + F(t \ {x}) /\ H(t) = h[x] + H(t \ {x})
    <3>1. \A y \in t : f[y] \in Nat /\ h[y] \in Nat
      OBVIOUS
    <3> QED BY <2>1, <3>1, SumRemove
  <2>3. F(t \ {x}) \in Nat
    BY <2>1, SumNat
  <2>4. H(t \ {x}) = F(t \ {x}) * c
    BY <1>2
  <2> HIDE DEF F, H
  <2>5. f[x] \in Nat /\ h[x] = f[x] * c
    OBVIOUS
  <2> QED BY <2>2, <2>3, <2>4, <2>5
<1> HIDE DEF F, H, Good
<1>3. S \in Good
  BY <1>1, <1>2, SubsetInduction
<1> QED BY <1>3 DEF Good, F, H

\* A sum of zeros.
LEMMA SumZero ==
  ASSUME NEW S, IsFiniteSet(S), NEW f, \A x \in S : f[x] = 0
  PROVE  SumFunctionOnSet(f, S) = 0
<1>1. SumFunctionOnSet(f, S) = SumFunctionOnSet(f, S) * 0
  BY SumScaled
<1>2. SumFunctionOnSet(f, S) \in Nat
  BY SumNat
<1> QED BY <1>1, <1>2

\* Changing one term changes the sum by as much.
LEMMA SumChange ==
  ASSUME NEW S, IsFiniteSet(S), NEW x \in S, NEW f, NEW g,
         \A y \in S : f[y] \in Nat /\ g[y] \in Nat /\ (y # x => g[y] = f[y])
  PROVE  /\ SumFunctionOnSet(f, S) \in Nat /\ SumFunctionOnSet(g, S) \in Nat
         /\ f[x] <= SumFunctionOnSet(f, S)
         /\ SumFunctionOnSet(g, S) = SumFunctionOnSet(f, S) - f[x] + g[x]
<1> DEFINE R == S \ {x}
<1>1. IsFiniteSet(R)
  BY FS_Subset
<1>2. SumFunctionOnSet(g, R) = SumFunctionOnSet(f, R) /\ SumFunctionOnSet(f, R) \in Nat
  BY <1>1, SumEqual, SumNat
<1>3. /\ SumFunctionOnSet(f, S) = f[x] + SumFunctionOnSet(f, R)
      /\ SumFunctionOnSet(g, S) = g[x] + SumFunctionOnSet(g, R)
  BY SumRemove
<1> HIDE DEF R
<1> QED BY <1>2, <1>3

\* A sum with at most one term that is not zero.
LEMMA SumSingle ==
  ASSUME NEW S, IsFiniteSet(S), NEW p, NEW v \in Nat
  PROVE  SumFunctionOnSet([x \in S |-> IF x = p THEN v ELSE 0], S) = IF p \in S THEN v ELSE 0
<1> DEFINE f == [x \in S |-> IF x = p THEN v ELSE 0]
<1>1. CASE p \notin S
  <2>1. \A x \in S : f[x] = 0
    BY <1>1
  <2> HIDE DEF f
  <2>2. SumFunctionOnSet(f, S) = 0
    BY <2>1, SumZero
  <2> QED BY <1>1, <2>2 DEF f
<1>2. CASE p \in S
  <2>1. IsFiniteSet(S \ {p})
    BY FS_Subset
  <2>2. /\ \A x \in S \ {p} : f[x] = 0
        /\ \A x \in S : f[x] \in Nat
        /\ f[p] = v
    BY <1>2
  <2> HIDE DEF f
  <2>3. SumFunctionOnSet(f, S \ {p}) = 0
    BY <2>1, <2>2, SumZero
  <2>4. SumFunctionOnSet(f, S) = f[p] + SumFunctionOnSet(f, S \ {p})
    BY <1>2, <2>2, SumRemove
  <2>5. SumFunctionOnSet(f, S) = v
    BY <2>2, <2>3, <2>4
  <2> QED BY <1>2, <2>5 DEF f
<1> QED BY <1>1, <1>2

\* The sum over two disjoint sets is the sum of the sums.
LEMMA SumUnion ==
  ASSUME NEW S, IsFiniteSet(S), NEW T, IsFiniteSet(T), S \cap T = {}, NEW f,
         \A x \in S \cup T : f[x] \in Nat
  PROVE  SumFunctionOnSet(f, S \cup T) = SumFunctionOnSet(f, S) + SumFunctionOnSet(f, T)
<1> DEFINE F(t) == SumFunctionOnSet(f, t)
           Good == {t \in SUBSET S : F(t \cup T) = F(t) + F(T)}
<1>0. F(T) \in Nat
  BY SumNat
<1>1. {} \in Good
  <2>1. {} \cup T = T /\ F({}) = 0
    BY SumEmpty
  <2> HIDE DEF F
  <2> QED BY <1>0, <2>1
<1>2. ASSUME NEW t \in SUBSET S, NEW x \in t, t \ {x} \in Good
      PROVE  t \in Good
  <2>1. IsFiniteSet(t) /\ IsFiniteSet(t \ {x}) /\ IsFiniteSet(t \cup T)
    BY FS_Subset, FS_Union
  <2>2. F(t) = f[x] + F(t \ {x})
    BY <2>1, SumRemove
  <2>3. F(t \cup T) = f[x] + F((t \cup T) \ {x})
    BY <2>1, SumRemove
  <2>4. (t \cup T) \ {x} = (t \ {x}) \cup T
    OBVIOUS
  <2>5. F(t \ {x}) \in Nat /\ f[x] \in Nat
    BY <2>1, SumNat
  <2>6. F((t \ {x}) \cup T) = F(t \ {x}) + F(T)
    BY <1>2
  <2> HIDE DEF F
  <2> QED BY <1>0, <2>2, <2>3, <2>4, <2>5, <2>6
<1> HIDE DEF F, Good
<1>3. S \in Good
  BY <1>1, <1>2, SubsetInduction
<1> QED BY <1>3 DEF Good, F

\* Where the other terms are zero, they need not be summed.
LEMMA SumSupport ==
  ASSUME NEW T, IsFiniteSet(T), NEW S \in SUBSET T, NEW f,
         \A x \in S : f[x] \in Nat, \A x \in T \ S : f[x] = 0
  PROVE  SumFunctionOnSet(f, T) = SumFunctionOnSet(f, S)
<1> DEFINE R == T \ S
<1>1. IsFiniteSet(S) /\ IsFiniteSet(R) /\ S \cap R = {} /\ S \cup R = T
  BY FS_Subset
<1>2. SumFunctionOnSet(f, R) = 0
  BY <1>1, SumZero
<1>3. SumFunctionOnSet(f, S) \in Nat
  BY <1>1, SumNat
<1>4. \A x \in S \cup R : f[x] \in Nat
  OBVIOUS
<1> HIDE DEF R
<1>5. SumFunctionOnSet(f, S \cup R) = SumFunctionOnSet(f, S) + SumFunctionOnSet(f, R)
  BY <1>1, <1>4, SumUnion
<1> QED BY <1>1, <1>2, <1>3, <1>5

-----------------------------------------------------------------------------
(* Arithmetic that the prover needs to be told *)

\* The quotient rounds down.
LEMMA Quotient ==
  ASSUME NEW x \in Nat, NEW d \in Nat \ {0}
  PROVE  x \div d \in Nat /\ (x \div d) * d <= x
BY SMT

\* Multiplication keeps the order ...
LEMMA MulMonotone ==
  ASSUME NEW a \in Nat, NEW b \in Nat, NEW c \in Nat, a <= b
  PROVE  a * c <= b * c
BY SMT

\* ... and a common positive factor can be cancelled.
LEMMA MulCancel ==
  ASSUME NEW a \in Nat, NEW b \in Nat, NEW c \in Nat \ {0}, a * c <= b * c
  PROVE  a <= b
BY SMT
=============================================================================
