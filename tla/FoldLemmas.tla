----------------------------- MODULE FoldLemmas -----------------------------
(***************************************************************************)
(* What the proofs need of the folds of the community modules: that the     *)
(* recursion they are made of has a solution, and what sums over finite     *)
(* sets are.  The operators are taken as functions, and induction is by a   *)
(* least counterexample, for theorems with an operator parameter cannot be  *)
(* applied.                                                                 *)
(***************************************************************************)
EXTENDS Integers, FiniteSetsExt, FiniteSetTheorems, WellFoundedInduction, TLAPS

(* Among sets of subsets of a finite set there are least ones.              *)
LEMMA LeastSubset ==
    ASSUME NEW S, IsFiniteSet(S), NEW T \in SUBSET SUBSET S, T # {}
    PROVE  \E x \in T : \A y \in T : ~(y \subseteq x /\ y # x)
<1>1. IsWellFoundedOn(StrictSubsetOrdering(S), SUBSET S)
  BY FS_FiniteSubsetsOfFinite, FS_StrictSubsetOrderingWellFounded
<1>2. \E x \in T : \A y \in T : <<y, x>> \notin StrictSubsetOrdering(S)
  BY <1>1, WFMin
<1> QED BY <1>2 DEF StrictSubsetOrdering

-----------------------------------------------------------------------------
(* A fold over the subsets of D: one element, that c names, after another.  *)
Folds(h, D, c, op, base) ==
    h = [s \in SUBSET D |-> IF s = {} THEN base ELSE op[<<c[s], h[s \ {c[s]}]>>]]

Picks(c, D) == \A s \in SUBSET D : s # {} => c[s] \in s

(* There is at most one, and it does not depend on the set.                 *)
LEMMA FoldUnique ==
    ASSUME NEW D, IsFiniteSet(D), NEW E, NEW c, NEW op, NEW base, NEW g, NEW h,
           Folds(g, D, c, op, base), Folds(h, E, c, op, base), Picks(c, D),
           NEW s, s \subseteq D, s \subseteq E
    PROVE  g[s] = h[s]
<1> DEFINE Bad == {t \in SUBSET D : t \subseteq E /\ g[t] # h[t]}
<1> SUFFICES ASSUME Bad # {} PROVE FALSE
  OBVIOUS
<1>1. PICK t \in Bad : \A u \in Bad : ~(u \subseteq t /\ u # t)
  <2>1. Bad \in SUBSET SUBSET D
    OBVIOUS
  <2> HIDE DEF Bad
  <2> QED BY <2>1, LeastSubset
<1>2. t # {}
  BY DEF Folds
<1> DEFINE u == t \ {c[t]}
<1>3. u \subseteq t /\ u # t
  BY <1>2 DEF Picks
<1>4. g[u] = h[u]
  BY <1>1, <1>3
<1>5. g[t] = op[<<c[t], g[u]>>] /\ h[t] = op[<<c[t], h[u]>>]
  BY <1>2 DEF Folds
<1> QED BY <1>4, <1>5

(* There is one, and its values are of the type of the operator.            *)
TypedFold(h, T, c, V, op, base) == h \in [SUBSET T -> V] /\ Folds(h, T, c, op, base)
SomeFold(T, c, V, op, base) == CHOOSE h : TypedFold(h, T, c, V, op, base)

LEMMA FoldExists ==
    ASSUME NEW D, IsFiniteSet(D), NEW c, Picks(c, D), NEW V, NEW base \in V, NEW op,
           \A x \in D, v \in V : op[<<x, v>>] \in V
    PROVE  \E h : TypedFold(h, D, c, V, op, base)
<1> DEFINE Good(T) == \E h : TypedFold(h, T, c, V, op, base)
           Bad == {T \in SUBSET D : ~Good(T)}
<1> SUFFICES ASSUME Bad # {} PROVE FALSE
  OBVIOUS
<1>1. PICK M \in Bad : \A u \in Bad : ~(u \subseteq M /\ u # M)
  <2>1. Bad \in SUBSET SUBSET D
    OBVIOUS
  <2> HIDE DEF Bad, Good
  <2> QED BY <2>1, LeastSubset
<1> DEFINE H(T) == SomeFold(T, c, V, op, base)
           rest(s) == s \ {c[s]}
           val(s) == IF s = {} THEN base ELSE op[<<c[s], H(rest(s))[rest(s)]>>]
           g == [s \in SUBSET M |-> val(s)]
<1>2. ASSUME NEW T \in SUBSET M, T # M PROVE TypedFold(H(T), T, c, V, op, base)
  <2>1. Good(T)
    BY <1>1, <1>2
  <2> QED BY <2>1 DEF SomeFold
<1>3. ASSUME NEW s \in SUBSET M, s # {}
      PROVE  rest(s) \in SUBSET M /\ rest(s) # M /\ rest(s) \subseteq s /\ c[s] \in D
  BY <1>3 DEF Picks
<1> HIDE DEF H, Good, Bad
<1>4. ASSUME NEW T \in SUBSET M, T # M PROVE val(T) = H(T)[T]
  <2>1. TypedFold(H(T), T, c, V, op, base)
    BY <1>2, <1>4
  <2>2. H(T)[T] = IF T = {} THEN base ELSE op[<<c[T], H(T)[rest(T)]>>]
    BY <2>1 DEF Folds, TypedFold
  <2>3. ASSUME T # {} PROVE H(T)[rest(T)] = H(rest(T))[rest(T)]
    <3>1. TypedFold(H(rest(T)), rest(T), c, V, op, base)
      BY <1>2, <1>3, <2>3
    <3>2. IsFiniteSet(T) /\ Picks(c, T)
      <4>1. T \subseteq D
        BY <1>1 DEF Bad
      <4> QED BY <4>1, FS_Subset DEF Picks
    <3>3. rest(T) \subseteq T
      OBVIOUS
    <3>4. Folds(H(T), T, c, op, base) /\ Folds(H(rest(T)), rest(T), c, op, base)
      BY <2>1, <3>1 DEF TypedFold
    <3> HIDE DEF rest
    <3> QED BY <3>2, <3>3, <3>4, FoldUnique
  <2> QED BY <2>2, <2>3
<1>5. ASSUME NEW s \in SUBSET M, s # {} PROVE H(rest(s))[rest(s)] \in V
  <2>1. TypedFold(H(rest(s)), rest(s), c, V, op, base)
    BY <1>2, <1>3, <1>5
  <2> HIDE DEF rest
  <2> QED BY <2>1 DEF TypedFold
<1>6. \A s \in SUBSET M : val(s) \in V
  BY <1>3, <1>5
<1>7. \A s \in SUBSET M : s # {} => g[rest(s)] = H(rest(s))[rest(s)]
  BY <1>3, <1>4
<1>8. \A s \in SUBSET M : val(s) = IF s = {} THEN base ELSE op[<<c[s], g[rest(s)]>>]
  <2> HIDE DEF g
  <2> QED BY <1>7
<1> HIDE DEF val, rest
<1>9. g \in [SUBSET M -> V]
  BY <1>6
<1>10. g = [s \in SUBSET M |-> IF s = {} THEN base ELSE op[<<c[s], g[rest(s)]>>]]
  BY <1>8
<1>11. TypedFold(g, M, c, V, op, base)
  <2> HIDE DEF g
  <2> QED BY <1>9, <1>10 DEF Folds, TypedFold, rest
<1> QED BY <1>1, <1>11 DEF Bad, Good

-----------------------------------------------------------------------------
(* Sums of integers over a finite set.                                      *)
Integral(f, S) == \A x \in S : f[x] \in Int

First(s) == CHOOSE x \in s : TRUE
Sums(h, f, D) ==
    h = [s \in SUBSET D |-> IF s = {} THEN 0 ELSE f[First(s)] + h[s \ {First(s)}]]

(* The recursion of SumFunctionOnSet has one solution.                      *)
LEMMA SumExists ==
    ASSUME NEW D, IsFiniteSet(D), NEW f, Integral(f, D)
    PROVE  \E h \in [SUBSET D -> Int] : Sums(h, f, D)
<1> DEFINE c == [s \in SUBSET D |-> First(s)]
           op == [p \in D \X Int |-> f[p[1]] + p[2]]
<1>1. Picks(c, D)
  BY DEF Picks, First
<1>2. \A x \in D, v \in Int : op[<<x, v>>] = f[x] + v /\ op[<<x, v>>] \in Int
  BY DEF Integral
<1>3. PICK h : TypedFold(h, D, c, Int, op, 0)
  <2> HIDE DEF c, op
  <2>1. 0 \in Int /\ \A x \in D, v \in Int : op[<<x, v>>] \in Int
    BY <1>2
  <2> QED BY <1>1, <2>1, FoldExists
<1>4. h \in [SUBSET D -> Int]
  BY <1>3 DEF TypedFold
<1>5. ASSUME NEW s \in SUBSET D, s # {}
      PROVE  /\ First(s) \in D /\ c[s] = First(s) /\ s \ {First(s)} \in SUBSET D
             /\ op[<<c[s], h[s \ {c[s]}]>>] = f[First(s)] + h[s \ {First(s)}]
  <2>1. First(s) \in D /\ c[s] = First(s) /\ s \ {First(s)} \in SUBSET D
    BY <1>5 DEF First
  <2>2. h[s \ {First(s)}] \in Int
    BY <1>4, <2>1
  <2> HIDE DEF c, op
  <2> QED BY <1>2, <2>1, <2>2
<1>6. h = [s \in SUBSET D |-> IF s = {} THEN 0 ELSE op[<<c[s], h[s \ {c[s]}]>>]]
  BY <1>3, Zenon DEF TypedFold, Folds
<1> HIDE DEF c, op
<1>7. Sums(h, f, D)
  BY <1>5, <1>6 DEF Sums
<1> QED BY <1>4, <1>7

LEMMA SumUnique ==
    ASSUME NEW D, IsFiniteSet(D), NEW E, NEW f, NEW g, NEW h,
           Sums(g, f, D), Sums(h, f, E), NEW s, s \subseteq D, s \subseteq E
    PROVE  g[s] = h[s]
<1> DEFINE Bad == {t \in SUBSET D : t \subseteq E /\ g[t] # h[t]}
<1> SUFFICES ASSUME Bad # {} PROVE FALSE
  OBVIOUS
<1>1. PICK t \in Bad : \A u \in Bad : ~(u \subseteq t /\ u # t)
  <2>1. Bad \in SUBSET SUBSET D
    OBVIOUS
  <2> HIDE DEF Bad
  <2> QED BY <2>1, LeastSubset
<1>2. t # {}
  BY DEF Sums
<1> DEFINE u == t \ {First(t)}
<1>3. u \subseteq t /\ u # t
  BY <1>2 DEF First
<1>4. g[u] = h[u]
  BY <1>1, <1>3
<1>5. g[t] = f[First(t)] + g[u] /\ h[t] = f[First(t)] + h[u]
  BY <1>2 DEF Sums
<1> QED BY <1>4, <1>5

LEMMA SumIs ==
    ASSUME NEW D, IsFiniteSet(D), NEW f, Integral(f, D), NEW h, Sums(h, f, D),
           NEW S \in SUBSET D
    PROVE  SumFunctionOnSet(f, S) = h[S]
<1> DEFINE iter == CHOOSE g : Sums(g, f, S)
<1>1. SumFunctionOnSet(f, S) = iter[S]
  BY DEF SumFunctionOnSet, FoldFunctionOnSet, MapThenFoldSet, Sums, First
<1>2. IsFiniteSet(S) /\ Integral(f, S)
  BY FS_Subset DEF Integral
<1>3. Sums(iter, f, S)
  BY <1>2, SumExists
<1>4. iter[S] = h[S]
  <2> HIDE DEF iter
  <2> QED BY <1>2, <1>3, SumUnique
<1> QED BY <1>1, <1>4

(* A sum over nothing, ...                                                  *)
LEMMA SumEmpty ==
    ASSUME NEW f
    PROVE  SumFunctionOnSet(f, {}) = 0
<1>1. PICK h : Sums(h, f, {})
  BY SumExists, FS_EmptySet DEF Integral
<1>2. h[{}] = 0
  BY <1>1 DEF Sums
<1> QED BY <1>1, <1>2, SumIs, FS_EmptySet DEF Integral

LEMMA SumFirst ==
    ASSUME NEW S, IsFiniteSet(S), NEW f, Integral(f, S)
    PROVE  /\ SumFunctionOnSet(f, S) \in Int
           /\ S # {} => /\ First(S) \in S
                        /\ SumFunctionOnSet(f, S)
                             = f[First(S)] + SumFunctionOnSet(f, S \ {First(S)})
<1>1. PICK h \in [SUBSET S -> Int] : Sums(h, f, S)
  BY SumExists
<1>2. \A s \in SUBSET S : SumFunctionOnSet(f, s) = h[s]
  BY <1>1, SumIs
<1>3. S # {} => h[S] = f[First(S)] + h[S \ {First(S)}]
  BY <1>1 DEF Sums
<1>4. S # {} => First(S) \in S
  BY DEF First
<1>5. h[S] \in Int
  BY <1>1
<1> QED BY <1>2, <1>3, <1>4, <1>5

(* ... an integer, ...                                                      *)
LEMMA SumType ==
    ASSUME NEW S, IsFiniteSet(S), NEW f, Integral(f, S)
    PROVE  SumFunctionOnSet(f, S) \in Int
  BY SumFirst

(* ... and which element is taken first does not matter.                    *)
LEMMA SumRemove ==
    ASSUME NEW S, IsFiniteSet(S), NEW f, Integral(f, S), NEW x \in S
    PROVE  SumFunctionOnSet(f, S) = f[x] + SumFunctionOnSet(f, S \ {x})
<1> DEFINE Sum(s) == SumFunctionOnSet(f, s)
           Bad == {s \in SUBSET S : \E y \in s : Sum(s) # f[y] + Sum(s \ {y})}
<1> SUFFICES ASSUME Bad # {} PROVE FALSE
  OBVIOUS
<1>1. PICK t \in Bad : \A u \in Bad : ~(u \subseteq t /\ u # t)
  <2>1. Bad \in SUBSET SUBSET S
    OBVIOUS
  <2> HIDE DEF Bad
  <2> QED BY <2>1, LeastSubset
<1>2. PICK y \in t : Sum(t) # f[y] + Sum(t \ {y})
  OBVIOUS
<1> DEFINE z == First(t)
<1>3. \A s \in SUBSET S : IsFiniteSet(s) /\ Integral(f, s)
  BY FS_Subset DEF Integral
<1>4. \A s \in SUBSET S : Sum(s) \in Int
  BY <1>3, SumType
<1>5. z \in t /\ Sum(t) = f[z] + Sum(t \ {z})
  BY <1>3, SumFirst
<1>6. y # z
  BY <1>2, <1>5
<1> HIDE DEF Sum, z
<1>7. Sum(t \ {z}) = f[y] + Sum((t \ {z}) \ {y})
  BY <1>1, <1>5, <1>6
<1>8. Sum(t \ {y}) = f[z] + Sum((t \ {y}) \ {z})
  BY <1>1, <1>5, <1>6
<1> DEFINE w == Sum((t \ {z}) \ {y})
<1>9. Sum((t \ {y}) \ {z}) = w
  <2>1. (t \ {z}) \ {y} = (t \ {y}) \ {z}
    OBVIOUS
  <2> QED BY <2>1
<1>10. f[y] \in Int /\ f[z] \in Int /\ w \in Int
  BY <1>4, <1>5 DEF Integral
<1> HIDE DEF w
<1>11. Sum(t) = f[z] + (f[y] + w) /\ Sum(t \ {y}) = f[z] + w
  BY <1>5, <1>7, <1>8, <1>9 DEF w
<1> QED BY <1>2, <1>10, <1>11

(* What comes to be summed up too.                                          *)
LEMMA SumAdd ==
    ASSUME NEW S, IsFiniteSet(S), NEW x, x \notin S, NEW f, Integral(f, S \cup {x})
    PROVE  SumFunctionOnSet(f, S \cup {x}) = f[x] + SumFunctionOnSet(f, S)
<1>1. IsFiniteSet(S \cup {x}) /\ (S \cup {x}) \ {x} = S
  BY FS_AddElement
<1> QED BY <1>1, SumRemove

(* Sums depend on what is summed up only, are ordered as it is, and that of *)
(* two functions is the sum of theirs.                                      *)
LEMMA SumEqual ==
    ASSUME NEW S, IsFiniteSet(S), NEW f, Integral(f, S), NEW g, \A x \in S : g[x] = f[x]
    PROVE  SumFunctionOnSet(g, S) = SumFunctionOnSet(f, S)
<1> DEFINE Bad == {s \in SUBSET S : SumFunctionOnSet(g, s) # SumFunctionOnSet(f, s)}
<1> SUFFICES ASSUME Bad # {} PROVE FALSE
  OBVIOUS
<1>1. PICK t \in Bad : \A u \in Bad : ~(u \subseteq t /\ u # t)
  <2>1. Bad \in SUBSET SUBSET S
    OBVIOUS
  <2> HIDE DEF Bad
  <2> QED BY <2>1, LeastSubset
<1>2. t # {}
  BY SumEmpty
<1>3. PICK x : x \in t
  BY <1>2
<1>4. IsFiniteSet(t) /\ Integral(f, t) /\ Integral(g, t)
  BY FS_Subset DEF Integral
<1>5. /\ SumFunctionOnSet(f, t) = f[x] + SumFunctionOnSet(f, t \ {x})
      /\ SumFunctionOnSet(g, t) = g[x] + SumFunctionOnSet(g, t \ {x})
  BY <1>3, <1>4, SumRemove
<1>6. SumFunctionOnSet(f, t \ {x}) = SumFunctionOnSet(g, t \ {x})
  BY <1>1, <1>3
<1> QED BY <1>1, <1>3, <1>5, <1>6

LEMMA SumOrdered ==
    ASSUME NEW S, IsFiniteSet(S), NEW f, Integral(f, S), NEW g, Integral(g, S),
           \A x \in S : f[x] <= g[x]
    PROVE  SumFunctionOnSet(f, S) <= SumFunctionOnSet(g, S)
<1> DEFINE Bad == {s \in SUBSET S : ~(SumFunctionOnSet(f, s) <= SumFunctionOnSet(g, s))}
<1> SUFFICES ASSUME Bad # {} PROVE FALSE
  OBVIOUS
<1>1. PICK t \in Bad : \A u \in Bad : ~(u \subseteq t /\ u # t)
  <2>1. Bad \in SUBSET SUBSET S
    OBVIOUS
  <2> HIDE DEF Bad
  <2> QED BY <2>1, LeastSubset
<1>2. t # {}
  BY SumEmpty
<1>3. PICK x : x \in t
  BY <1>2
<1>4. IsFiniteSet(t) /\ Integral(f, t) /\ Integral(g, t)
  BY FS_Subset DEF Integral
<1>5. /\ SumFunctionOnSet(f, t) = f[x] + SumFunctionOnSet(f, t \ {x})
      /\ SumFunctionOnSet(g, t) = g[x] + SumFunctionOnSet(g, t \ {x})
  BY <1>3, <1>4, SumRemove
<1>6. SumFunctionOnSet(f, t \ {x}) <= SumFunctionOnSet(g, t \ {x})
  BY <1>1, <1>3
<1>7. /\ SumFunctionOnSet(f, t \ {x}) \in Int /\ SumFunctionOnSet(g, t \ {x}) \in Int
      /\ f[x] \in Int /\ g[x] \in Int /\ f[x] <= g[x]
  BY <1>3, <1>4, SumType, FS_Subset DEF Integral
<1> QED BY <1>1, <1>5, <1>6, <1>7

LEMMA SumOfSums ==
    ASSUME NEW S, IsFiniteSet(S), NEW f, Integral(f, S), NEW g, Integral(g, S),
           NEW h, \A x \in S : h[x] = f[x] + g[x]
    PROVE  SumFunctionOnSet(h, S) = SumFunctionOnSet(f, S) + SumFunctionOnSet(g, S)
<1> DEFINE Bad == {s \in SUBSET S : SumFunctionOnSet(h, s)
                                      # SumFunctionOnSet(f, s) + SumFunctionOnSet(g, s)}
<1> SUFFICES ASSUME Bad # {} PROVE FALSE
  OBVIOUS
<1>1. PICK t \in Bad : \A u \in Bad : ~(u \subseteq t /\ u # t)
  <2>1. Bad \in SUBSET SUBSET S
    OBVIOUS
  <2> HIDE DEF Bad
  <2> QED BY <2>1, LeastSubset
<1>2. t # {}
  BY SumEmpty
<1>3. PICK x : x \in t
  BY <1>2
<1>4. IsFiniteSet(t) /\ Integral(f, t) /\ Integral(g, t) /\ Integral(h, t)
  BY FS_Subset DEF Integral
<1>5. /\ SumFunctionOnSet(f, t) = f[x] + SumFunctionOnSet(f, t \ {x})
      /\ SumFunctionOnSet(g, t) = g[x] + SumFunctionOnSet(g, t \ {x})
      /\ SumFunctionOnSet(h, t) = h[x] + SumFunctionOnSet(h, t \ {x})
  BY <1>3, <1>4, SumRemove
<1>6. SumFunctionOnSet(h, t \ {x})
        = SumFunctionOnSet(f, t \ {x}) + SumFunctionOnSet(g, t \ {x})
  BY <1>1, <1>3
<1>7. /\ SumFunctionOnSet(f, t \ {x}) \in Int /\ SumFunctionOnSet(g, t \ {x}) \in Int
      /\ f[x] \in Int /\ g[x] \in Int /\ h[x] = f[x] + g[x]
  BY <1>3, <1>4, SumType, FS_Subset DEF Integral
<1> QED BY <1>1, <1>5, <1>6, <1>7

(* A sum of nothing but zeros, and of what is not negative.                 *)
LEMMA SumZero ==
    ASSUME NEW S, IsFiniteSet(S), NEW f, \A x \in S : f[x] = 0
    PROVE  SumFunctionOnSet(f, S) = 0
<1>1. Integral(f, S) /\ \A x \in S : f[x] = f[x] + f[x]
  BY DEF Integral
<1>2. SumFunctionOnSet(f, S) = SumFunctionOnSet(f, S) + SumFunctionOnSet(f, S)
  BY <1>1, SumOfSums
<1>3. SumFunctionOnSet(f, S) \in Int
  BY <1>1, SumType
<1> DEFINE sum == SumFunctionOnSet(f, S)
<1>4. sum \in Int /\ sum = sum + sum
  BY <1>2, <1>3
<1> HIDE DEF sum
<1>5. sum = 0
  BY ONLY <1>4
<1> QED BY <1>5 DEF sum

LEMMA SumNatural ==
    ASSUME NEW S, IsFiniteSet(S), NEW f, \A x \in S : f[x] \in Nat
    PROVE  /\ SumFunctionOnSet(f, S) \in Nat
           /\ \A x \in S : f[x] <= SumFunctionOnSet(f, S)
<1> DEFINE zero == [x \in S |-> 0]
<1>1. Integral(f, S) /\ Integral(zero, S) /\ \A x \in S : zero[x] <= f[x]
  BY DEF Integral
<1>2. \A x \in S : zero[x] = 0
  OBVIOUS
<1> HIDE DEF zero
<1>3. SumFunctionOnSet(f, S) \in Int
  BY <1>1, SumType
<1>4. \A T \in SUBSET S : SumFunctionOnSet(f, T) >= 0
  <2> TAKE T \in SUBSET S
  <2>1. IsFiniteSet(T) /\ Integral(f, T) /\ Integral(zero, T) /\ \A x \in T : zero[x] <= f[x]
    BY <1>1, FS_Subset DEF Integral
  <2>2. SumFunctionOnSet(zero, T) = 0
    BY <1>2, <2>1, SumZero
  <2>3. SumFunctionOnSet(zero, T) <= SumFunctionOnSet(f, T)
    BY <2>1, SumOrdered
  <2> QED BY <2>1, <2>2, <2>3, SumType
<1>5. ASSUME NEW x \in S PROVE f[x] <= SumFunctionOnSet(f, S)
  <2>1. SumFunctionOnSet(f, S) = f[x] + SumFunctionOnSet(f, S \ {x})
    BY <1>1, SumRemove
  <2>2. SumFunctionOnSet(f, S \ {x}) \in Int /\ SumFunctionOnSet(f, S \ {x}) >= 0
    BY <1>1, <1>4, SumType, FS_Subset DEF Integral
  <2> QED BY <2>1, <2>2
<1> QED BY <1>3, <1>4, <1>5

(* A function that is changed at one place.                                 *)
LEMMA SumChanged ==
    ASSUME NEW S, IsFiniteSet(S), NEW f, Integral(f, S), NEW g, NEW x \in S, g[x] \in Int,
           \A y \in S \ {x} : g[y] = f[y]
    PROVE  SumFunctionOnSet(g, S) = SumFunctionOnSet(f, S) + (g[x] - f[x])
<1>1. Integral(g, S) /\ Integral(f, S \ {x}) /\ IsFiniteSet(S \ {x})
  BY FS_Subset DEF Integral
<1>2. /\ SumFunctionOnSet(f, S) = f[x] + SumFunctionOnSet(f, S \ {x})
      /\ SumFunctionOnSet(g, S) = g[x] + SumFunctionOnSet(g, S \ {x})
  BY <1>1, SumRemove
<1>3. SumFunctionOnSet(g, S \ {x}) = SumFunctionOnSet(f, S \ {x})
  BY <1>1, SumEqual
<1>4. SumFunctionOnSet(f, S \ {x}) \in Int /\ f[x] \in Int
  BY <1>1, SumType DEF Integral
<1> QED BY <1>2, <1>3, <1>4

(* The sum of the same number over and over.                                *)
LEMMA SumConstant ==
    ASSUME NEW S, IsFiniteSet(S), NEW c \in Int, NEW f, \A x \in S : f[x] = c
    PROVE  SumFunctionOnSet(f, S) = c * Cardinality(S)
<1> DEFINE Bad == {s \in SUBSET S : SumFunctionOnSet(f, s) # c * Cardinality(s)}
<1> SUFFICES ASSUME Bad # {} PROVE FALSE
  BY DEF Bad
<1>1. PICK t \in Bad : \A u \in Bad : ~(u \subseteq t /\ u # t)
  <2>1. Bad \in SUBSET SUBSET S
    OBVIOUS
  <2> HIDE DEF Bad
  <2> QED BY <2>1, LeastSubset
<1>2. \A s \in SUBSET S : IsFiniteSet(s) /\ Integral(f, s)
  BY FS_Subset DEF Integral
<1>3. t # {}
  <2>1. SumFunctionOnSet(f, {}) = 0 /\ c * Cardinality({}) = 0
    BY SumEmpty, FS_EmptySet
  <2> QED BY <2>1
<1>4. PICK x \in t : TRUE
  BY <1>3
<1>5. SumFunctionOnSet(f, t \ {x}) = c * Cardinality(t \ {x})
  BY <1>1
<1>6. SumFunctionOnSet(f, t) = c + SumFunctionOnSet(f, t \ {x})
  BY <1>2, SumRemove
<1>7. Cardinality(t \ {x}) = Cardinality(t) - 1 /\ Cardinality(t) \in Nat
  BY <1>2, FS_RemoveElement, FS_CardinalityType
<1>8. c + c * (Cardinality(t) - 1) = c * Cardinality(t)
  BY <1>7
<1> QED BY <1>5, <1>6, <1>7, <1>8

(* A sum can be taken in two parts.                                         *)
LEMMA SumSplit ==
    ASSUME NEW S, IsFiniteSet(S), NEW f, Integral(f, S), NEW T \in SUBSET S
    PROVE  SumFunctionOnSet(f, S) = SumFunctionOnSet(f, T) + SumFunctionOnSet(f, S \ T)
<1> DEFINE Sum(s) == SumFunctionOnSet(f, s)
           Bad == {s \in SUBSET S : Sum(S) # Sum(s) + Sum(S \ s)}
<1> SUFFICES ASSUME Bad # {} PROVE FALSE
  BY DEF Bad
<1>1. PICK t \in Bad : \A u \in Bad : ~(u \subseteq t /\ u # t)
  <2>1. Bad \in SUBSET SUBSET S
    OBVIOUS
  <2> HIDE DEF Bad
  <2> QED BY <2>1, LeastSubset
<1>2. \A s \in SUBSET S : IsFiniteSet(s) /\ Integral(f, s) /\ Sum(s) \in Int
  BY FS_Subset, SumType DEF Integral
<1>3. t # {}
  <2> SUFFICES ASSUME t = {} PROVE FALSE
    OBVIOUS
  <2>1. S \ t = S /\ Sum(S) # Sum(t) + Sum(S \ t)
    OBVIOUS
  <2>2. Sum(t) = 0 /\ Sum(S) \in Int
    BY <1>2, SumEmpty
  <2> HIDE DEF Sum, Bad
  <2> QED BY <2>1, <2>2
<1>4. PICK x \in t : TRUE
  BY <1>3
<1>5. Sum(S) = Sum(t \ {x}) + Sum(S \ (t \ {x}))
  BY <1>1
<1>6. Sum(t) = f[x] + Sum(t \ {x})
  BY <1>2, SumRemove
<1>7. Sum(S \ (t \ {x})) = f[x] + Sum(S \ t)
  <2>1. (S \ (t \ {x})) \ {x} = S \ t /\ x \in S \ (t \ {x}) /\ S \ (t \ {x}) \in SUBSET S
    OBVIOUS
  <2> QED BY <1>2, <2>1, SumRemove
<1>8. f[x] \in Int /\ Sum(t \ {x}) \in Int /\ Sum(S \ t) \in Int
  BY <1>2 DEF Integral
<1>9. Sum(S) # Sum(t) + Sum(S \ t)
  OBVIOUS
<1> HIDE DEF Sum
<1> QED BY <1>5, <1>6, <1>7, <1>8, <1>9

(* The sums of groups: what each of G has of it, added up, is all of it.    *)
Shares(G, S, owner, f) ==
    [a \in G |-> SumFunctionOnSet([i \in S |-> IF owner[i] = a THEN f[i] ELSE 0], S)]

LEMMA SumGroups ==
    ASSUME NEW G, IsFiniteSet(G), NEW S, IsFiniteSet(S), NEW f, Integral(f, S),
           NEW owner, \A i \in S : owner[i] \in G
    PROVE  SumFunctionOnSet(Shares(G, S, owner, f), G) = SumFunctionOnSet(f, S)
<1> DEFINE Of(a) == [i \in S |-> IF owner[i] = a THEN f[i] ELSE 0]
           H(s) == [a \in G |-> SumFunctionOnSet(Of(a), s)]
           Bad == {s \in SUBSET S : SumFunctionOnSet(H(s), G) # SumFunctionOnSet(f, s)}
<1> SUFFICES ASSUME Bad # {} PROVE FALSE
  BY DEF Bad, Shares
<1>1. PICK t \in Bad : \A u \in Bad : ~(u \subseteq t /\ u # t)
  <2>1. Bad \in SUBSET SUBSET S
    OBVIOUS
  <2> HIDE DEF Bad
  <2> QED BY <2>1, LeastSubset
<1>2. \A s \in SUBSET S : IsFiniteSet(s) /\ Integral(f, s) /\ \A a \in G : Integral(Of(a), s)
  BY FS_Subset DEF Integral
<1>3. t # {}
  <2>1. \A a \in G : H({})[a] = 0
    BY SumEmpty
  <2> HIDE DEF H
  <2>2. SumFunctionOnSet(H({}), G) = 0
    BY <2>1, SumZero
  <2> QED BY <2>2, SumEmpty
<1>4. PICK x \in t : TRUE
  BY <1>3
<1> DEFINE r == t \ {x}
           g == [a \in G |-> IF owner[x] = a THEN f[x] ELSE 0]
<1>5. SumFunctionOnSet(H(r), G) = SumFunctionOnSet(f, r)
  BY <1>1
<1>6. SumFunctionOnSet(f, t) = f[x] + SumFunctionOnSet(f, r)
  BY <1>2, SumRemove
<1>7. \A a \in G : SumFunctionOnSet(Of(a), t) = g[a] + SumFunctionOnSet(Of(a), r)
  <2> TAKE a \in G
  <2>1. SumFunctionOnSet(Of(a), t) = Of(a)[x] + SumFunctionOnSet(Of(a), r)
    <3>1. Integral(Of(a), t) /\ IsFiniteSet(t)
      BY <1>2
    <3> HIDE DEF Of
    <3> QED BY <3>1, SumRemove
  <2>2. Of(a)[x] = g[a]
    OBVIOUS
  <2> QED BY <2>1, <2>2
<1>8. \A a \in G : H(t)[a] = g[a] + H(r)[a]
  BY <1>7
<1>9. Integral(H(r), G)
  <2>1. \A a \in G : SumFunctionOnSet(Of(a), r) \in Int
    <3> TAKE a \in G
    <3>1. IsFiniteSet(r) /\ Integral(Of(a), r)
      BY <1>2
    <3> HIDE DEF Of
    <3> QED BY <3>1, SumType
  <2> QED BY <2>1 DEF Integral
<1>10. Integral(g, G) /\ f[x] \in Int
  BY DEF Integral
<1>11. SumFunctionOnSet(g, G) = f[x]
  <2> DEFINE z == [a \in G |-> 0]
  <2>1. SumFunctionOnSet(z, G) = 0
    BY SumZero
  <2>2. Integral(z, G) /\ g[owner[x]] = f[x] /\ z[owner[x]] = 0
        /\ \A y \in G \ {owner[x]} : g[y] = z[y]
    BY DEF Integral
  <2> HIDE DEF z, g
  <2> QED BY <1>10, <2>1, <2>2, SumChanged
<1> HIDE DEF H, g
<1>12. SumFunctionOnSet(H(t), G) = SumFunctionOnSet(g, G) + SumFunctionOnSet(H(r), G)
  BY <1>8, <1>9, <1>10, SumOfSums
<1>13. SumFunctionOnSet(H(t), G) = SumFunctionOnSet(f, t)
  BY <1>5, <1>6, <1>11, <1>12
<1> QED BY <1>13

(* A set of numbers has a least one.                                        *)
LEMMA LeastNumber ==
    ASSUME NEW S \in SUBSET Nat, S # {}
    PROVE  \E x \in S : \A y \in S : x <= y
<1> DEFINE R == {p \in Nat \X Nat : p[1] < p[2]}
<1>1. IsWellFoundedOn(R, Nat)
  BY NatLessThanWellFounded, Zenon DEF OpToRel
<1>2. PICK x \in S : \A y \in S : ~ (<<y, x>> \in R)
  <2> HIDE DEF R
  <2> QED BY <1>1, WFMin
<1>3. ASSUME NEW y \in S PROVE x <= y
  <2>1. x \in Nat /\ y \in Nat /\ <<y, x>> \notin R
    BY <1>2
  <2>2. ~(y < x)
    BY <2>1
  <2> QED BY <2>1, <2>2
<1> QED BY <1>3

(* Numbers below a bound have a greatest one.                               *)
LEMMA GreatestNumber ==
    ASSUME NEW m \in Nat, NEW S \in SUBSET (0..m), S # {}
    PROVE  \E x \in S : \A y \in S : x >= y
<1>0. \A v \in S : v \in Nat /\ m - v \in Nat
  OBVIOUS
<1> DEFINE T == {m - x : x \in S}
<1>1. T \in SUBSET Nat /\ T # {}
  BY <1>0
<1>2. PICK y \in T : \A z \in T : y <= z
  <2> HIDE DEF T
  <2> QED BY <1>1, LeastNumber
<1>3. PICK x \in S : y = m - x
  BY <1>2
<1>4. ASSUME NEW z \in S PROVE x >= z
  <2>1. x \in Nat /\ z \in Nat
    BY <1>0
  <2>2. m - z \in T
    BY Zenon
  <2>3. m - x <= m - z
    BY <2>2, <1>2, <1>3
  <2> QED BY <2>1, <2>3
<1> QED BY <1>4

(* What the empty set has, and each set has when it does without the element*)
(* that c names, all sets have.                                             *)
LEMMA FoldInduction ==
    ASSUME NEW D, IsFiniteSet(D), NEW c, Picks(c, D), NEW Good, {} \in Good,
           \A s \in SUBSET D : s # {} /\ s \ {c[s]} \in Good => s \in Good
    PROVE  SUBSET D \subseteq Good
<1> DEFINE Bad == {s \in SUBSET D : s \notin Good}
<1> SUFFICES ASSUME Bad # {} PROVE FALSE
  OBVIOUS
<1>1. PICK t \in Bad : \A u \in Bad : ~(u \subseteq t /\ u # t)
  <2>1. Bad \in SUBSET SUBSET D
    OBVIOUS
  <2> HIDE DEF Bad
  <2> QED BY <2>1, LeastSubset
<1>2. t # {} /\ c[t] \in t
  BY DEF Picks
<1>3. t \ {c[t]} \notin Good
  BY <1>2
<1> QED BY <1>1, <1>2, <1>3

(* A fold whose operator keeps what is said of the values: it exists.       *)
LEMMA FoldWithin ==
    ASSUME NEW D, IsFiniteSet(D), NEW c, Picks(c, D), NEW V, NEW op, NEW base,
           NEW Inv, base \in Inv[{}], \A s \in SUBSET D : Inv[s] \subseteq V,
           \A s \in SUBSET D : s # {} =>
              \A v \in Inv[s \ {c[s]}] : op[<<c[s], v>>] \in Inv[s]
    PROVE  \E h : Folds(h, D, c, op, base) /\ \A s \in SUBSET D : h[s] \in Inv[s]
<1> DEFINE tame == [p \in D \X V |-> IF op[p] \in V THEN op[p] ELSE base]
<1>1. base \in V
  OBVIOUS
<1>2. \A x \in D, v \in V :
        /\ tame[<<x, v>>] \in V
        /\ op[<<x, v>>] \in V => tame[<<x, v>>] = op[<<x, v>>]
  BY <1>1
<1> HIDE DEF tame
<1>3. PICK h : TypedFold(h, D, c, V, tame, base)
  <2>1. \A x \in D, v \in V : tame[<<x, v>>] \in V
    BY <1>2, Zenon
  <2> QED BY <1>1, <2>1, FoldExists
<1>4. h = [s \in SUBSET D |-> IF s = {} THEN base ELSE tame[<<c[s], h[s \ {c[s]}]>>]]
  BY <1>3 DEF TypedFold, Folds
<1> DEFINE Good == {s \in SUBSET D : h[s] \in Inv[s]}
<1>5. ASSUME NEW s \in SUBSET D, s # {}, h[s \ {c[s]}] \in Inv[s \ {c[s]}]
      PROVE  /\ tame[<<c[s], h[s \ {c[s]}]>>] = op[<<c[s], h[s \ {c[s]}]>>]
             /\ h[s] \in Inv[s]
  <2> DEFINE v == h[s \ {c[s]}]
  <2>1. c[s] \in D /\ s \ {c[s]} \in SUBSET D
    BY <1>5 DEF Picks
  <2>2. v \in V /\ op[<<c[s], v>>] \in Inv[s] /\ op[<<c[s], v>>] \in V
    BY <2>1, <1>5
  <2>3. h[s] = tame[<<c[s], v>>]
    BY <1>4, <1>5
  <2> HIDE DEF v
  <2>4. tame[<<c[s], v>>] = op[<<c[s], v>>]
    BY <1>2, <2>1, <2>2
  <2> QED BY <2>2, <2>3, <2>4 DEF v
<1>6. h[{}] = base
  BY <1>4
<1>7. SUBSET D \subseteq Good
  <2>1. {} \in Good
    BY <1>6
  <2>2. \A s \in SUBSET D : s # {} /\ s \ {c[s]} \in Good => s \in Good
    BY <1>5
  <2> HIDE DEF Good
  <2> QED BY <2>1, <2>2, FoldInduction
<1>8. ASSUME NEW s \in SUBSET D
      PROVE  (IF s = {} THEN base ELSE tame[<<c[s], h[s \ {c[s]}]>>])
               = IF s = {} THEN base ELSE op[<<c[s], h[s \ {c[s]}]>>]
  <2>1. s \ {c[s]} \in SUBSET D
    OBVIOUS
  <2>2. h[s \ {c[s]}] \in Inv[s \ {c[s]}]
    BY <2>1, <1>7
  <2> QED BY <2>2, <1>5
<1>9. h = [s \in SUBSET D |-> IF s = {} THEN base ELSE op[<<c[s], h[s \ {c[s]}]>>]]
  BY <1>4, <1>8
<1> QED BY <1>7, <1>9 DEF Folds

(* What 0 has, and each number below n passes on, n has.                    *)
LEMMA CountUp ==
    ASSUME NEW n \in Nat, NEW Good, 0 \in Good, \A k \in 1..n : k - 1 \in Good => k \in Good
    PROVE  0..n \subseteq Good
<1> DEFINE Bad == {k \in 0..n : k \notin Good}
<1> SUFFICES ASSUME Bad # {} PROVE FALSE
  OBVIOUS
<1>1. PICK k \in Bad : \A j \in Bad : k <= j
  <2>1. Bad \in SUBSET Nat
    OBVIOUS
  <2> HIDE DEF Bad
  <2> QED BY <2>1, LeastNumber
<1>2. k # 0 /\ k \in 1..n /\ k - 1 \in 0..n /\ ~(k <= k - 1)
  OBVIOUS
<1> QED BY <1>1, <1>2

(* A sum of numbers in a row is what g counts.                              *)
LEMMA SumPrefix ==
    ASSUME NEW n \in Nat, NEW f, Integral(f, 1..n), NEW g, g[0] = 0,
           \A k \in 1..n : g[k] = g[k - 1] + f[k]
    PROVE  SumFunctionOnSet(f, 1..n) = g[n]
<1> DEFINE Good == {k \in 0..n : SumFunctionOnSet(f, 1..k) = g[k]}
<1>1. 0 \in Good
  BY SumEmpty
<1>2. ASSUME NEW k \in 1..n, k - 1 \in Good PROVE k \in Good
  <2>1. 1..k = (1..(k - 1)) \cup {k} /\ k \notin 1..(k - 1) /\ 1..k \subseteq 1..n
    OBVIOUS
  <2>2. IsFiniteSet(1..(k - 1)) /\ Integral(f, (1..(k - 1)) \cup {k})
    BY <2>1, FS_Interval DEF Integral
  <2>3. SumFunctionOnSet(f, 1..k) = f[k] + SumFunctionOnSet(f, 1..(k - 1))
    BY <2>1, <2>2, SumAdd
  <2>4. SumFunctionOnSet(f, 1..(k - 1)) = g[k - 1] /\ g[k - 1] \in Int /\ f[k] \in Int
    <3>1. SumFunctionOnSet(f, 1..(k - 1)) \in Int
      BY <2>2, SumType DEF Integral
    <3> QED BY <3>1, <1>2 DEF Integral
  <2> QED BY <2>3, <2>4
<1>3. 0..n \subseteq Good
  <2> HIDE DEF Good
  <2> QED BY <1>1, <1>2, CountUp
<1> QED BY <1>3
=============================================================================
