------------------------------ MODULE SumTheorems ------------------------------
(***************************************************************************)
(* Sums over finite sets, as the budgets of this code add up charges, scans  *)
(* and sizes of files.                                                      *)
(*                                                                         *)
(* The induction theorems of the library take an operator as a parameter; a  *)
(* least counterexample among the subsets of a finite set does without.      *)
(***************************************************************************)
EXTENDS FiniteSetTheorems, WellFoundedInduction, TLAPS

\* g adds up f over the subsets of S, one chosen element at a time.
Adds(g, f, S) ==
    g = [s \in SUBSET S |->
            IF s = {} THEN 0
            ELSE f[CHOOSE x \in s : TRUE] + g[s \ {CHOOSE x \in s : TRUE}]]

\* The library defines the sum by such a function.
LEMMA SumIsAdded ==
    ASSUME NEW f, NEW S
    PROVE  SumFunctionOnSet(f, S) = (CHOOSE g : Adds(g, f, S))[S]
BY DEF SumFunctionOnSet, FoldFunctionOnSet, MapThenFoldSet, Adds

\* Induction over a finite set, without an operator parameter: of the subsets with some
\* property one has no smaller one.
LEMMA Smallest ==
    ASSUME NEW S, IsFiniteSet(S), NEW T, T \subseteq SUBSET S, T # {}
    PROVE  \E A \in T : \A B \in T : B \subseteq A => B = A
<1>1. FiniteSubsetsOf(S) = SUBSET S
  BY FS_FiniteSubsetsOfFinite
<1>2. IsWellFoundedOn(StrictSubsetOrdering(S), SUBSET S)
  BY <1>1, FS_StrictSubsetOrderingWellFounded
<1>3. PICK A \in T : \A B \in T : ~ (<<B, A>> \in StrictSubsetOrdering(S))
  BY <1>2, WFMin
<1>4. ASSUME NEW B \in T, B \subseteq A, B # A PROVE FALSE
  <2>1. <<B, A>> \in StrictSubsetOrdering(S)
    BY <1>4 DEF StrictSubsetOrdering
  <2> QED BY <2>1, <1>3
<1> QED BY <1>4

\* There is at most one such function, and it does not depend on the set it is defined for.
LEMMA AddsAgree ==
    ASSUME NEW A, IsFiniteSet(A), NEW B, NEW f, NEW h,
           NEW fs, Adds(fs, f, A), NEW hs, Adds(hs, h, B),
           \A x \in A : f[x] = h[x]
    PROVE  \A s \in (SUBSET A) \cap (SUBSET B) : fs[s] = hs[s]
<1> DEFINE Bad == {s \in (SUBSET A) \cap (SUBSET B) : fs[s] # hs[s]}
<1>1. SUFFICES ASSUME Bad # {} PROVE FALSE
  OBVIOUS
<1>2. PICK s \in Bad : \A t \in Bad : t \subseteq s => t = s
  <2>1. Bad \subseteq SUBSET A
    OBVIOUS
  <2> HIDE DEF Bad
  <2> QED BY <2>1, <1>1, Smallest
<1> DEFINE c == CHOOSE x \in s : TRUE
<1>3. s # {}
  BY DEF Adds
<1>4. c \in s
  BY <1>3
<1>5. s \ {c} \notin Bad
  BY <1>2, <1>4
<1>6. fs[s \ {c}] = hs[s \ {c}]
  BY <1>5
<1>7. fs[s] = f[c] + fs[s \ {c}] /\ hs[s] = h[c] + hs[s \ {c}]
  BY <1>3 DEF Adds
<1>8. f[c] = h[c]
  BY <1>4
<1> QED BY <1>6, <1>7, <1>8

\* And there is one.
LEMMA AddsExist ==
    ASSUME NEW S, IsFiniteSet(S), NEW f
    PROVE  \E g : Adds(g, f, S)
<1> DEFINE Bad == {A \in SUBSET S : \A g : ~ Adds(g, f, A)}
<1>1. SUFFICES ASSUME Bad # {} PROVE FALSE
  OBVIOUS
<1>2. PICK A \in Bad : \A B \in Bad : B \subseteq A => B = A
  <2>1. Bad \subseteq SUBSET S
    OBVIOUS
  <2> HIDE DEF Bad
  <2> QED BY <2>1, <1>1, Smallest
<1> DEFINE some(B) == CHOOSE g : Adds(g, f, B)
           c(s) == CHOOSE x \in s : TRUE
           g == [s \in SUBSET A |->
                   IF s = {} THEN 0 ELSE f[c(s)] + some(s \ {c(s)})[s \ {c(s)}]]
<1>3. \A s : s # {} => c(s) \in s
  OBVIOUS
<1>4. \A B : B \subseteq A /\ B # A => Adds(some(B), f, B)
  <2>1. TAKE B
  <2>2. HAVE B \subseteq A /\ B # A
  <2>3. B \notin Bad
    BY <1>2, <2>2
  <2>4. \E h : Adds(h, f, B)
    BY <2>3, <2>2
  <2> QED BY <2>4
<1>5. ASSUME NEW s \in SUBSET A, s # {}
      PROVE  g[s \ {c(s)}] = some(s \ {c(s)})[s \ {c(s)}]
  <2> DEFINE t == s \ {c(s)}
  <2>1. t \subseteq A /\ t # A
    BY <1>5, <1>3
  <2>2. Adds(some(t), f, t)
    BY <2>1, <1>4
  <2>3. CASE t = {}
    <3>1. some(t)[t] = 0
      BY <2>2, <2>3 DEF Adds
    <3> QED BY <3>1, <2>3
  <2>4. CASE t # {}
    <3> DEFINE u == t \ {c(t)}
    <3>1. u \subseteq t /\ u # t /\ u # A /\ u \subseteq A
      BY <2>4, <1>3, <2>1
    <3>2. Adds(some(u), f, u)
      BY <3>1, <1>4
    <3>3. IsFiniteSet(t)
      BY <1>2, <2>1, FS_Subset
    <3>4. some(t)[t] = f[c(t)] + some(t)[u]
      BY <2>2, <2>4 DEF Adds
    <3>5. some(t)[u] = some(u)[u]
      <4>1. u \in (SUBSET t) \cap (SUBSET u)
        BY <3>1
      <4> HIDE DEF u, t, some
      <4> QED BY <4>1, <2>2, <3>2, <3>3, AddsAgree
    <3>6. g[t] = f[c(t)] + some(u)[u]
      BY <2>1, <2>4
    <3> QED BY <3>4, <3>5, <3>6
  <2> QED BY <2>3, <2>4
<1>6. Adds(g, f, A)
  <2>1. \A s \in SUBSET A : g[s] = IF s = {} THEN 0 ELSE f[c(s)] + g[s \ {c(s)}]
    <3>1. TAKE s \in SUBSET A
    <3>2. CASE s = {}
      BY <3>2
    <3>3. CASE s # {}
      <4>1. g[s] = f[c(s)] + some(s \ {c(s)})[s \ {c(s)}]
        BY <3>3
      <4>2. g[s \ {c(s)}] = some(s \ {c(s)})[s \ {c(s)}]
        BY <3>3, <1>5
      <4> QED BY <4>1, <4>2, <3>3
    <3> QED BY <3>2, <3>3
  <2>2. g = [s \in SUBSET A |-> g[s]]
    OBVIOUS
  <2>3. g = [s \in SUBSET A |-> IF s = {} THEN 0 ELSE f[c(s)] + g[s \ {c(s)}]]
    <3> HIDE DEF g, c
    <3> QED BY <2>1, <2>2
  <2> QED BY <2>3 DEF Adds
<1> QED BY <1>6

\* What SumFunctionOnSet computes, one element less each time.
LEMMA SumOfNone == ASSUME NEW f PROVE SumFunctionOnSet(f, {}) = 0
<1>1. IsFiniteSet({})
  BY FS_EmptySet
<1>2. PICK g : Adds(g, f, {})
  BY <1>1, AddsExist
<1> DEFINE h == CHOOSE k : Adds(k, f, {})
<1>3. Adds(h, f, {})
  BY <1>2
<1>4. h[{}] = 0
  <2> HIDE DEF h
  <2> QED BY <1>3 DEF Adds
<1> QED BY <1>4, SumIsAdded

LEMMA SumOfSome ==
    ASSUME NEW f, NEW S, IsFiniteSet(S), S # {}
    PROVE  \E x \in S : SumFunctionOnSet(f, S) = f[x] + SumFunctionOnSet(f, S \ {x})
<1> DEFINE c == CHOOSE x \in S : TRUE
           T == S \ {c}
           g == CHOOSE k : Adds(k, f, S)
           h == CHOOSE k : Adds(k, f, T)
<1>1. c \in S
  OBVIOUS
<1>2. IsFiniteSet(T)
  BY FS_Subset
<1>3. Adds(g, f, S) /\ Adds(h, f, T)
  BY <1>2, AddsExist
<1> HIDE DEF g, h
<1>4. g[S] = f[c] + g[T]
  BY <1>3 DEF Adds
<1>5. g[T] = h[T]
  <2>1. T \in (SUBSET S) \cap (SUBSET T)
    OBVIOUS
  <2> HIDE DEF T
  <2> QED BY <2>1, <1>3, AddsAgree
<1>6. SumFunctionOnSet(f, S) = g[S] /\ SumFunctionOnSet(f, T) = h[T]
  BY SumIsAdded DEF g, h
<1> QED BY <1>1, <1>4, <1>5, <1>6

LEMMA SumIsNat ==
    ASSUME NEW f, NEW S, IsFiniteSet(S), \A x \in S : f[x] \in Nat
    PROVE  SumFunctionOnSet(f, S) \in Nat
<1> DEFINE Bad == {A \in SUBSET S : SumFunctionOnSet(f, A) \notin Nat}
<1>1. SUFFICES ASSUME Bad # {} PROVE FALSE
  OBVIOUS
<1>2. PICK A \in Bad : \A B \in Bad : B \subseteq A => B = A
  <2>1. Bad \subseteq SUBSET S
    OBVIOUS
  <2> HIDE DEF Bad
  <2> QED BY <2>1, <1>1, Smallest
<1>3. A # {}
  BY SumOfNone
<1>4. PICK x \in A : SumFunctionOnSet(f, A) = f[x] + SumFunctionOnSet(f, A \ {x})
  BY <1>3, SumOfSome, FS_Subset
<1>5. SumFunctionOnSet(f, A \ {x}) \in Nat
  BY <1>2, <1>4
<1> QED BY <1>4, <1>5

\* Any element may be taken out first.
LEMMA SumWithout ==
    ASSUME NEW f, NEW S, IsFiniteSet(S), \A x \in S : f[x] \in Nat, NEW r \in S
    PROVE  SumFunctionOnSet(f, S) = f[r] + SumFunctionOnSet(f, S \ {r})
<1> DEFINE total(A) == SumFunctionOnSet(f, A)
           Bad == {A \in SUBSET S : \E x \in A : total(A) # f[x] + total(A \ {x})}
<1>1. SUFFICES ASSUME Bad # {} PROVE FALSE
  OBVIOUS
<1>2. PICK A \in Bad : \A B \in Bad : B \subseteq A => B = A
  <2>1. Bad \subseteq SUBSET S
    OBVIOUS
  <2> HIDE DEF Bad
  <2> QED BY <2>1, <1>1, Smallest
<1>3. PICK x \in A : total(A) # f[x] + total(A \ {x})
  OBVIOUS
<1>4. IsFiniteSet(A)
  BY FS_Subset
<1>5. PICK c \in A : total(A) = f[c] + total(A \ {c})
  BY <1>3, <1>4, SumOfSome
<1>6. c # x
  BY <1>3, <1>5
<1>7. \A y \in A \ {c} : total(A \ {c}) = f[y] + total((A \ {c}) \ {y})
  <2>1. A \ {c} \notin Bad
    <3>1. A \ {c} \subseteq A /\ A \ {c} # A
      OBVIOUS
    <3> HIDE DEF Bad
    <3> QED BY <1>2, <3>1
  <2>2. A \ {c} \in SUBSET S
    OBVIOUS
  <2> HIDE DEF total
  <2> QED BY <2>1, <2>2
<1>8. \A y \in A \ {x} : total(A \ {x}) = f[y] + total((A \ {x}) \ {y})
  <2>1. A \ {x} \notin Bad
    <3>1. A \ {x} \subseteq A /\ A \ {x} # A
      OBVIOUS
    <3> HIDE DEF Bad
    <3> QED BY <1>2, <3>1
  <2>2. A \ {x} \in SUBSET S
    OBVIOUS
  <2> HIDE DEF total
  <2> QED BY <2>1, <2>2
<1>9. total(A \ {c}) = f[x] + total(A \ {c, x}) /\ total(A \ {x}) = f[c] + total(A \ {c, x})
  <2>1. (A \ {c}) \ {x} = A \ {c, x} /\ (A \ {x}) \ {c} = A \ {c, x}
    OBVIOUS
  <2> HIDE DEF total
  <2> QED BY <1>6, <1>7, <1>8, <2>1
<1>10. total(A \ {c, x}) \in Nat
  BY SumIsNat, FS_Subset, <1>4
<1>11. f[c] \in Nat /\ f[x] \in Nat
  OBVIOUS
<1> QED BY <1>3, <1>5, <1>9, <1>10, <1>11

\* The sum depends on the summands only.
LEMMA SumIsSame ==
    ASSUME NEW f, NEW h, NEW S, IsFiniteSet(S), \A x \in S : f[x] = h[x]
    PROVE  SumFunctionOnSet(f, S) = SumFunctionOnSet(h, S)
<1> DEFINE g == CHOOSE k : Adds(k, f, S)
           k == CHOOSE k : Adds(k, h, S)
<1>1. Adds(g, f, S) /\ Adds(k, h, S)
  BY AddsExist
<1> HIDE DEF g, k
<1>2. g[S] = k[S]
  <2>1. S \in (SUBSET S) \cap (SUBSET S)
    OBVIOUS
  <2>2. \A s \in (SUBSET S) \cap (SUBSET S) : g[s] = k[s]
    BY <1>1, AddsAgree
  <2> QED BY <2>1, <2>2
<1> QED BY <1>2, SumIsAdded DEF g, k

\* A sum over parts.
LEMMA SumOfParts ==
    ASSUME NEW f, NEW S, IsFiniteSet(S), \A x \in S : f[x] \in Nat, NEW T \in SUBSET S
    PROVE  SumFunctionOnSet(f, S) = SumFunctionOnSet(f, T) + SumFunctionOnSet(f, S \ T)
<1> DEFINE total(A) == SumFunctionOnSet(f, A)
           Bad == {A \in SUBSET S : total(S) # total(A) + total(S \ A)}
<1>1. SUFFICES ASSUME Bad # {} PROVE FALSE
  OBVIOUS
<1>2. PICK A \in Bad : \A B \in Bad : B \subseteq A => B = A
  <2>1. Bad \subseteq SUBSET S
    OBVIOUS
  <2> HIDE DEF Bad
  <2> QED BY <2>1, <1>1, Smallest
<1>3. \A B \in SUBSET S : total(B) \in Nat
  BY SumIsNat, FS_Subset
<1>4. A # {}
  <2>1. S \ {} = S
    OBVIOUS
  <2>2. total({}) = 0
    BY SumOfNone
  <2>3. total(S) \in Nat
    BY <1>3
  <2> QED BY <2>1, <2>2, <2>3
<1>5. PICK x \in A : TRUE
  BY <1>4
<1>6. total(S) = total(A \ {x}) + total(S \ (A \ {x}))
  BY <1>2
<1>7. total(A) = f[x] + total(A \ {x})
  BY SumWithout, FS_Subset
<1>8. total(S \ (A \ {x})) = f[x] + total(S \ A)
  <2>1. (S \ (A \ {x})) \ {x} = S \ A
    OBVIOUS
  <2>2. x \in S \ (A \ {x})
    OBVIOUS
  <2>3. IsFiniteSet(S \ (A \ {x}))
    BY FS_Subset
  <2> DEFINE U == S \ (A \ {x})
  <2>4. \A y \in U : f[y] \in Nat
    OBVIOUS
  <2> HIDE DEF U, total
  <2>5. total(U) = f[x] + total(U \ {x})
    BY <2>2, <2>3, <2>4, SumWithout DEF total, U
  <2> QED BY <2>5, <2>1 DEF U
<1>9. f[x] \in Nat /\ total(A \ {x}) \in Nat /\ total(S \ A) \in Nat
  BY <1>3
<1> HIDE DEF total
<1>10. total(S) = total(A) + total(S \ A)
  BY <1>6, <1>7, <1>8, <1>9
<1> QED BY <1>10

LEMMA SumOfZeros ==
    ASSUME NEW f, NEW S, IsFiniteSet(S), \A x \in S : f[x] = 0
    PROVE  SumFunctionOnSet(f, S) = 0
<1> DEFINE Bad == {A \in SUBSET S : SumFunctionOnSet(f, A) # 0}
<1>1. SUFFICES ASSUME Bad # {} PROVE FALSE
  OBVIOUS
<1>2. PICK A \in Bad : \A B \in Bad : B \subseteq A => B = A
  <2>1. Bad \subseteq SUBSET S
    OBVIOUS
  <2> HIDE DEF Bad
  <2> QED BY <2>1, <1>1, Smallest
<1>3. A # {}
  BY SumOfNone
<1>4. PICK x \in A : SumFunctionOnSet(f, A) = f[x] + SumFunctionOnSet(f, A \ {x})
  BY <1>3, SumOfSome, FS_Subset
<1>5. SumFunctionOnSet(f, A \ {x}) = 0
  BY <1>2, <1>4
<1> QED BY <1>4, <1>5

\* One summand changes and others vanish.
LEMMA SumAfter ==
    ASSUME NEW f, NEW h, NEW S, IsFiniteSet(S), NEW gone \in SUBSET S, NEW r \in S \ gone,
           \A x \in S : f[x] \in Nat /\ h[x] \in Nat,
           \A x \in gone : h[x] = 0,
           \A x \in S \ (gone \cup {r}) : h[x] = f[x]
    PROVE  /\ SumFunctionOnSet(h, S) + f[r] + SumFunctionOnSet(f, gone)
                = SumFunctionOnSet(f, S) + h[r]
           /\ f[r] + SumFunctionOnSet(f, gone) <= SumFunctionOnSet(f, S)
           /\ SumFunctionOnSet(f, gone) \in Nat
           /\ SumFunctionOnSet(f, S) \in Nat /\ SumFunctionOnSet(h, S) \in Nat
<1> DEFINE T == S \ gone
           U == T \ {r}
<1>1. IsFiniteSet(gone) /\ IsFiniteSet(T) /\ IsFiniteSet(U)
  BY FS_Subset
<1>2. /\ SumFunctionOnSet(f, S) = SumFunctionOnSet(f, gone) + SumFunctionOnSet(f, T)
      /\ SumFunctionOnSet(h, S) = SumFunctionOnSet(h, gone) + SumFunctionOnSet(h, T)
  BY SumOfParts
<1>3. SumFunctionOnSet(f, T) = f[r] + SumFunctionOnSet(f, U)
  BY <1>1, SumWithout
<1>4. SumFunctionOnSet(h, T) = h[r] + SumFunctionOnSet(h, U)
  BY <1>1, SumWithout
<1>5. SumFunctionOnSet(h, gone) = 0
  BY <1>1, SumOfZeros
<1>6. SumFunctionOnSet(f, U) = SumFunctionOnSet(h, U)
  <2>1. \A x \in U : f[x] = h[x]
    OBVIOUS
  <2> HIDE DEF U
  <2> QED BY <2>1, <1>1, SumIsSame
<1>7. SumFunctionOnSet(f, U) \in Nat /\ SumFunctionOnSet(f, gone) \in Nat
  <2>1. (\A x \in U : f[x] \in Nat) /\ (\A x \in gone : f[x] \in Nat)
    OBVIOUS
  <2> HIDE DEF U
  <2> QED BY <2>1, <1>1, SumIsNat
<1>8. f[r] \in Nat /\ h[r] \in Nat
  OBVIOUS
<1> HIDE DEF T, U
<1> QED BY <1>2, <1>3, <1>4, <1>5, <1>6, <1>7, <1>8

\* Some summands vanish.
LEMMA SumAfterLoss ==
    ASSUME NEW f, NEW h, NEW S, IsFiniteSet(S), NEW gone \in SUBSET S,
           \A x \in S : f[x] \in Nat,
           \A x \in gone : h[x] = 0,
           \A x \in S \ gone : h[x] = f[x]
    PROVE  /\ SumFunctionOnSet(h, S) + SumFunctionOnSet(f, gone) = SumFunctionOnSet(f, S)
           /\ SumFunctionOnSet(f, gone) \in Nat
           /\ SumFunctionOnSet(f, S) \in Nat /\ SumFunctionOnSet(h, S) \in Nat
<1> DEFINE T == S \ gone
<1>1. IsFiniteSet(gone) /\ IsFiniteSet(T)
  BY FS_Subset
<1>2. \A x \in S : h[x] \in Nat
  OBVIOUS
<1>3. /\ SumFunctionOnSet(f, S) = SumFunctionOnSet(f, gone) + SumFunctionOnSet(f, T)
      /\ SumFunctionOnSet(h, S) = SumFunctionOnSet(h, gone) + SumFunctionOnSet(h, T)
  BY <1>2, SumOfParts
<1>4. SumFunctionOnSet(h, gone) = 0
  BY <1>1, SumOfZeros
<1>5. SumFunctionOnSet(f, T) = SumFunctionOnSet(h, T)
  <2>1. \A x \in T : f[x] = h[x]
    OBVIOUS
  <2> HIDE DEF T
  <2> QED BY <2>1, <1>1, SumIsSame
<1>6. SumFunctionOnSet(f, T) \in Nat /\ SumFunctionOnSet(f, gone) \in Nat
  <2>1. (\A x \in T : f[x] \in Nat) /\ (\A x \in gone : f[x] \in Nat)
    OBVIOUS
  <2> HIDE DEF T
  <2> QED BY <2>1, <1>1, SumIsNat
<1> HIDE DEF T
<1> QED BY <1>3, <1>4, <1>5, <1>6

\* The sum of sums.
LEMMA SumOfBoth ==
    ASSUME NEW f, NEW g, NEW h, NEW S, IsFiniteSet(S),
           \A x \in S : f[x] \in Nat /\ g[x] \in Nat /\ h[x] = f[x] + g[x]
    PROVE  SumFunctionOnSet(h, S) = SumFunctionOnSet(f, S) + SumFunctionOnSet(g, S)
<1> DEFINE Bad == {A \in SUBSET S :
               SumFunctionOnSet(h, A) # SumFunctionOnSet(f, A) + SumFunctionOnSet(g, A)}
<1>1. SUFFICES ASSUME Bad # {} PROVE FALSE
  OBVIOUS
<1>2. PICK A \in Bad : \A B \in Bad : B \subseteq A => B = A
  <2>1. Bad \subseteq SUBSET S
    OBVIOUS
  <2> HIDE DEF Bad
  <2> QED BY <2>1, <1>1, Smallest
<1>3. A # {}
  <2>1. /\ SumFunctionOnSet(f, {}) = 0 /\ SumFunctionOnSet(g, {}) = 0
        /\ SumFunctionOnSet(h, {}) = 0
    BY SumOfNone
  <2>2. {} \notin Bad
    BY <2>1
  <2> HIDE DEF Bad
  <2> QED BY <2>2
<1>4. PICK x \in A : TRUE
  BY <1>3
<1> DEFINE T == A \ {x}
<1>5. IsFiniteSet(A) /\ IsFiniteSet(T)
  BY FS_Subset
<1>6. /\ SumFunctionOnSet(f, A) = f[x] + SumFunctionOnSet(f, T)
      /\ SumFunctionOnSet(g, A) = g[x] + SumFunctionOnSet(g, T)
      /\ SumFunctionOnSet(h, A) = h[x] + SumFunctionOnSet(h, T)
  BY <1>5, SumWithout
<1>7. SumFunctionOnSet(f, T) \in Nat /\ SumFunctionOnSet(g, T) \in Nat
  <2>1. \A y \in T : f[y] \in Nat /\ g[y] \in Nat
    OBVIOUS
  <2> HIDE DEF T
  <2> QED BY <2>1, <1>5, SumIsNat
<1>8. SumFunctionOnSet(h, T) = SumFunctionOnSet(f, T) + SumFunctionOnSet(g, T)
  BY <1>2, <1>4
<1>9. f[x] \in Nat /\ g[x] \in Nat /\ h[x] = f[x] + g[x]
  OBVIOUS
<1>10. SumFunctionOnSet(h, A) # SumFunctionOnSet(f, A) + SumFunctionOnSet(g, A)
  OBVIOUS
<1> HIDE DEF T
<1> QED BY <1>6, <1>7, <1>8, <1>9, <1>10

\* Counting is adding ones.
LEMMA SumOfOnes ==
    ASSUME NEW f, NEW S, IsFiniteSet(S), \A x \in S : f[x] = 1
    PROVE  SumFunctionOnSet(f, S) = Cardinality(S)
<1> DEFINE Bad == {A \in SUBSET S : SumFunctionOnSet(f, A) # Cardinality(A)}
<1>1. SUFFICES ASSUME Bad # {} PROVE FALSE
  OBVIOUS
<1>2. PICK A \in Bad : \A B \in Bad : B \subseteq A => B = A
  <2>1. Bad \subseteq SUBSET S
    OBVIOUS
  <2> HIDE DEF Bad
  <2> QED BY <2>1, <1>1, Smallest
<1>3. A # {}
  BY SumOfNone, FS_EmptySet
<1>4. PICK x \in A : SumFunctionOnSet(f, A) = f[x] + SumFunctionOnSet(f, A \ {x})
  BY <1>3, SumOfSome, FS_Subset
<1>5. SumFunctionOnSet(f, A \ {x}) = Cardinality(A \ {x})
  BY <1>2, <1>4
<1>6. IsFiniteSet(A)
  BY FS_Subset
<1>7. Cardinality(A \ {x}) = Cardinality(A) - 1 /\ Cardinality(A) \in Nat
  BY <1>6, FS_RemoveElement, FS_CardinalityType
<1> QED BY <1>4, <1>5, <1>7

LEMMA SumCounts ==
    ASSUME NEW f, NEW S, IsFiniteSet(S), NEW T \in SUBSET S,
           \A x \in S : f[x] = IF x \in T THEN 1 ELSE 0
    PROVE  SumFunctionOnSet(f, S) = Cardinality(T) /\ Cardinality(T) \in Nat
<1> DEFINE U == S \ T
<1>1. IsFiniteSet(T) /\ IsFiniteSet(U)
  BY FS_Subset
<1>2. SumFunctionOnSet(f, S) = SumFunctionOnSet(f, T) + SumFunctionOnSet(f, U)
  BY SumOfParts
<1>3. SumFunctionOnSet(f, T) = Cardinality(T)
  BY <1>1, SumOfOnes
<1>4. SumFunctionOnSet(f, U) = 0
  <2>1. \A x \in U : f[x] = 0
    OBVIOUS
  <2> HIDE DEF U
  <2> QED BY <1>1, <2>1, SumOfZeros
<1>5. Cardinality(T) \in Nat
  BY <1>1, FS_CardinalityType
<1> HIDE DEF U
<1> QED BY <1>2, <1>3, <1>4, <1>5

\* At most one summand changes.
LEMMA SumMoves ==
    ASSUME NEW f, NEW h, NEW S, IsFiniteSet(S), NEW r,
           \A x \in S : f[x] \in Nat /\ h[x] \in Nat,
           \A x \in S \ {r} : h[x] = f[x]
    PROVE  /\ SumFunctionOnSet(h, S)
                = SumFunctionOnSet(f, S) + (IF r \in S THEN h[r] - f[r] ELSE 0)
           /\ SumFunctionOnSet(f, S) \in Nat /\ SumFunctionOnSet(h, S) \in Nat
<1>1. SumFunctionOnSet(f, S) \in Nat /\ SumFunctionOnSet(h, S) \in Nat
  BY SumIsNat
<1>2. CASE r \in S
  <2> DEFINE T == S \ {r}
  <2>1. IsFiniteSet(T)
    BY FS_Subset
  <2>2. /\ SumFunctionOnSet(f, S) = f[r] + SumFunctionOnSet(f, T)
        /\ SumFunctionOnSet(h, S) = h[r] + SumFunctionOnSet(h, T)
    BY <1>2, SumWithout
  <2>3. SumFunctionOnSet(f, T) = SumFunctionOnSet(h, T)
    BY <2>1, SumIsSame
  <2>4. SumFunctionOnSet(f, T) \in Nat
    <3>1. \A x \in T : f[x] \in Nat
      OBVIOUS
    <3> HIDE DEF T
    <3> QED BY <3>1, <2>1, SumIsNat
  <2>5. f[r] \in Nat /\ h[r] \in Nat
    BY <1>2
  <2> HIDE DEF T
  <2> QED BY <1>1, <1>2, <2>2, <2>3, <2>4, <2>5
<1>3. CASE r \notin S
  <2>1. \A x \in S : f[x] = h[x]
    BY <1>3
  <2>2. SumFunctionOnSet(f, S) = SumFunctionOnSet(h, S)
    BY <2>1, SumIsSame
  <2> QED BY <1>1, <1>3, <2>2
<1> QED BY <1>2, <1>3

================================================================================
