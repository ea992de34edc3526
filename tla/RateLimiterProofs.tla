--------------------------- MODULE RateLimiterProofs ---------------------------
(***************************************************************************)
(* The rate limiter is safe for any callers, capacities, permits, costs,   *)
(* overruns, penalties and lengths of its queues: types, the permits, the  *)
(* queues and their timers, the books, and the order of service.           *)
(*                                                                         *)
(* The argument: every action prepares some buckets (Ready) and hands them *)
(* to Reschedule, or leaves every queue alone.  Reschedule pays a prefix   *)
(* of each queue (PayQueue), charges those it pays what the bucket loses   *)
(* (RescheduleCharges) and times the new head (ReschedulePays).  IInv says *)
(* besides that a caller has a promise exactly in a stage that is          *)
(* configured (Staged), that callers queue for a permit only when all are  *)
(* out (FullPool), and what of a bucket never changes but by a charge      *)
(* (Value).  The books are sums over all callers: a sum over a finite set  *)
(* obeys its recursion because of two functions that differ there would be *)
(* a smallest set on which they do (SmallestSet).                          *)
(***************************************************************************)
EXTENDS RateLimiter, FiniteSetTheorems, SequenceTheorems, TLAPS

-----------------------------------------------------------------------------
(* Sums over a finite set *)

(* Every nonempty set of naturals has a least element: induction, said of sets. *)
LEMMA LeastElement ==
    ASSUME NEW T \in SUBSET Nat, T # {}
    PROVE  \E m \in T : \A n \in T : m <= n
<1>1. PICK m \in T : \A n \in T : ~ (<<n, m>> \in OpToRel(<, Nat))
  <2> HIDE DEF OpToRel
  <2> QED
    BY NatLessThanWellFounded, WFMin
<1>2. \A n \in T : ~ (n < m)
  BY <1>1 DEF OpToRel
<1> QED
  BY <1>2

Pick(s) == CHOOSE x \in s : TRUE

(* What the recursion of a sum over a set says. *)
IsSum(sum, f, S) ==
    sum = [s \in SUBSET S |-> IF s = {} THEN 0 ELSE f[Pick(s)] + sum[s \ {Pick(s)}]]

(* The library sums by a function chosen to obey the recursion. *)
LEMMA SumUnfolds ==
    ASSUME NEW f, NEW S
    PROVE  SumFunctionOnSet(f, S) = (CHOOSE sum : IsSum(sum, f, S))[S]
  BY DEF SumFunctionOnSet, FoldFunctionOnSet, MapThenFoldSet, IsSum, Pick

(* Of a family of finite sets one is smallest: induction on their size. *)
LEMMA SmallestSet ==
    ASSUME NEW S, IsFiniteSet(S), NEW Bad \in SUBSET (SUBSET S), Bad # {}
    PROVE  \E s \in Bad : /\ IsFiniteSet(s) /\ Cardinality(s) \in Nat
                          /\ \A t \in SUBSET S : Cardinality(t) < Cardinality(s) => t \notin Bad
<1>1. \A s \in SUBSET S : IsFiniteSet(s) /\ Cardinality(s) \in Nat
  BY FS_Subset, FS_CardinalityType
<1> DEFINE Sizes == {Cardinality(s) : s \in Bad}
<1>2. PICK n \in Sizes : \A m \in Sizes : n <= m
  <2>1. Sizes \in SUBSET Nat /\ Sizes # {}
    BY <1>1
  <2> HIDE DEF Sizes
  <2> QED
    BY <2>1, LeastElement
<1>3. PICK s \in Bad : Cardinality(s) = n
  BY <1>2
<1>4. ASSUME NEW t \in Bad PROVE ~ (Cardinality(t) < Cardinality(s))
  BY <1>1, <1>2, <1>3, <1>4
<1> QED
  BY <1>1, <1>3, <1>4

(* A set without one of its elements is smaller. *)
LEMMA Smaller ==
    ASSUME NEW S, IsFiniteSet(S), NEW x \in S
    PROVE  /\ IsFiniteSet(S \ {x})
           /\ Cardinality(S \ {x}) \in Nat /\ Cardinality(S) \in Nat
           /\ Cardinality(S \ {x}) < Cardinality(S)
<1>1. IsFiniteSet(S \ {x}) /\ Cardinality(S \ {x}) = Cardinality(S) - 1
  BY FS_RemoveElement
<1>2. Cardinality(S) \in Nat /\ Cardinality(S \ {x}) \in Nat
  BY <1>1, FS_CardinalityType
<1> QED
  BY <1>1, <1>2

\* The recursion, for the subsets of S with at most n elements.
SumsTo(g, f, S, n) ==
    \A s \in SUBSET S : Cardinality(s) <= n =>
        /\ g[s] \in Int
        /\ g[s] = IF s = {} THEN 0 ELSE f[Pick(s)] + g[s \ {Pick(s)}]

(* A function that obeys the recursion exists: built by adding one size at a
   time to one defined on the smaller sets. *)
LEMMA SumExists ==
    ASSUME NEW S, IsFiniteSet(S), NEW f, \A x \in S : f[x] \in Int
    PROVE  \E sum : IsSum(sum, f, S) /\ \A s \in SUBSET S : sum[s] \in Int
<1>0. \A s \in SUBSET S : IsFiniteSet(s) /\ Cardinality(s) \in Nat /\ Cardinality(s) <= Cardinality(S)
  BY FS_Subset, FS_CardinalityType
<1>1. \E g : SumsTo(g, f, S, 0)
  <2>1. \A s \in SUBSET S : Cardinality(s) <= 0 => s = {}
    BY <1>0, FS_EmptySet
  <2>2. SumsTo([s \in SUBSET S |-> 0], f, S, 0)
    BY <2>1 DEF SumsTo
  <2> QED
    BY <2>2
<1>2. ASSUME NEW n \in Nat, NEW g, SumsTo(g, f, S, n)
      PROVE  \E h : SumsTo(h, f, S, n + 1)
  <2> DEFINE h == [s \in SUBSET S |-> IF s = {} THEN 0 ELSE f[Pick(s)] + g[s \ {Pick(s)}]]
  <2>1. ASSUME NEW s \in SUBSET S, Cardinality(s) <= n + 1, s # {}
        PROVE  /\ Pick(s) \in s /\ s \ {Pick(s)} \in SUBSET S
               /\ Cardinality(s \ {Pick(s)}) <= n
    <3>1. Pick(s) \in s
      BY <2>1 DEF Pick
    <3> QED
      BY <1>0, <2>1, <3>1, Smaller
  <2>2. ASSUME NEW s \in SUBSET S, Cardinality(s) <= n PROVE h[s] = g[s] /\ g[s] \in Int
    <3>1. /\ g[s] \in Int
          /\ g[s] = IF s = {} THEN 0 ELSE f[Pick(s)] + g[s \ {Pick(s)}]
      BY <1>2, <2>2 DEF SumsTo
    <3> QED
      BY <3>1
  <2>3. ASSUME NEW s \in SUBSET S, Cardinality(s) <= n + 1
        PROVE  h[s] \in Int /\ h[s] = IF s = {} THEN 0 ELSE f[Pick(s)] + h[s \ {Pick(s)}]
    <3>1. h[s] = IF s = {} THEN 0 ELSE f[Pick(s)] + g[s \ {Pick(s)}]
      OBVIOUS
    <3> HIDE DEF h
    <3>2. CASE s = {}
      BY <3>1, <3>2
    <3>3. CASE s # {}
      <4>1. h[s \ {Pick(s)}] = g[s \ {Pick(s)}] /\ g[s \ {Pick(s)}] \in Int /\ f[Pick(s)] \in Int
        BY <2>1, <2>2, <2>3, <3>3
      <4> QED
        BY <3>1, <3>3, <4>1
    <3> QED
      BY <3>2, <3>3
  <2>4. SumsTo(h, f, S, n + 1)
    <3> HIDE DEF h
    <3> QED
      BY <2>3 DEF SumsTo
  <2> QED
    BY <2>4
<1>3. ASSUME NEW n \in Nat PROVE \E g : SumsTo(g, f, S, n)
  <2> DEFINE Bad == {m \in Nat : ~ \E g : SumsTo(g, f, S, m)}
  <2>1. SUFFICES ASSUME Bad # {} PROVE FALSE
    BY <1>3
  <2>2. PICK m \in Bad : \A k \in Bad : m <= k
    <3>1. Bad \in SUBSET Nat
      OBVIOUS
    <3> HIDE DEF Bad
    <3> QED
      BY <2>1, <3>1, LeastElement
  <2>3. m # 0
    BY <1>1, <2>2
  <2>4. m - 1 \in Nat /\ m - 1 \notin Bad
    BY <2>2, <2>3
  <2>5. \E g : SumsTo(g, f, S, m - 1)
    BY <2>4
  <2>6. \E h : SumsTo(h, f, S, (m - 1) + 1)
    BY <1>2, <2>4, <2>5
  <2>7. (m - 1) + 1 = m
    BY <2>2
  <2> QED
    BY <2>2, <2>6, <2>7
<1>4. PICK g : SumsTo(g, f, S, Cardinality(S))
  BY <1>0, <1>3
<1>5. \A s \in SUBSET S : g[s] \in Int /\ g[s] = IF s = {} THEN 0 ELSE f[Pick(s)] + g[s \ {Pick(s)}]
  BY <1>0, <1>4 DEF SumsTo
<1> DEFINE sum == [s \in SUBSET S |-> g[s]]
<1>6. \A s \in SUBSET S : sum[s] = g[s] /\ s \ {Pick(s)} \in SUBSET S
  OBVIOUS
<1>7. sum = [s \in SUBSET S |-> IF s = {} THEN 0 ELSE f[Pick(s)] + sum[s \ {Pick(s)}]]
  BY <1>5, <1>6
<1> QED
  BY <1>5, <1>6, <1>7 DEF IsSum

\* f has one sum over the subsets of S.
LEMMA SumUnique ==
    ASSUME NEW S, IsFiniteSet(S), NEW f, \A x \in S : f[x] \in Int,
           NEW R, S \subseteq R, NEW sum, IsSum(sum, f, R), NEW tot, IsSum(tot, f, S)
    PROVE  \A s \in SUBSET S : sum[s] \in Int /\ sum[s] = tot[s]
<1> DEFINE Bad == {s \in SUBSET S : ~ (sum[s] \in Int /\ sum[s] = tot[s])}
<1> SUFFICES ASSUME Bad # {} PROVE FALSE
  OBVIOUS
<1>1. PICK s \in Bad : /\ IsFiniteSet(s) /\ Cardinality(s) \in Nat
                       /\ \A t \in SUBSET S : Cardinality(t) < Cardinality(s) => t \notin Bad
  <2>1. Bad \in SUBSET (SUBSET S)
    OBVIOUS
  <2> HIDE DEF Bad
  <2> QED
    BY <2>1, SmallestSet
<1>2. s \in SUBSET S /\ s \in SUBSET R
  OBVIOUS
<1>3. /\ sum[s] = IF s = {} THEN 0 ELSE f[Pick(s)] + sum[s \ {Pick(s)}]
      /\ tot[s] = IF s = {} THEN 0 ELSE f[Pick(s)] + tot[s \ {Pick(s)}]
  BY <1>2 DEF IsSum
<1>4. s # {}
  BY <1>1, <1>3
<1>5. Pick(s) \in s
  BY <1>4 DEF Pick
<1>6. Cardinality(s \ {Pick(s)}) < Cardinality(s) /\ s \ {Pick(s)} \in SUBSET S
  BY <1>1, <1>2, <1>5, Smaller
<1>7. sum[s \ {Pick(s)}] \in Int /\ sum[s \ {Pick(s)}] = tot[s \ {Pick(s)}]
  BY <1>1, <1>6
<1>8. f[Pick(s)] \in Int
  BY <1>2, <1>5
<1>9. sum[s] \in Int /\ sum[s] = tot[s]
  BY <1>3, <1>4, <1>7, <1>8
<1> QED
  BY <1>1, <1>9

SumOver(f, S) == SumFunctionOnSet(f, S)

(* A sum is a number, and that of an element and of the rest. *)
LEMMA SumRecursion ==
    ASSUME NEW S, IsFiniteSet(S), NEW f, \A x \in S : f[x] \in Int
    PROVE  /\ SumOver(f, S) \in Int
           /\ SumOver(f, {}) = 0
           /\ \A s \in SUBSET S : s # {} => SumOver(f, s) = f[Pick(s)] + SumOver(f, s \ {Pick(s)})
<1>1. ASSUME NEW s \in SUBSET S
      PROVE  IsSum(CHOOSE sum : IsSum(sum, f, s), f, s)
  <2>1. \A x \in s : f[x] \in Int
    OBVIOUS
  <2>2. IsFiniteSet(s)
    BY FS_Subset
  <2> QED
    BY <2>1, <2>2, SumExists
<1> DEFINE all == CHOOSE sum : IsSum(sum, f, S)
<1>2. ASSUME NEW s \in SUBSET S
      PROVE  all[s] \in Int /\ all[s] = SumOver(f, s)
  <2> DEFINE own == CHOOSE sum : IsSum(sum, f, s)
  <2>1. IsSum(own, f, s) /\ IsSum(all, f, S)
    BY <1>1
  <2>2. IsFiniteSet(s) /\ s \subseteq S /\ \A x \in s : f[x] \in Int
    BY FS_Subset
  <2>3. SumOver(f, s) = own[s]
    BY SumUnfolds DEF SumOver
  <2> HIDE DEF own, all
  <2>4. \A t \in SUBSET s : all[t] \in Int /\ all[t] = own[t]
    BY <2>1, <2>2, SumUnique
  <2> QED
    BY <2>3, <2>4
<1>3. IsSum(all, f, S)
  BY <1>1
<1> HIDE DEF all
<1>4. \A s \in SUBSET S : all[s] = IF s = {} THEN 0 ELSE f[Pick(s)] + all[s \ {Pick(s)}]
  BY <1>3 DEF IsSum
<1>5. {} \in SUBSET S /\ S \in SUBSET S /\ \A s \in SUBSET S : s \ {Pick(s)} \in SUBSET S
  OBVIOUS
<1> QED
  BY <1>2, <1>4, <1>5

(* A sum over a finite set does not depend on the order. *)
LEMMA SumRemove ==
    ASSUME NEW S, IsFiniteSet(S), NEW f, \A x \in S : f[x] \in Int
    PROVE  \A s \in SUBSET S : \A x \in s : SumOver(f, s) = f[x] + SumOver(f, s \ {x})
<1> DEFINE Bad == {s \in SUBSET S : \E x \in s : SumOver(f, s) # f[x] + SumOver(f, s \ {x})}
<1> SUFFICES ASSUME Bad # {} PROVE FALSE
  OBVIOUS
<1>1. PICK s \in Bad : /\ IsFiniteSet(s) /\ Cardinality(s) \in Nat
                       /\ \A t \in SUBSET S : Cardinality(t) < Cardinality(s) => t \notin Bad
  <2>1. Bad \in SUBSET (SUBSET S)
    OBVIOUS
  <2> HIDE DEF Bad
  <2> QED
    BY <2>1, SmallestSet
<1>2. PICK x \in s : SumOver(f, s) # f[x] + SumOver(f, s \ {x})
  OBVIOUS
<1> DEFINE p == Pick(s)
<1>3. p \in s /\ s \in SUBSET S
  BY <1>2 DEF Pick
<1>4. SumOver(f, s) = f[p] + SumOver(f, s \ {p})
  BY <1>2, <1>3, SumRecursion
<1>5. x # p
  BY <1>2, <1>4
<1>6. \A y \in s : s \ {y} \in SUBSET S /\ s \ {y} \notin Bad
  BY <1>1, <1>3, Smaller
<1> HIDE DEF p
<1>7. SumOver(f, s \ {p}) = f[x] + SumOver(f, (s \ {p}) \ {x})
  BY <1>2, <1>3, <1>5, <1>6
<1>8. SumOver(f, s \ {x}) = f[p] + SumOver(f, (s \ {x}) \ {p})
  BY <1>2, <1>3, <1>5, <1>6
<1>9. (s \ {p}) \ {x} = (s \ {x}) \ {p}
  OBVIOUS
<1>10. f[x] \in Int /\ f[p] \in Int
  BY <1>2, <1>3
<1>11. SumOver(f, (s \ {p}) \ {x}) \in Int
  <2>1. (s \ {p}) \ {x} \in SUBSET S
    BY <1>3
  <2>2. IsFiniteSet((s \ {p}) \ {x}) /\ \A y \in (s \ {p}) \ {x} : f[y] \in Int
    BY <2>1, FS_Subset
  <2> QED
    BY <2>2, SumRecursion
<1>12. SumOver(f, s \ {x}) = f[p] + SumOver(f, (s \ {p}) \ {x})
  BY <1>8, <1>9
<1>13. SumOver(f, s) = f[p] + (f[x] + SumOver(f, (s \ {p}) \ {x}))
  BY <1>4, <1>7
<1>14. SumOver(f, s) = f[x] + SumOver(f, s \ {x})
  BY <1>10, <1>11, <1>12, <1>13
<1> QED
  BY <1>2, <1>14

(* Functions that agree have the same sums. *)
LEMMA SumAgree ==
    ASSUME NEW S, IsFiniteSet(S), NEW f, NEW g, \A x \in S : f[x] \in Int /\ g[x] = f[x]
    PROVE  \A s \in SUBSET S : SumOver(f, s) = SumOver(g, s)
<1> DEFINE Bad == {s \in SUBSET S : SumOver(f, s) # SumOver(g, s)}
<1> SUFFICES ASSUME Bad # {} PROVE FALSE
  OBVIOUS
<1>1. PICK s \in Bad : /\ IsFiniteSet(s) /\ Cardinality(s) \in Nat
                       /\ \A t \in SUBSET S : Cardinality(t) < Cardinality(s) => t \notin Bad
  <2>1. Bad \in SUBSET (SUBSET S)
    OBVIOUS
  <2> HIDE DEF Bad
  <2> QED
    BY <2>1, SmallestSet
<1>2. \A x \in S : f[x] \in Int /\ g[x] \in Int
  OBVIOUS
<1>3. s # {}
  BY <1>2, SumRecursion
<1>4. Pick(s) \in s
  BY <1>3 DEF Pick
<1>5. /\ SumOver(f, s) = f[Pick(s)] + SumOver(f, s \ {Pick(s)})
      /\ SumOver(g, s) = g[Pick(s)] + SumOver(g, s \ {Pick(s)})
  BY <1>2, <1>3, SumRecursion
<1>6. s \ {Pick(s)} \in SUBSET S /\ s \ {Pick(s)} \notin Bad
  BY <1>1, <1>4, Smaller
<1>7. SumOver(f, s \ {Pick(s)}) = SumOver(g, s \ {Pick(s)})
  BY <1>6
<1>8. f[Pick(s)] = g[Pick(s)]
  BY <1>1, <1>4
<1>9. SumOver(f, s) = SumOver(g, s)
  BY <1>5, <1>7, <1>8
<1> QED
  BY <1>1, <1>9

(* Naturals add up to a natural. *)
LEMMA SumIsNatural ==
    ASSUME NEW S, IsFiniteSet(S), NEW f, \A x \in S : f[x] \in Nat
    PROVE  SumOver(f, S) \in Nat
<1> DEFINE Bad == {s \in SUBSET S : SumOver(f, s) \notin Nat}
<1>0. S \in SUBSET S
  OBVIOUS
<1> SUFFICES ASSUME Bad # {} PROVE FALSE
  BY <1>0
<1>1. PICK s \in Bad : /\ IsFiniteSet(s) /\ Cardinality(s) \in Nat
                       /\ \A t \in SUBSET S : Cardinality(t) < Cardinality(s) => t \notin Bad
  <2>1. Bad \in SUBSET (SUBSET S)
    OBVIOUS
  <2> HIDE DEF Bad
  <2> QED
    BY <2>1, SmallestSet
<1>2. \A x \in S : f[x] \in Int
  OBVIOUS
<1>3. s # {}
  <2>1. SumOver(f, {}) = 0
    BY <1>2, SumRecursion
  <2> QED
    BY <1>1, <2>1
<1>4. Pick(s) \in s
  BY <1>3 DEF Pick
<1>5. SumOver(f, s) = f[Pick(s)] + SumOver(f, s \ {Pick(s)})
  BY <1>2, <1>3, SumRecursion
<1>6. s \ {Pick(s)} \in SUBSET S /\ s \ {Pick(s)} \notin Bad
  BY <1>1, <1>4, Smaller
<1>7. SumOver(f, s \ {Pick(s)}) \in Nat /\ f[Pick(s)] \in Nat
  BY <1>4, <1>6
<1>8. SumOver(f, s) \in Nat
  BY <1>5, <1>7
<1> QED
  BY <1>1, <1>8

(* A sum of zeros is zero. *)
LEMMA SumOfNothing ==
    ASSUME NEW S, IsFiniteSet(S), NEW f, \A x \in S : f[x] = 0
    PROVE  SumOver(f, S) = 0
<1> DEFINE Bad == {s \in SUBSET S : SumOver(f, s) # 0}
<1>0. S \in SUBSET S
  OBVIOUS
<1> SUFFICES ASSUME Bad # {} PROVE FALSE
  BY <1>0
<1>1. PICK s \in Bad : /\ IsFiniteSet(s) /\ Cardinality(s) \in Nat
                       /\ \A t \in SUBSET S : Cardinality(t) < Cardinality(s) => t \notin Bad
  <2>1. Bad \in SUBSET (SUBSET S)
    OBVIOUS
  <2> HIDE DEF Bad
  <2> QED
    BY <2>1, SmallestSet
<1>2. \A x \in S : f[x] \in Int
  OBVIOUS
<1>3. s # {}
  <2>1. SumOver(f, {}) = 0
    BY <1>2, SumRecursion
  <2> QED
    BY <1>1, <2>1
<1>4. Pick(s) \in s
  BY <1>3 DEF Pick
<1>5. SumOver(f, s) = f[Pick(s)] + SumOver(f, s \ {Pick(s)})
  BY <1>2, <1>3, SumRecursion
<1>6. s \ {Pick(s)} \in SUBSET S /\ s \ {Pick(s)} \notin Bad
  BY <1>1, <1>4, Smaller
<1>7. SumOver(f, s \ {Pick(s)}) = 0 /\ f[Pick(s)] = 0
  BY <1>4, <1>6
<1>8. SumOver(f, s) = 0
  BY <1>5, <1>7
<1> QED
  BY <1>1, <1>8

(* Any element may be the one set aside. *)
LEMMA SumTake ==
    ASSUME NEW S, IsFiniteSet(S), NEW f, \A x \in S : f[x] \in Int, NEW x \in S
    PROVE  SumOver(f, S) \in Int /\ SumOver(f, S) = f[x] + SumOver(f, S \ {x})
<1>1. SumOver(f, S) \in Int
  BY SumRecursion
<1>2. S \in SUBSET S
  OBVIOUS
<1>3. SumOver(f, S) = f[x] + SumOver(f, S \ {x})
  BY <1>2, SumRemove
<1> QED
  BY <1>1, <1>3

LEMMA SumSame ==
    ASSUME NEW S, IsFiniteSet(S), NEW f, NEW g, \A x \in S : f[x] \in Int /\ g[x] = f[x]
    PROVE  SumOver(f, S) = SumOver(g, S)
<1>1. \A s \in SUBSET S : SumOver(f, s) = SumOver(g, s)
  BY SumAgree
<1> QED
  BY <1>1

(* Two functions that agree but at x have sums that differ as they do at x. *)
DifferAt(f, g, x, S) ==
    /\ IsFiniteSet(S) /\ x \in S
    /\ \A y \in S : f[y] \in Int /\ g[y] \in Int
    /\ \A y \in S \ {x} : g[y] = f[y]

(* Where one value changes, the sum changes by as much. *)
LEMMA SumChange ==
    ASSUME NEW S, NEW f, NEW g, NEW x, DifferAt(f, g, x, S)
    PROVE  SumOver(g, S) = SumOver(f, S) + g[x] - f[x]
<1> USE DEF DifferAt
<1>1. SumOver(f, S) = f[x] + SumOver(f, S \ {x}) /\ SumOver(g, S) = g[x] + SumOver(g, S \ {x})
  BY SumTake
<1>2. IsFiniteSet(S \ {x})
  BY FS_RemoveElement
<1>3. SumOver(f, S \ {x}) = SumOver(g, S \ {x}) /\ SumOver(f, S \ {x}) \in Int
  BY <1>2, SumSame, SumRecursion
<1>4. f[x] \in Int /\ g[x] \in Int
  OBVIOUS
<1> QED
  BY <1>1, <1>3, <1>4

(* What each of the first n of a queue takes adds up to what they take together. *)
Pays(f, g, S, need, q, own, n) ==
    /\ IsFiniteSet(S) /\ q \in Seq(S) /\ IsInjective(q) /\ n \in 0..Len(q)
    /\ \A x \in S : need[x] \in Int /\ f[x] \in Int
    /\ \A i \in 1..Len(q) : own[i] = need[q[i]]
    /\ \A i \in 1..n : g[q[i]] = f[q[i]] + need[q[i]]
    /\ \A x \in S : (\A i \in 1..n : q[i] # x) => g[x] = f[x]

(* Who stands in the front of a queue pays, each of them once. *)
LEMMA SumOfQueue ==
    ASSUME NEW f, NEW g, NEW S, NEW need, NEW q, NEW own, NEW n, Pays(f, g, S, need, q, own, n)
    PROVE  SumOver(own, 1..n) \in Int /\ SumOver(g, S) = SumOver(f, S) + SumOver(own, 1..n)
<1> USE DEF Pays
<1> DEFINE part(k) == [x \in S |-> f[x] + IF \E i \in 1..k : q[i] = x THEN need[x] ELSE 0]
           Right(k) == SumOver(own, 1..k) \in Int /\ SumOver(part(k), S) = SumOver(f, S) + SumOver(own, 1..k)
<1>1. DOMAIN q = 1..Len(q) /\ Len(q) \in Nat /\ (\A i \in 1..Len(q) : q[i] \in S /\ own[i] \in Int)
  <2>1. DOMAIN q = 1..Len(q) /\ Len(q) \in Nat /\ \A i \in 1..Len(q) : q[i] \in S
    OBVIOUS
  <2> QED
    BY <2>1
<1>2. \A k \in 0..Len(q) : \A x \in S : part(k)[x] \in Int
  OBVIOUS
<1>3. SumOver(f, S) \in Int
  BY SumRecursion
<1>4. Right(0)
  <2>1. 1..0 = {} /\ \A x \in S : part(0)[x] = f[x]
    OBVIOUS
  <2> HIDE DEF part
  <2>2. SumOver(own, {}) = 0
    BY FS_EmptySet, SumRecursion
  <2>3. SumOver(part(0), S) = SumOver(f, S)
    <3>1. PICK a : a = part(0)
      OBVIOUS
    <3>2. \A x \in S : f[x] \in Int /\ a[x] = f[x]
      BY <2>1, <3>1
    <3>3. SumOver(f, S) = SumOver(a, S)
      BY ONLY <3>2, IsFiniteSet(S), SumSame
    <3> QED
      BY <3>1, <3>3
  <2> QED
    BY <1>3, <2>1, <2>2, <2>3
<1>5. ASSUME NEW k \in 1..Len(q), Right(k - 1) PROVE Right(k)
  <2>1. 1..k \subseteq 1..Len(q) /\ k \in 1..k /\ (1..k) \ {k} = 1..(k - 1) /\ k - 1 \in 0..Len(q) /\ k \in 0..Len(q)
    BY <1>1
  <2>2. IsFiniteSet(1..k) /\ \A i \in 1..k : own[i] \in Int
    BY <1>1, <2>1, FS_Interval
  <2>3. SumOver(own, 1..k) = own[k] + SumOver(own, 1..(k - 1))
    <3>1. PICK o, T : o = own /\ T = 1..k
      OBVIOUS
    <3>2. IsFiniteSet(T) /\ k \in T /\ \A i \in T : o[i] \in Int
      BY <2>1, <2>2, <3>1
    <3>3. SumOver(o, T) = o[k] + SumOver(o, T \ {k})
      BY ONLY <3>2, SumTake
    <3> QED
      BY <2>1, <3>1, <3>3
  <2>4. own[k] = need[q[k]] /\ q[k] \in S /\ own[k] \in Int
    BY <1>1, <2>1
  <2>5. \A x \in S \ {q[k]} : part(k)[x] = part(k - 1)[x]
    BY <1>1, <2>1
  <2>6. part(k)[q[k]] = part(k - 1)[q[k]] + need[q[k]]
    <3>1. ~ \E i \in 1..(k - 1) : q[i] = q[k]
      BY <1>1, <2>1 DEF IsInjective
    <3>2. part(k - 1)[q[k]] = f[q[k]] + 0
      BY <2>4, <3>1
    <3>3. f[q[k]] \in Int /\ need[q[k]] \in Int
      BY <2>4
    <3>4. part(k)[q[k]] = f[q[k]] + need[q[k]]
      BY <2>1, <2>4
    <3> QED
      BY <3>2, <3>3, <3>4
  <2>7. SumOver(part(k), S) = SumOver(part(k - 1), S) + part(k)[q[k]] - part(k - 1)[q[k]]
    <3>1. \A x \in S : part(k - 1)[x] \in Int /\ part(k)[x] \in Int
      BY <1>2, <2>1
    <3> HIDE DEF part
    <3>2. PICK a, b, x : a = part(k - 1) /\ b = part(k) /\ x = q[k]
      OBVIOUS
    <3>3. DifferAt(a, b, x, S)
      BY <2>4, <2>5, <3>1, <3>2 DEF DifferAt
    <3>4. SumOver(b, S) = SumOver(a, S) + b[x] - a[x]
      BY ONLY <3>3, SumChange
    <3> QED
      BY <3>2, <3>4
  <2>8. part(k)[q[k]] \in Int /\ part(k - 1)[q[k]] \in Int
    BY <1>2, <2>1, <2>4
  <2>9. need[q[k]] \in Int
    BY <2>4
  <2> HIDE DEF part
  <2>10. SumOver(own, 1..(k - 1)) \in Int /\ SumOver(part(k - 1), S) = SumOver(f, S) + SumOver(own, 1..(k - 1))
    BY <1>5
  <2>11. SumOver(part(k), S) = SumOver(part(k - 1), S) + need[q[k]]
    <3>1. SumOver(part(k - 1), S) \in Int
      BY <1>3, <2>10
    <3> QED
      BY <2>6, <2>7, <2>8, <2>9, <3>1
  <2>12. SumOver(own, 1..k) = need[q[k]] + SumOver(own, 1..(k - 1))
    BY <2>3, <2>4
  <2>13. SumOver(part(k), S) = SumOver(f, S) + SumOver(own, 1..k)
    BY <1>3, <2>9, <2>10, <2>11, <2>12
  <2>14. SumOver(own, 1..k) \in Int
    BY <2>9, <2>10, <2>12
  <2> QED
    BY <2>13, <2>14
<1>6. Right(n)
  <2> DEFINE Bad == {k \in 0..Len(q) : ~Right(k)}
  <2> SUFFICES ASSUME Bad # {} PROVE FALSE
    OBVIOUS
  <2>1. Bad \in SUBSET Nat
    BY <1>1
  <2>2. PICK k \in Bad : \A j \in Bad : k <= j
    <3> HIDE DEF Bad
    <3> QED
      BY <2>1, LeastElement
  <2> HIDE DEF Right
  <2>3. k # 0 /\ k \in 0..Len(q) /\ k - 1 \notin Bad
    BY <1>1, <1>4, <2>2
  <2>4. k \in 1..Len(q) /\ Right(k - 1)
    BY <1>1, <2>3
  <2>5. Right(k)
    BY <1>5, <2>4
  <2> QED
    BY <2>2, <2>5
<1>7. ASSUME NEW x \in S PROVE part(n)[x] = g[x]
  <2>1. part(n)[x] = f[x] + IF \E i \in 1..n : q[i] = x THEN need[x] ELSE 0
    OBVIOUS
  <2>2. f[x] \in Int
    OBVIOUS
  <2> HIDE DEF part
  <2>3. CASE \E i \in 1..n : q[i] = x
    BY <2>1, <2>3
  <2>4. CASE \A i \in 1..n : q[i] # x
    BY <2>1, <2>2, <2>4
  <2> QED
    BY <2>3, <2>4
<1>8. SumOver(part(n), S) = SumOver(g, S)
  <2> HIDE DEF part
  <2>1. PICK a : a = part(n)
    OBVIOUS
  <2>2. \A x \in S : a[x] \in Int /\ g[x] = a[x]
    BY <1>2, <1>7, <2>1
  <2>3. SumOver(a, S) = SumOver(g, S)
    BY ONLY <2>2, IsFiniteSet(S), SumSame
  <2> QED
    BY <2>1, <2>3
<1> QED
  BY <1>6, <1>8

-----------------------------------------------------------------------------
(* One bucket *)

LEMMA MinOfTwo ==
    ASSUME NEW a \in Int, NEW b \in Int
    PROVE  Min({a, b}) = IF a <= b THEN a ELSE b
<1>1. CASE a <= b
  BY <1>1 DEF Min
<1>2. CASE ~ (a <= b)
  BY <1>2 DEF Min
<1> QED
  BY <1>1, <1>2

LEMMA MaxOfTwo ==
    ASSUME NEW a \in Int, NEW b \in Int
    PROVE  Max({a, b}) = IF a >= b THEN a ELSE b
<1>1. CASE a >= b
  BY <1>1 DEF Max
<1>2. CASE ~ (a >= b)
  BY <1>2 DEF Max
<1> QED
  BY <1>1, <1>2

LEMMA MaxOfThree ==
    ASSUME NEW a \in Int, NEW b \in Int, NEW c \in Int
    PROVE  /\ Max({a, b, c}) \in {a, b, c}
           /\ Max({a, b, c}) >= a /\ Max({a, b, c}) >= b /\ Max({a, b, c}) >= c
<1>1. \E m \in {a, b, c} : \A n \in {a, b, c} : m >= n
  <2>1. CASE a >= b /\ a >= c
    BY <2>1
  <2>2. CASE b >= a /\ b >= c
    BY <2>2
  <2>3. CASE c >= a /\ c >= b
    BY <2>3
  <2> QED
    BY <2>1, <2>2, <2>3
<1> QED
  BY <1>1 DEF Max

Bucket == [tokens : Int, lastRefillAt : Nat, penaltyUntil : Nat,
           queue : Seq(Caller), timer : Nat \cup {NoTimer}, spilled : Nat]

(* A bucket as it may be at `now`. *)
Sound(d, b) ==
    /\ b \in Bucket
    /\ b.lastRefillAt <= now
    /\ b.tokens <= Capacity[d]

(* What a bucket has and lost, apart from what it gained with time. *)
Value(b) == b.tokens + b.spilled - b.lastRefillAt

LEMMA NeedType ==
    ASSUME NEW d \in Dim, NEW c \in Caller
    PROVE  Need(d, c) \in Nat
<1>1. Cost[c] \in Nat /\ Capacity["tpm"] \in Nat
  BY CallerAssumption, LimitsAssumption DEF Dim
<1>2. Min({Cost[c], Capacity["tpm"]}) \in Nat
  BY <1>1, MinOfTwo
<1> QED
  BY <1>2 DEF Need

(* Tokens given are in the bucket or in what the clamp lost. *)
LEMMA CreditKeepsBooks ==
    ASSUME now \in Nat, NEW d \in Dim, NEW b, Sound(d, b), NEW n \in Nat
    PROVE  LET r == Credit(d, b, n)
           IN  /\ Sound(d, r)
               /\ Value(r) = Value(b) + n
               /\ r.tokens <= b.tokens + n
               /\ r.lastRefillAt = b.lastRefillAt
               /\ r.queue = b.queue /\ r.penaltyUntil = b.penaltyUntil /\ r.timer = b.timer
<1> DEFINE r == Credit(d, b, n)
           low == Min({Capacity[d], b.tokens + n})
           high == Max({0, b.tokens + n - Capacity[d]})
<1>1. b \in Bucket /\ Capacity[d] \in Nat /\ b.tokens \in Int /\ b.spilled \in Nat /\ b.lastRefillAt \in Nat
  BY LimitsAssumption DEF Sound, Bucket
<1>2. /\ low \in Int /\ low <= Capacity[d] /\ low <= b.tokens + n
      /\ high \in Nat /\ low + high = b.tokens + n
  <2>1. low = IF Capacity[d] <= b.tokens + n THEN Capacity[d] ELSE b.tokens + n
    BY <1>1, MinOfTwo
  <2>2. high = IF 0 >= b.tokens + n - Capacity[d] THEN 0 ELSE b.tokens + n - Capacity[d]
    BY <1>1, MaxOfTwo
  <2> HIDE DEF low, high
  <2> QED
    BY <1>1, <2>1, <2>2
<1>3. r = [b EXCEPT !.tokens = low, !.spilled = b.spilled + high]
  BY <1>1 DEF Credit, Bucket
<1> HIDE DEF r, low, high
<1>4. /\ r.tokens = low /\ r.spilled = b.spilled + high
      /\ r.lastRefillAt = b.lastRefillAt /\ r.queue = b.queue
      /\ r.penaltyUntil = b.penaltyUntil /\ r.timer = b.timer
  BY <1>1, <1>3 DEF Bucket
<1>5. r \in Bucket
  <2>1. b.spilled + high \in Nat
    BY <1>1, <1>2
  <2> QED
    BY <1>1, <1>2, <1>3, <2>1 DEF Bucket
<1>6. Value(r) = Value(b) + n
  <2>1. Value(r) = low + (b.spilled + high) - b.lastRefillAt
    BY <1>4 DEF Value
  <2>2. Value(b) = b.tokens + b.spilled - b.lastRefillAt
    BY DEF Value
  <2> QED
    BY <1>1, <1>2, <2>1, <2>2
<1>7. Sound(d, r) /\ r.tokens <= b.tokens + n
  BY <1>1, <1>2, <1>4, <1>5 DEF Sound
<1> QED
  BY <1>4, <1>6, <1>7 DEF r

(* A refill turns time into tokens, and into nothing else. *)
LEMMA RefillKeepsBooks ==
    ASSUME now \in Nat, NEW d \in Dim, NEW b, Sound(d, b)
    PROVE  LET r == refill(d, b)
           IN  /\ Sound(d, r)
               /\ Value(r) = Value(b)
               /\ r.tokens <= b.tokens + (now - b.lastRefillAt)
               /\ r.lastRefillAt = now
               /\ r.queue = b.queue /\ r.penaltyUntil = b.penaltyUntil /\ r.timer = b.timer
<1> DEFINE n == now - b.lastRefillAt
           e == Credit(d, b, n)
           r == refill(d, b)
<1>1. n \in Nat /\ b.lastRefillAt \in Nat
  BY DEF Sound, Bucket
<1>2. /\ Sound(d, e) /\ Value(e) = Value(b) + n /\ e.tokens <= b.tokens + n
      /\ e.lastRefillAt = b.lastRefillAt
      /\ e.queue = b.queue /\ e.penaltyUntil = b.penaltyUntil /\ e.timer = b.timer
  <2> HIDE DEF n
  <2> QED
    BY <1>1, CreditKeepsBooks
<1>3. r = [e EXCEPT !.lastRefillAt = now]
  BY DEF refill
<1> HIDE DEF e, r
<1>4. e \in Bucket /\ e.tokens \in Int /\ e.spilled \in Nat
  BY <1>2 DEF Sound, Bucket
<1>5. /\ r.lastRefillAt = now /\ r.tokens = e.tokens /\ r.spilled = e.spilled
      /\ r.queue = e.queue /\ r.penaltyUntil = e.penaltyUntil /\ r.timer = e.timer
  BY <1>3, <1>4 DEF Bucket
<1>6. r \in Bucket
  BY <1>3, <1>4 DEF Bucket
<1>7. Sound(d, r)
  BY <1>2, <1>5, <1>6 DEF Sound
<1>8. Value(r) = Value(b)
  <2>1. Value(r) = e.tokens + e.spilled - now /\ Value(e) = e.tokens + e.spilled - b.lastRefillAt
    BY <1>2, <1>5 DEF Value
  <2>2. b.tokens \in Int /\ b.spilled \in Nat
    BY DEF Sound, Bucket
  <2> QED
    BY <1>1, <1>2, <1>4, <2>1, <2>2 DEF Value
<1> QED
  BY <1>2, <1>5, <1>7, <1>8 DEF r

(* The buckets an action hands to Reschedule. *)
LEMMA ForceTakeCharges ==
    ASSUME now \in Nat, NEW d \in Dim, NEW b, Sound(d, b), NEW n \in Nat
    PROVE  LET r == forceTake(d, b, n)
           IN  Sound(d, r) /\ Value(r) = Value(b) - n /\ r.queue = b.queue
<1> DEFINE e == refill(d, b)
           r == forceTake(d, b, n)
<1>1. Sound(d, e) /\ Value(e) = Value(b) /\ e.queue = b.queue
  BY RefillKeepsBooks
<1>2. r = [e EXCEPT !.tokens = e.tokens - n]
  BY DEF forceTake
<1> HIDE DEF e, r
<1>3. /\ e \in Bucket /\ e.tokens \in Int /\ e.tokens <= Capacity[d] /\ Capacity[d] \in Nat
      /\ e.spilled \in Nat /\ e.lastRefillAt \in Nat
  BY <1>1, LimitsAssumption DEF Sound, Bucket
<1>4. r.tokens = e.tokens - n /\ r.spilled = e.spilled /\ r.lastRefillAt = e.lastRefillAt /\ r.queue = e.queue
  BY <1>2, <1>3 DEF Bucket
<1>5. r \in Bucket
  BY <1>2, <1>3 DEF Bucket
<1>6. Sound(d, r)
  BY <1>1, <1>3, <1>4, <1>5 DEF Sound
<1>7. Value(r) = Value(e) - n
  BY <1>3, <1>4 DEF Value
<1> QED
  BY <1>1, <1>4, <1>6, <1>7 DEF r

LEMMA RefundGivesBack ==
    ASSUME now \in Nat, NEW d \in Dim, NEW b, Sound(d, b), NEW n \in Nat
    PROVE  LET r == refund(d, b, n)
           IN  Sound(d, r) /\ Value(r) = Value(b) + n /\ r.queue = b.queue
<1> DEFINE e == refill(d, b)
<1>1. Sound(d, e) /\ Value(e) = Value(b) /\ e.queue = b.queue
  BY RefillKeepsBooks
<1> HIDE DEF e
<1>2. LET r == Credit(d, e, n) IN Sound(d, r) /\ Value(r) = Value(e) + n /\ r.queue = e.queue
  BY <1>1, CreditKeepsBooks
<1> QED
  BY <1>1, <1>2 DEF refund, e

LEMMA PenaltyKeepsBooks ==
    ASSUME now \in Nat, NEW d \in Dim, NEW b, Sound(d, b), NEW until \in Nat
    PROVE  LET r == penalizeBucket(b, until)
           IN  Sound(d, r) /\ Value(r) = Value(b) /\ r.queue = b.queue
<1> DEFINE r == penalizeBucket(b, until)
           floor == Max({b.penaltyUntil, until})
<1>1. b \in Bucket /\ b.penaltyUntil \in Nat
  BY DEF Sound, Bucket
<1>2. floor \in Nat
  BY <1>1, MaxOfTwo
<1>3. r = [b EXCEPT !.penaltyUntil = floor]
  BY DEF penalizeBucket
<1> HIDE DEF r, floor
<1>4. r.tokens = b.tokens /\ r.spilled = b.spilled /\ r.lastRefillAt = b.lastRefillAt /\ r.queue = b.queue
  BY <1>1, <1>3 DEF Bucket
<1>5. r \in Bucket
  BY <1>1, <1>2, <1>3 DEF Bucket
<1>6. Value(r) = Value(b)
  BY <1>4 DEF Value
<1> QED
  BY <1>4, <1>5, <1>6 DEF Sound, r

LEMMA QueueKeepsBooks ==
    ASSUME now \in Nat, NEW d \in Dim, NEW b, Sound(d, b), NEW q \in Seq(Caller)
    PROVE  LET r == [b EXCEPT !.queue = q]
           IN  Sound(d, r) /\ Value(r) = Value(b) /\ r.queue = q
<1> DEFINE r == [b EXCEPT !.queue = q]
<1>1. b \in Bucket
  BY DEF Sound
<1>2. r.tokens = b.tokens /\ r.spilled = b.spilled /\ r.lastRefillAt = b.lastRefillAt /\ r.queue = q
  BY <1>1 DEF Bucket
<1>3. r \in Bucket
  BY <1>1 DEF Bucket
<1> HIDE DEF r
<1>4. Value(r) = Value(b)
  BY <1>2 DEF Value
<1> QED
  BY <1>2, <1>3, <1>4 DEF Sound, r

(* The timer of a bucket with a queue is due when its head can be paid. *)
HeadTimed(d, b) ==
    b.queue # <<>> =>
        LET short == Need(d, Head(b.queue)) - b.tokens
        IN  /\ b.timer # NoTimer
            /\ b.timer <= Max({b.penaltyUntil, b.lastRefillAt + short, b.lastRefillAt})

(* How many are paid is how many of the queue at most. *)
LEMMA ServedIsPrefix ==
    ASSUME now \in Nat, NEW d \in Dim, NEW b \in Bucket
    PROVE  served(d, b) \in 0..Len(b.queue)
<1> DEFINE paid == {k \in DOMAIN b.queue : Owed(d, b, k) <= refill(d, b).tokens}
<1>1. DOMAIN b.queue = 1..Len(b.queue) /\ Len(b.queue) \in Nat
  BY DEF Bucket
<1>2. IsFiniteSet(1..Len(b.queue)) /\ Cardinality(1..Len(b.queue)) = Len(b.queue)
  BY <1>1, FS_Interval
<1>3. paid \in SUBSET (1..Len(b.queue))
  BY <1>1
<1>4. served(d, b) = IF now < b.penaltyUntil THEN 0 ELSE Cardinality(paid)
  BY DEF served
<1> HIDE DEF paid
<1>5. Cardinality(paid) \in Nat /\ Cardinality(paid) <= Len(b.queue)
  BY <1>2, <1>3, FS_Subset, FS_CardinalityType
<1> QED
  BY <1>1, <1>4, <1>5

LEMMA OwedIsWhole ==
    ASSUME NEW d \in Dim, NEW b \in Bucket, NEW k \in 0..Len(b.queue)
    PROVE  Owed(d, b, k) \in Nat
<1> DEFINE own == [i \in DOMAIN b.queue |-> Need(d, b.queue[i])]
<1>1. DOMAIN b.queue = 1..Len(b.queue) /\ Len(b.queue) \in Nat /\ \A i \in 1..Len(b.queue) : b.queue[i] \in Caller
  BY DEF Bucket
<1>2. \A i \in 1..k : own[i] \in Nat
  BY <1>1, NeedType
<1>3. IsFiniteSet(1..k)
  BY <1>1, FS_Interval
<1>4. Owed(d, b, k) = SumOver(own, 1..k)
  BY DEF Owed, SumOver
<1> HIDE DEF own
<1>5. PICK o, T : o = own /\ T = 1..k
  OBVIOUS
<1>6. IsFiniteSet(T) /\ \A i \in T : o[i] \in Nat
  BY <1>2, <1>3, <1>5
<1>7. SumOver(o, T) \in Nat
  BY ONLY <1>6, SumIsNatural
<1> QED
  BY <1>4, <1>5, <1>7

(* Paying out: the callers at the front of the queue get what they need, and
   the timer is set for the one that is now the head. *)
LEMMA ReschedulePays ==
    ASSUME now \in Nat, NEW d \in Dim, NEW b, Sound(d, b)
    PROVE  LET r == reschedule(d, b)
               n == served(d, b)
           IN  /\ n \in 0..Len(b.queue)
               /\ Sound(d, r)
               /\ Value(r) = Value(b) - Owed(d, b, n)
               /\ r.queue = SubSeq(b.queue, n + 1, Len(b.queue))
               /\ HeadTimed(d, r)
<1> DEFINE r == reschedule(d, b)
           n == served(d, b)
           owed == Owed(d, b, n)
           e == refill(d, b)
           q == SubSeq(b.queue, n + 1, Len(b.queue))
           w == [e EXCEPT !.tokens = e.tokens - owed, !.queue = q]
           t == IF q = <<>> THEN NoTimer
                ELSE Max({now, w.penaltyUntil, now + Need(d, Head(q)) - w.tokens})
<1>1. b \in Bucket /\ b.queue \in Seq(Caller) /\ Len(b.queue) \in Nat
  BY DEF Sound, Bucket
<1>2. n \in 0..Len(b.queue)
  BY <1>1, ServedIsPrefix
<1>3. owed \in Nat
  <2> HIDE DEF n
  <2> QED
    BY <1>1, <1>2, OwedIsWhole
<1>5. /\ Sound(d, e) /\ Value(e) = Value(b) /\ e.lastRefillAt = now
      /\ e.queue = b.queue /\ e.penaltyUntil = b.penaltyUntil
  BY RefillKeepsBooks
<1>6. e \in Bucket /\ e.tokens \in Int /\ e.spilled \in Nat /\ e.penaltyUntil \in Nat
  BY <1>5 DEF Sound, Bucket
<1>7. q \in Seq(Caller)
  <2> HIDE DEF n
  <2> QED
    BY <1>1, <1>2
<1>8. w.queue = q /\ w.tokens = e.tokens - owed
  BY <1>6 DEF Bucket
<1>9. r = [w EXCEPT !.timer = t]
  BY <1>5, <1>8 DEF reschedule, rearm
<1> HIDE DEF e, q, owed, n
<1>10. /\ w \in Bucket /\ w.lastRefillAt = e.lastRefillAt /\ w.spilled = e.spilled
       /\ w.penaltyUntil = e.penaltyUntil
  <2>1. e.tokens - owed \in Int
    BY <1>3, <1>6
  <2>2. PICK n1 : n1 = e.tokens - owed
    OBVIOUS
  <2> QED
    BY <1>6, <1>7, <2>1, <2>2 DEF Bucket
<1>11. q # <<>> => /\ t \in Nat /\ t \in {now, e.penaltyUntil, now + Need(d, Head(q)) - w.tokens}
  <2>1. SUFFICES ASSUME q # <<>>
                 PROVE  t \in Nat /\ t \in {now, e.penaltyUntil, now + Need(d, Head(q)) - w.tokens}
    OBVIOUS
  <2>2. Head(q) \in Caller
    BY <1>7, <2>1
  <2>3. Need(d, Head(q)) \in Nat
    BY <2>2, NeedType
  <2>4. PICK x, y : x = w.penaltyUntil /\ y = now + Need(d, Head(q)) - w.tokens
    OBVIOUS
  <2>5. now \in Int /\ x \in Int /\ y \in Int
    BY <1>3, <1>6, <1>8, <1>10, <2>3, <2>4
  <2>6. Max({now, x, y}) \in {now, x, y} /\ Max({now, x, y}) >= now
    BY <2>5, MaxOfThree
  <2>7. t = Max({now, x, y})
    BY <2>1, <2>4
  <2> HIDE DEF t
  <2> QED
    BY <1>6, <1>10, <2>4, <2>5, <2>6, <2>7
<1>12. t \in Nat \cup {NoTimer}
  BY <1>11
<1> HIDE DEF w, t
<1>13. /\ r \in Bucket /\ r.timer = t /\ r.queue = w.queue /\ r.tokens = w.tokens
       /\ r.lastRefillAt = w.lastRefillAt /\ r.spilled = w.spilled /\ r.penaltyUntil = w.penaltyUntil
  BY <1>9, <1>10, <1>12 DEF Bucket
<1> HIDE DEF r
<1>14. Sound(d, r)
  <2>1. e.tokens <= Capacity[d] /\ Capacity[d] \in Nat
    BY <1>5, LimitsAssumption DEF Sound
  <2> QED
    BY <1>3, <1>5, <1>6, <1>8, <1>10, <1>13, <2>1 DEF Sound
<1>15. Value(r) = Value(e) - owed
  <2>1. Value(r) = (e.tokens - owed) + e.spilled - now /\ Value(e) = e.tokens + e.spilled - now
    BY <1>5, <1>8, <1>10, <1>13 DEF Value
  <2> QED
    BY <1>3, <1>6, <2>1
<1>16. HeadTimed(d, r)
  <2>1. SUFFICES ASSUME q # <<>>
                 PROVE  /\ t # NoTimer
                        /\ t <= Max({e.penaltyUntil, now + (Need(d, Head(q)) - w.tokens), now})
    BY <1>5, <1>8, <1>10, <1>13 DEF HeadTimed
  <2>2. Need(d, Head(q)) \in Nat
    BY <1>7, <2>1, NeedType
  <2>3. PICK z : z = now + (Need(d, Head(q)) - w.tokens)
    OBVIOUS
  <2>4. now \in Int /\ e.penaltyUntil \in Int /\ z \in Int /\ z = now + Need(d, Head(q)) - w.tokens
    BY <1>3, <1>6, <1>8, <2>2, <2>3
  <2>5. /\ Max({e.penaltyUntil, z, now}) >= e.penaltyUntil
        /\ Max({e.penaltyUntil, z, now}) >= z
        /\ Max({e.penaltyUntil, z, now}) >= now
    BY <2>4, MaxOfThree
  <2>6. t \in Nat /\ t \in {now, e.penaltyUntil, z}
    BY <1>11, <2>1, <2>4
  <2>7. t # NoTimer
    BY <2>6, TimeAssumption
  <2> QED
    BY <2>3, <2>5, <2>6, <2>7
<1> QED
  BY <1>2, <1>5, <1>8, <1>13, <1>14, <1>15, <1>16 DEF r, q, n, owed

-----------------------------------------------------------------------------
(* Queues *)

Before(q, x, y) == \E i, j \in DOMAIN q : i < j /\ q[i] = x /\ q[j] = y

(* A caller joins at the end; *)
LEMMA AppendQueue ==
    ASSUME NEW q \in Seq(Caller), IsInjective(q), NEW c \in Caller, c \notin Range(q)
    PROVE  LET r == Append(q, c)
           IN  /\ r \in Seq(Caller) /\ IsInjective(r)
               /\ Range(r) = Range(q) \cup {c}
               /\ \A x, y : Before(r, x, y) /\ y \in Range(q) => Before(q, x, y)
<1> DEFINE r == Append(q, c)
<1>1. /\ r \in Seq(Caller) /\ Len(q) \in Nat
      /\ DOMAIN q = 1..Len(q) /\ DOMAIN r = 1..(Len(q) + 1)
      /\ r[Len(q) + 1] = c /\ \A i \in 1..Len(q) : r[i] = q[i]
  OBVIOUS
<1> HIDE DEF r
<1>2. \A i \in DOMAIN r : i \in DOMAIN q \/ i = Len(q) + 1
  BY <1>1
<1>3. \A i \in DOMAIN q : i \in DOMAIN r /\ r[i] = q[i] /\ r[i] # c /\ i < Len(q) + 1
  BY <1>1 DEF Range
<1>4. Len(q) + 1 \in DOMAIN r
  BY <1>1
<1>5. IsInjective(r)
  BY <1>1, <1>2, <1>3 DEF IsInjective
<1>6. Range(r) = Range(q) \cup {c}
  BY <1>1, <1>2, <1>3, <1>4 DEF Range
<1>7. ASSUME NEW x, NEW y, Before(r, x, y), y \in Range(q) PROVE Before(q, x, y)
  <2>1. PICK i, j \in DOMAIN r : i < j /\ r[i] = x /\ r[j] = y
    BY <1>7 DEF Before
  <2>2. y # c
    BY <1>7
  <2>3. j \in DOMAIN q
    BY <1>1, <1>2, <2>1, <2>2
  <2>4. i \in DOMAIN q
    BY <1>1, <2>1, <2>3
  <2> QED
    BY <1>3, <2>1, <2>3, <2>4 DEF Before
<1> QED
  BY <1>1, <1>5, <1>6, <1>7 DEF r

(* one leaves from anywhere, and the others keep their order; *)
LEMMA SpliceQueue ==
    ASSUME NEW q \in Seq(Caller), IsInjective(q), NEW c \in Range(q)
    PROVE  LET r == splice(q, c)
           IN  /\ r \in Seq(Caller) /\ IsInjective(r)
               /\ Range(r) = Range(q) \ {c}
               /\ \A x, y : Before(r, x, y) => Before(q, x, y)
<1> DEFINE k == CHOOSE i \in DOMAIN q : q[i] = c
           r == splice(q, c)
           place(i) == IF i < k THEN i ELSE i + 1
<1>1. DOMAIN q = 1..Len(q) /\ Len(q) \in Nat /\ \A i \in 1..Len(q) : q[i] \in Caller
  OBVIOUS
<1>2. k \in 1..Len(q) /\ q[k] = c
  BY <1>1 DEF Range
<1>3. r = SubSeq(q, 1, k - 1) \o SubSeq(q, k + 1, Len(q))
  BY DEF splice, RemoveAt
<1> HIDE DEF k, r
<1>4. /\ r \in Seq(Caller) /\ DOMAIN r = 1..(Len(q) - 1)
      /\ \A i \in 1..(Len(q) - 1) : r[i] = q[place(i)]
  <2> DEFINE left == SubSeq(q, 1, k - 1)
             right == SubSeq(q, k + 1, Len(q))
  <2>1. left \in Seq(Caller) /\ Len(left) = k - 1 /\ \A i \in 1..(k - 1) : left[i] = q[i]
    BY <1>1, <1>2
  <2>2. right \in Seq(Caller) /\ Len(right) = Len(q) - k /\ \A i \in 1..(Len(q) - k) : right[i] = q[k + i]
    <3>1. k + 1 \in Int /\ Len(q) \in Int /\ \A i \in (k + 1)..Len(q) : q[i] \in Caller
      BY <1>1, <1>2
    <3>2. /\ right \in Seq(Caller)
          /\ Len(right) = IF k + 1 <= Len(q) THEN Len(q) - (k + 1) + 1 ELSE 0
          /\ \A i \in 1..(Len(q) - (k + 1) + 1) : right[i] = q[(k + 1) + i - 1]
      BY <3>1, SubSeqProperties
    <3>3. Len(q) - (k + 1) + 1 = Len(q) - k /\ \A i \in 1..(Len(q) - k) : (k + 1) + i - 1 = k + i
      BY <1>1, <1>2
    <3> HIDE DEF right
    <3>4. Len(right) = Len(q) - k
      <4>1. PICK l, m : l = Len(q) /\ m = Len(right)
        OBVIOUS
      <4>2. l \in Nat /\ k \in 1..l /\ m = IF k + 1 <= l THEN l - (k + 1) + 1 ELSE 0
        BY <1>1, <1>2, <3>2, <4>1
      <4>3. m = l - k
        BY ONLY <4>2
      <4> QED
        BY <4>1, <4>3
    <3>5. \A i \in 1..(Len(q) - k) : right[i] = q[(k + 1) + i - 1]
      BY <3>2, <3>3
    <3>6. \A i \in 1..(Len(q) - k) : right[i] = q[k + i]
      BY <3>3, <3>5
    <3> QED
      BY <3>2, <3>4, <3>6
  <2> HIDE DEF left, right
  <2>3. /\ left \o right \in Seq(Caller) /\ Len(left \o right) = (k - 1) + (Len(q) - k)
        /\ \A i \in 1..((k - 1) + (Len(q) - k)) :
              (left \o right)[i] = IF i <= k - 1 THEN left[i] ELSE right[i - (k - 1)]
    <3>1. /\ left \o right \in Seq(Caller) /\ Len(left \o right) = Len(left) + Len(right)
          /\ \A i \in 1..(Len(left) + Len(right)) :
                (left \o right)[i] = IF i <= Len(left) THEN left[i] ELSE right[i - Len(left)]
      BY <2>1, <2>2, ConcatProperties
    <3> QED
      BY <2>1, <2>2, <3>1
  <2>4. (k - 1) + (Len(q) - k) = Len(q) - 1 /\ r = left \o right
    BY <1>1, <1>2, <1>3 DEF left, right
  <2>5. r \in Seq(Caller) /\ DOMAIN r = 1..(Len(q) - 1)
    BY <2>3, <2>4
  <2>6. \A i \in 1..(Len(q) - 1) : r[i] = IF i <= k - 1 THEN left[i] ELSE right[i - (k - 1)]
    BY <2>3, <2>4
  <2>7. ASSUME NEW i \in 1..(Len(q) - 1) PROVE r[i] = q[place(i)]
    <3>1. CASE i < k
      BY <1>1, <1>2, <2>1, <2>6, <3>1
    <3>2. CASE ~ (i < k)
      <4>1. i - (k - 1) \in 1..(Len(q) - k) /\ k + (i - (k - 1)) = i + 1 /\ ~ (i <= k - 1)
        BY <1>1, <1>2, <3>2
      <4> QED
        BY <2>2, <2>6, <3>2, <4>1
    <3> QED
      BY <3>1, <3>2
  <2> QED
    BY <2>5, <2>7
<1>5. \A i \in DOMAIN r : place(i) \in DOMAIN q /\ place(i) # k /\ r[i] = q[place(i)]
  BY <1>1, <1>2, <1>4
<1>6. \A i, j \in DOMAIN r : i < j => place(i) < place(j)
  BY <1>2, <1>4
<1>7. \A i, j \in DOMAIN r : i # j => place(i) # place(j)
  BY <1>2, <1>4
<1>8. \A j \in DOMAIN q : j # k => \E i \in DOMAIN r : place(i) = j
  <2>1. SUFFICES ASSUME NEW j \in DOMAIN q, j # k PROVE \E i \in DOMAIN r : place(i) = j
    OBVIOUS
  <2>2. CASE j < k
    BY <1>1, <1>2, <1>4, <2>2
  <2>3. CASE j > k
    <3>1. j - 1 \in DOMAIN r /\ place(j - 1) = j
      BY <1>1, <1>2, <1>4, <2>3
    <3> QED
      BY <3>1
  <2> QED
    BY <1>1, <1>2, <2>1, <2>2, <2>3
<1> HIDE DEF place
<1>9. IsInjective(r)
  BY <1>5, <1>7 DEF IsInjective
<1>10. Range(r) \subseteq Range(q) \ {c}
  BY <1>1, <1>2, <1>5 DEF Range, IsInjective
<1>11. Range(q) \ {c} \subseteq Range(r)
  BY <1>2, <1>5, <1>8 DEF Range
<1>12. \A x, y : Before(r, x, y) => Before(q, x, y)
  BY <1>5, <1>6 DEF Before
<1> QED
  BY <1>4, <1>9, <1>10, <1>11, <1>12 DEF r

(* and those that are paid stood before all that are left. *)
LEMMA PayQueue ==
    ASSUME NEW q \in Seq(Caller), IsInjective(q), NEW n \in 0..Len(q)
    PROVE  LET r == SubSeq(q, n + 1, Len(q))
               paid == {q[i] : i \in 1..n}
           IN  /\ r \in Seq(Caller) /\ IsInjective(r)
               /\ paid \subseteq Range(q)
               /\ Range(r) = Range(q) \ paid
               /\ \A x \in paid : \A y \in Range(r) : Before(q, x, y)
<1> DEFINE r == SubSeq(q, n + 1, Len(q))
           paid == {q[i] : i \in 1..n}
<1>1. DOMAIN q = 1..Len(q) /\ Len(q) \in Nat /\ n \in Nat /\ n <= Len(q) /\ \A i \in 1..Len(q) : q[i] \in Caller
  OBVIOUS
<1>2. r \in Seq(Caller) /\ DOMAIN r = 1..(Len(q) - n) /\ \A i \in 1..(Len(q) - n) : r[i] = q[n + i]
  BY <1>1
<1> HIDE DEF r
<1>3. \A i \in DOMAIN r : n + i \in DOMAIN q /\ r[i] = q[n + i] /\ n + i > n
  BY <1>1, <1>2
<1>4. \A i \in DOMAIN q : i \in 1..n \/ (i - n \in DOMAIN r /\ r[i - n] = q[i])
  BY <1>1, <1>2
<1>5. \A i \in 1..n : i \in DOMAIN q
  BY <1>1
<1>6. IsInjective(r)
  BY <1>1, <1>2, <1>3 DEF IsInjective
<1>7. paid \subseteq Range(q)
  BY <1>5 DEF Range
<1>8. \A x \in paid : \A y \in Range(r) : Before(q, x, y) /\ x # y
  <2>1. SUFFICES ASSUME NEW i \in 1..n, NEW j \in DOMAIN r PROVE Before(q, q[i], r[j]) /\ q[i] # r[j]
    BY DEF Range
  <2>2. i < n + j /\ i \in DOMAIN q /\ n + j \in DOMAIN q /\ r[j] = q[n + j]
    BY <1>1, <1>2, <1>3, <1>5
  <2> QED
    BY <1>1, <2>2 DEF Before, IsInjective
<1>9. Range(r) \subseteq Range(q)
  BY <1>3 DEF Range
<1>10. Range(q) \ paid \subseteq Range(r)
  BY <1>4 DEF Range
<1> QED
  BY <1>2, <1>6, <1>7, <1>8, <1>9, <1>10 DEF r

-----------------------------------------------------------------------------
(* Reschedule *)

Promise == {"none", "waiting", "granted", "failed"}

\* A bucket, and a promise, as Reschedule finds them.
Given(changed, d) == IF d \in DOMAIN changed THEN changed[d] ELSE bucket[d]
Mid(more, c) == IF c \in DOMAIN more THEN more[c] ELSE promise[c]

\* Whom Reschedule pays out of the bucket of d.
PaidOf(changed, d) ==
    IF d \in DOMAIN changed THEN {changed[d].queue[i] : i \in 1..served(d, changed[d])} ELSE {}

(* What an action prepares before it pays: each queue holds the callers that
   are at the bucket and wait, in the order in which they came. *)
Ready(changed, more) ==
    /\ DOMAIN changed \subseteq Dim
    /\ \A d \in DOMAIN changed : Sound(d, changed[d])
    /\ \A c \in DOMAIN more : more[c] \in Promise
    /\ \A d \in Dim :
          /\ IsInjective(Given(changed, d).queue)
          /\ Range(Given(changed, d).queue) = {c \in Caller : at'[c] = d /\ Mid(more, c) = "waiting"}
          /\ \A x, y : Before(Given(changed, d).queue, x, y) /\ y \in Range(bucket[d].queue)
                          => Before(bucket[d].queue, x, y)

BucketsSound == \A d \in Dim : Sound(d, bucket[d])

LEMMA GivenIsSound ==
    ASSUME BucketsSound, NEW changed, NEW more, Ready(changed, more), NEW d \in Dim
    PROVE  Sound(d, Given(changed, d)) /\ Given(changed, d).queue \in Seq(Caller)
<1>1. Sound(d, Given(changed, d))
  BY DEF BucketsSound, Ready, Given
<1> QED
  BY <1>1 DEF Sound, Bucket

(* Whom it pays waited at the bucket, and is granted; nobody else's promise
   changes beyond what the action says. *)
LEMMA RescheduleGrants ==
    ASSUME now \in Nat, BucketsSound, promise \in [Caller -> Promise],
           NEW changed, NEW more, Ready(changed, more), Reschedule(changed, more)
    PROVE  /\ promise' \in [Caller -> Promise]
           /\ \A d \in Dim : \A c \in Caller :
                 c \in PaidOf(changed, d) <=>
                     at'[c] = d /\ Mid(more, c) = "waiting" /\ promise'[c] = "granted"
           /\ \A c \in Caller : \/ promise'[c] = Mid(more, c)
                                \/ \E d \in Dim : c \in PaidOf(changed, d)
           /\ \A d \in Dim : PaidOf(changed, d) \subseteq Caller
<1> DEFINE paid == UNION {{changed[d].queue[i] : i \in 1..served(d, changed[d])} : d \in DOMAIN changed}
<1>1. promise' = [c \in Caller |-> IF c \in paid THEN "granted"
                                   ELSE IF c \in DOMAIN more THEN more[c] ELSE promise[c]]
  BY DEF Reschedule
<1>2. \A c : c \in paid <=> \E d \in Dim : c \in PaidOf(changed, d)
  <2>1. DOMAIN changed \subseteq Dim
    BY DEF Ready
  <2> QED
    BY <2>1 DEF PaidOf
<1> HIDE DEF paid
<1>3. \A c \in Caller : promise'[c] = IF c \in paid THEN "granted" ELSE Mid(more, c)
  BY <1>1 DEF Mid
<1>4. ASSUME NEW d \in Dim, NEW c \in PaidOf(changed, d)
      PROVE  c \in Caller /\ at'[c] = d /\ Mid(more, c) = "waiting"
  <2>1. d \in DOMAIN changed /\ Given(changed, d) = changed[d]
    BY <1>4 DEF PaidOf, Given
  <2>2. PICK q, n : q = changed[d].queue /\ n = served(d, changed[d])
    OBVIOUS
  <2>3. Sound(d, changed[d]) /\ q \in Seq(Caller) /\ IsInjective(q)
    BY <2>1, <2>2, GivenIsSound DEF Ready
  <2>4. n \in 0..Len(q)
    BY <2>2, <2>3, ServedIsPrefix DEF Sound
  <2>5. {q[i] : i \in 1..n} \subseteq Range(q)
    BY <2>3, <2>4, PayQueue
  <2>6. c \in {q[i] : i \in 1..n}
    BY <1>4, <2>1, <2>2 DEF PaidOf
  <2>7. c \in Range(Given(changed, d).queue)
    BY <2>1, <2>2, <2>5, <2>6
  <2> QED
    BY <2>7 DEF Ready
<1>5. \A c \in Caller : Mid(more, c) \in Promise
  BY DEF Mid, Ready
<1>6. \A c \in paid : c \in Caller
  BY <1>2, <1>4
<1>7. promise' \in [Caller -> Promise]
  <2>1. \A c \in Caller : promise'[c] \in Promise
    BY <1>3, <1>5 DEF Promise
  <2> QED
    BY <1>1, <2>1
<1>8. ASSUME NEW d \in Dim, NEW c \in Caller
      PROVE  c \in PaidOf(changed, d) <=>
                     at'[c] = d /\ Mid(more, c) = "waiting" /\ promise'[c] = "granted"
  <2>1. ASSUME c \in PaidOf(changed, d)
        PROVE  at'[c] = d /\ Mid(more, c) = "waiting" /\ promise'[c] = "granted"
    BY <1>2, <1>3, <1>4, <2>1
  <2>2. ASSUME at'[c] = d, Mid(more, c) = "waiting", promise'[c] = "granted"
        PROVE  c \in PaidOf(changed, d)
    <3>1. c \in paid
      BY <1>3, <2>2
    <3>2. PICK e \in Dim : c \in PaidOf(changed, e)
      BY <1>2, <3>1
    <3>3. e = d
      BY <1>4, <2>2, <3>2
    <3> QED
      BY <3>2, <3>3
  <2> QED
    BY <2>1, <2>2
<1> QED
  BY <1>2, <1>3, <1>4, <1>7, <1>8

(* Every bucket stays sound, its head timed, and its queue exact: what is left
   of it is who still waits. *)
LEMMA RescheduleKeepsBuckets ==
    ASSUME now \in Nat, now' = now, BucketsSound, HeadHasTimer, promise \in [Caller -> Promise],
           NEW changed, NEW more, Ready(changed, more), Reschedule(changed, more)
    PROVE  /\ bucket' \in [Dim -> Bucket]
           /\ \A d \in Dim : Sound(d, bucket'[d])
           /\ \A d \in Dim : HeadTimed(d, bucket'[d])
           /\ \A d \in Dim :
                 /\ Range(bucket'[d].queue) = {c \in Caller : at'[c] = d /\ promise'[c] = "waiting"}
                 /\ IsInjective(bucket'[d].queue)
<1>1. bucket' = [d \in Dim |-> IF d \in DOMAIN changed THEN reschedule(d, changed[d]) ELSE bucket[d]]
  BY DEF Reschedule
<1>2. ASSUME NEW d \in Dim
      PROVE  /\ Sound(d, bucket'[d]) /\ HeadTimed(d, bucket'[d])
             /\ IsInjective(bucket'[d].queue)
             /\ Range(bucket'[d].queue) = Range(Given(changed, d).queue) \ PaidOf(changed, d)
  <2>1. Sound(d, Given(changed, d)) /\ IsInjective(Given(changed, d).queue)
    BY GivenIsSound DEF Ready
  <2>2. CASE d \notin DOMAIN changed
    <3>1. bucket'[d] = bucket[d] /\ Given(changed, d) = bucket[d] /\ PaidOf(changed, d) = {}
      BY <1>1, <2>2 DEF Given, PaidOf
    <3>2. HeadTimed(d, bucket[d])
      BY DEF HeadHasTimer, HeadTimed
    <3> QED
      BY <2>1, <3>1, <3>2
  <2>3. CASE d \in DOMAIN changed
    <3>1. PICK b, n, r : b = changed[d] /\ n = served(d, b) /\ r = reschedule(d, b)
      OBVIOUS
    <3>2. /\ bucket'[d] = r /\ Given(changed, d) = b
          /\ PaidOf(changed, d) = {b.queue[i] : i \in 1..n}
      BY <1>1, <2>3, <3>1 DEF Given, PaidOf
    <3>3. Sound(d, b) /\ IsInjective(b.queue) /\ b.queue \in Seq(Caller)
      BY <2>1, <3>2, GivenIsSound
    <3>4. /\ n \in 0..Len(b.queue) /\ Sound(d, r) /\ HeadTimed(d, r)
          /\ r.queue = SubSeq(b.queue, n + 1, Len(b.queue))
      BY <3>1, <3>3, ReschedulePays
    <3>5. /\ IsInjective(r.queue)
          /\ Range(r.queue) = Range(b.queue) \ {b.queue[i] : i \in 1..n}
      BY <3>3, <3>4, PayQueue
    <3> QED
      BY <3>2, <3>4, <3>5
  <2> QED
    BY <2>2, <2>3
<1>3. ASSUME NEW d \in Dim
      PROVE  Range(bucket'[d].queue) = {c \in Caller : at'[c] = d /\ promise'[c] = "waiting"}
  <2>1. Range(bucket'[d].queue) =
            {c \in Caller : at'[c] = d /\ Mid(more, c) = "waiting"} \ PaidOf(changed, d)
    BY <1>2 DEF Ready
  <2>2. \A e \in Dim : \A c \in Caller :
            c \in PaidOf(changed, e) <=>
                at'[c] = e /\ Mid(more, c) = "waiting" /\ promise'[c] = "granted"
    BY RescheduleGrants
  <2>3. \A c \in Caller : promise'[c] = Mid(more, c) \/ \E e \in Dim : c \in PaidOf(changed, e)
    BY RescheduleGrants
  <2> QED
    BY <2>1, <2>2, <2>3
<1>4. bucket' \in [Dim -> Bucket]
  BY <1>1, <1>2 DEF Sound
<1> QED
  BY <1>2, <1>3, <1>4

(* What the callers pay is what the bucket loses. *)
LEMMA RescheduleCharges ==
    ASSUME now \in Nat, BucketsSound, promise \in [Caller -> Promise],
           NEW changed, NEW more, Ready(changed, more), Reschedule(changed, more),
           NEW d \in Dim, NEW f, \A c \in Caller : f[c] \in Int,
           NEW g, \A c \in Caller :
                      g[c] = f[c] + IF c \in PaidOf(changed, d) THEN Need(d, c) ELSE 0
    PROVE  SumOver(g, Caller) + Value(bucket'[d]) = SumOver(f, Caller) + Value(Given(changed, d))
<1>0. IsFiniteSet(Caller)
  BY CallerAssumption
<1>1. bucket' = [e \in Dim |-> IF e \in DOMAIN changed THEN reschedule(e, changed[e]) ELSE bucket[e]]
  BY DEF Reschedule
<1>2. CASE d \notin DOMAIN changed
  <2>1. bucket'[d] = Given(changed, d) /\ PaidOf(changed, d) = {}
    BY <1>1, <1>2 DEF Given, PaidOf
  <2>2. \A c \in Caller : f[c] \in Int /\ g[c] = f[c]
    BY <2>1
  <2>3. SumOver(f, Caller) = SumOver(g, Caller)
    BY ONLY <1>0, <2>2, SumSame
  <2> QED
    BY <2>1, <2>3
<1>3. CASE d \in DOMAIN changed
  <2>1. PICK b, n, r, q : b = changed[d] /\ n = served(d, b) /\ r = reschedule(d, b) /\ q = b.queue
    OBVIOUS
  <2>2. /\ bucket'[d] = r /\ Given(changed, d) = b
        /\ PaidOf(changed, d) = {q[i] : i \in 1..n}
    BY <1>1, <1>3, <2>1 DEF Given, PaidOf
  <2>3. Sound(d, b) /\ IsInjective(q) /\ q \in Seq(Caller)
    <3>1. Sound(d, Given(changed, d)) /\ Given(changed, d).queue \in Seq(Caller)
      BY GivenIsSound
    <3>2. IsInjective(Given(changed, d).queue)
      BY DEF Ready
    <3> QED
      BY <2>1, <2>2, <3>1, <3>2
  <2>4. n \in 0..Len(q) /\ Sound(d, r) /\ Value(r) = Value(b) - Owed(d, b, n)
    BY <2>1, <2>3, ReschedulePays
  <2> DEFINE need == [c \in Caller |-> Need(d, c)]
             own == [i \in DOMAIN q |-> need[q[i]]]
  <2>5. \A c \in Caller : need[c] \in Int /\ need[c] = Need(d, c)
    BY NeedType
  <2>6. Owed(d, b, n) = SumOver(own, 1..n)
    <3>1. \A i \in DOMAIN q : q[i] \in Caller
      BY <2>3
    <3>2. own = [i \in DOMAIN b.queue |-> Need(d, b.queue[i])]
      BY <2>1, <3>1
    <3> QED
      BY <3>2 DEF Owed, SumOver
  <2>7. need \in [Caller -> Int]
    BY <2>5
  <2>8. SumOver(own, 1..n) \in Int /\ SumOver(g, Caller) = SumOver(f, Caller) + SumOver(own, 1..n)
    <3>1. /\ \A i \in 1..Len(q) : own[i] = need[q[i]]
          /\ 1..n \subseteq 1..Len(q)
      BY <2>3, <2>4
    <3> HIDE DEF need, own
    <3>2. PICK w, o : w = need /\ o = own
      OBVIOUS
    <3>3. w \in [Caller -> Int]
      BY <2>7, <3>2
    <3>4. \A i \in 1..Len(q) : o[i] = w[q[i]]
      BY <3>1, <3>2
    <3>5. /\ \A i \in 1..n : g[q[i]] = f[q[i]] + w[q[i]]
          /\ \A c \in Caller : (\A i \in 1..n : q[i] # c) => g[c] = f[c]
      <4>1. \A c \in Caller : c \in PaidOf(changed, d) <=> \E i \in 1..n : q[i] = c
        BY <2>2
      <4>2. \A i \in 1..n : q[i] \in Caller /\ q[i] \in PaidOf(changed, d)
        BY <2>2, <2>3, <3>1
      <4>3. \A c \in Caller : f[c] \in Int
        OBVIOUS
      <4> QED
        BY <2>5, <3>2, <4>1, <4>2, <4>3
    <3>6. IsInjective(q) /\ q \in Seq(Caller) /\ n \in 0..Len(q)
      BY <2>3, <2>4
    <3>7. SumOver(o, 1..n) \in Int /\ SumOver(g, Caller) = SumOver(f, Caller) + SumOver(o, 1..n)
      <4>1. Pays(f, g, Caller, w, q, o, n)
        BY <1>0, <3>3, <3>4, <3>5, <3>6 DEF Pays
      <4> QED
        BY ONLY <4>1, SumOfQueue
    <3> QED
      BY <3>2, <3>7
  <2>9. SumOver(f, Caller) \in Int
    BY <1>0, SumRecursion
  <2>10. Value(b) \in Int
    BY <2>3 DEF Sound, Bucket, Value
  <2> HIDE DEF own
  <2> QED
    BY <2>2, <2>4, <2>6, <2>8, <2>9, <2>10
<1> QED
  BY <1>2, <1>3

(* Whom it pays stood before everyone it leaves waiting. *)
LEMMA RescheduleInOrder ==
    ASSUME now \in Nat, BucketsSound,
           NEW changed, NEW more, Ready(changed, more), Reschedule(changed, more),
           NEW d \in Dim, NEW c \in PaidOf(changed, d), NEW e,
           e \in Range(bucket[d].queue), e \in Range(bucket'[d].queue)
    PROVE  Before(bucket[d].queue, c, e)
<1>1. d \in DOMAIN changed
  BY DEF PaidOf
<1>2. PICK b, n, r, q : b = changed[d] /\ n = served(d, b) /\ r = reschedule(d, b) /\ q = b.queue
  OBVIOUS
<1>3. bucket'[d] = r /\ Given(changed, d) = b /\ c \in {q[i] : i \in 1..n}
  BY <1>1, <1>2 DEF Given, PaidOf, Reschedule
<1>4. Sound(d, b) /\ IsInjective(q) /\ q \in Seq(Caller)
  <2>1. Sound(d, Given(changed, d)) /\ Given(changed, d).queue \in Seq(Caller)
    BY GivenIsSound
  <2>2. IsInjective(Given(changed, d).queue)
    BY DEF Ready
  <2> QED
    BY <1>2, <1>3, <2>1, <2>2
<1>5. n \in 0..Len(q) /\ r.queue = SubSeq(q, n + 1, Len(q))
  BY <1>2, <1>4, ReschedulePays
<1>6. Before(q, c, e)
  BY <1>3, <1>4, <1>5, PayQueue
<1> QED
  BY <1>2, <1>3, <1>6 DEF Ready

-----------------------------------------------------------------------------
(* The stages of acquire *)

(* The stages behind each stage. *)
LEMMA OrderOfStages ==
    /\ \A x : Passed("idle", x) <=> x \in {"rpm", "tpm", "permit", "leased"}
    /\ \A x : Passed("rpm", x) <=> x \in {"tpm", "permit", "leased"}
    /\ \A x : Passed("tpm", x) <=> x \in {"permit", "leased"}
    /\ \A x : Passed("permit", x) <=> x = "leased"
    /\ \A x : ~ Passed("leased", x)
    /\ Range(Order) = {"idle", "rpm", "tpm", "permit", "leased"}
<1>1. /\ DOMAIN Order = 1..5
      /\ Order[1] = "idle" /\ Order[2] = "rpm" /\ Order[3] = "tpm" /\ Order[4] = "permit"
      /\ Order[5] = "leased"
  BY DEF Order
<1>2. \A i : i \in 1..5 <=> i \in {1, 2, 3, 4, 5}
  OBVIOUS
<1>3. Range(Order) = {"idle", "rpm", "tpm", "permit", "leased"}
  BY <1>1, <1>2 DEF Range
<1>4. ASSUME NEW x, NEW i \in {1, 2, 3, 4, 5}
      PROVE  Passed(Order[i], x) <=> \E j \in {1, 2, 3, 4, 5} : i < j /\ Order[j] = x
  <2>1. \A j \in DOMAIN Order : Order[j] = Order[i] => j = i
    BY <1>1, <1>2
  <2> QED
    BY <1>1, <1>2, <2>1 DEF Passed
<1>5. ASSUME NEW x PROVE Passed("idle", x) <=> x \in {"rpm", "tpm", "permit", "leased"}
  BY <1>1, <1>4
<1>6. ASSUME NEW x PROVE Passed("rpm", x) <=> x \in {"tpm", "permit", "leased"}
  BY <1>1, <1>4
<1>7. ASSUME NEW x PROVE Passed("tpm", x) <=> x \in {"permit", "leased"}
  BY <1>1, <1>4
<1>8. ASSUME NEW x PROVE Passed("permit", x) <=> x = "leased"
  BY <1>1, <1>4
<1>9. ASSUME NEW x PROVE ~ Passed("leased", x)
  BY <1>1, <1>4
<1> QED
  BY <1>3, <1>5, <1>6, <1>7, <1>8, <1>9

(* The stage that follows is configured, and only stages that are not lie
   between. *)
LEMMA FollowsStages ==
    ASSUME NEW c \in Caller, NEW st \in {"idle"} \cup Stage, NEW next, Follows(c, st, next)
    PROVE  /\ next \in Stage \cup {"leased"} /\ next # st /\ HasStage(c, next)
           /\ next \in Dim => ~ Passed(next, st)
           /\ \A d \in Dim : HasStage(c, d) => (Passed(d, next) <=> Passed(d, st) \/ d = st)
<1>1. Passed(st, next) /\ HasStage(c, next)
  BY DEF Follows
<1>2. \A d \in Dim : ~ (Passed(st, d) /\ HasStage(c, d) /\ Passed(d, next))
  BY OrderOfStages DEF Follows, Dim
<1> HIDE DEF Follows
<1>3. CASE st = "idle"
  BY <1>1, <1>2, <1>3, OrderOfStages DEF Stage, Dim
<1>4. CASE st = "rpm"
  BY <1>1, <1>2, <1>4, OrderOfStages DEF Stage, Dim
<1>5. CASE st = "tpm"
  BY <1>1, <1>2, <1>5, OrderOfStages DEF Stage, Dim
<1>6. CASE st = "permit"
  BY <1>1, <1>2, <1>6, OrderOfStages DEF Stage, Dim
<1> QED
  BY <1>3, <1>4, <1>5, <1>6 DEF Stage, Dim

-----------------------------------------------------------------------------
(* The inductive invariant *)

\* A caller in a stage has a promise of it, and the stage is configured.
Staged ==
    \A c \in Caller :
        /\ at[c] \in Stage <=> promise[c] # "none"
        /\ at[c] \in Stage => HasStage(c, at[c])

\* Callers wait for a permit only when all are out.
FullPool == permitQueue # <<>> => Permits > 0 /\ used = Permits

Charges(d) == [c \in Caller |-> Charge(d, c)]

Books ==
    \A d \in Dim : Capacity[d] > 0 =>
        SumOver(Charges(d), Caller) + Value(bucket[d]) = Capacity[d]

IInv ==
    /\ TypeOK /\ Staged /\ BucketsSound /\ FullPool
    /\ HeadHasTimer /\ PermitsExact /\ Books

LEMMA ChargeType ==
    ASSUME TypeOK, NEW d \in Dim
    PROVE  /\ \A c \in Caller : Charge(d, c) \in Int /\ Charges(d)[c] = Charge(d, c)
           /\ SumOver(Charges(d), Caller) \in Int
<1>1. ASSUME NEW c \in Caller PROVE Charge(d, c) \in Int
  <2>1. charged[c] \in Nat
    BY DEF TypeOK
  <2>2. Need(d, c) \in Nat
    BY NeedType
  <2> QED
    BY <2>1, <2>2 DEF Charge
<1>2. \A c \in Caller : Charges(d)[c] = Charge(d, c)
  BY DEF Charges
<1>3. IsFiniteSet(Caller) /\ \A c \in Caller : Charges(d)[c] \in Int
  BY <1>1, <1>2, CallerAssumption
<1>4. SumOver(Charges(d), Caller) \in Int
  BY ONLY <1>3, SumRecursion
<1> QED
  BY <1>1, <1>2, <1>4

(* The books of the specification, out of the inductive invariant's. *)
LEMMA BooksAreSums ==
    ASSUME TypeOK, BucketsSound, Books
    PROVE  BooksBalance
<1>1. SUFFICES ASSUME NEW d \in Dim, Capacity[d] > 0
               PROVE  /\ bucket[d].tokens <= Capacity[d]
                      /\ bucket[d].tokens + SumOver(Charges(d), Caller) + bucket[d].spilled
                             = Capacity[d] + bucket[d].lastRefillAt
  <2>1. \A d : SumFunction([c \in Caller |-> Charge(d, c)]) = SumOver(Charges(d), Caller)
    BY DEF SumFunction, SumOver, Charges
  <2> QED
    BY <2>1 DEF BooksBalance
<1>2. /\ bucket[d].tokens \in Int /\ bucket[d].spilled \in Nat
      /\ bucket[d].lastRefillAt \in Nat /\ Capacity[d] \in Nat
      /\ bucket[d].tokens <= Capacity[d]
  BY LimitsAssumption DEF BucketsSound, Sound, Bucket
<1>3. SumOver(Charges(d), Caller) \in Int
  BY ChargeType
<1>4. SumOver(Charges(d), Caller) + (bucket[d].tokens + bucket[d].spilled - bucket[d].lastRefillAt) = Capacity[d]
  BY <1>1 DEF Books, Value
<1> QED
  BY <1>2, <1>3, <1>4

LEMMA IInvParts ==
    ASSUME IInv
    PROVE  /\ now \in Nat /\ TypeOK /\ Staged /\ BucketsSound /\ FullPool
           /\ HeadHasTimer /\ PermitsExact /\ Books
           /\ promise \in [Caller -> Promise] /\ bucket \in [Dim -> Bucket]
<1>1. TypeOK
  BY DEF IInv
<1>2. now \in Nat
  BY <1>1, TimeAssumption DEF TypeOK
<1>3. promise \in [Caller -> Promise] /\ bucket \in [Dim -> Bucket]
  BY <1>1 DEF TypeOK, Promise, Bucket
<1> QED
  BY <1>2, <1>3 DEF IInv

(* A caller that an action leaves alone is charged what it is paid. *)
LEMMA BystanderIsCharged ==
    ASSUME IInv, NEW changed, NEW more, Ready(changed, more), Reschedule(changed, more),
           NEW d \in Dim, NEW e \in Caller, at'[e] = at[e], charged'[e] = charged[e],
           Mid(more, e) = promise[e] \/ at[e] \notin Dim
    PROVE  Charge(d, e)' = Charge(d, e) + IF e \in PaidOf(changed, d) THEN Need(d, e) ELSE 0
<1>1. now \in Nat /\ BucketsSound /\ promise \in [Caller -> Promise] /\ Staged /\ TypeOK
  BY IInvParts
<1>2. \A f \in Dim : \A c \in Caller :
          c \in PaidOf(changed, f) <=> at'[c] = f /\ Mid(more, c) = "waiting" /\ promise'[c] = "granted"
  BY <1>1, RescheduleGrants
<1>3. promise'[e] = Mid(more, e) \/ \E f \in Dim : e \in PaidOf(changed, f)
  BY <1>1, RescheduleGrants
<1>4. Need(d, e) \in Nat /\ Charge(d, e) \in Int
  BY <1>1, NeedType, ChargeType
<1>5. CASE e \in PaidOf(changed, d)
  <2>1. at[e] = d /\ at'[e] = d /\ promise[e] = "waiting" /\ promise'[e] = "granted"
    BY <1>2, <1>5
  <2>2. HasStage(e, d) /\ ~ Passed(d, d)
    BY <1>1, <2>1, OrderOfStages DEF Staged, Stage, Dim
  <2>3. Charge(d, e) = 0
    BY <2>1, <2>2 DEF Charge, Holds, Dim
  <2>4. Charge(d, e)' = Need(d, e)
    BY <2>1, <2>2 DEF Charge, Holds, Dim
  <2> QED
    BY <1>4, <1>5, <2>3, <2>4
<1>6. CASE e \notin PaidOf(changed, d)
  <2>1. at[e] = d => promise'[e] = promise[e]
    BY <1>2, <1>3, <1>6
  <2>2. Holds(d, e)' <=> Holds(d, e)
    BY <2>1 DEF Holds
  <2>3. Charge(d, e)' = Charge(d, e)
    BY <2>2 DEF Charge
  <2> QED
    BY <1>4, <1>6, <2>3
<1> QED
  BY <1>5, <1>6

(* The books of one dimension over an action that pays its queue: nobody but c,
   if anybody, is charged by the action itself, and what c is charged is what
   the bucket lost before it paid. *)
ChargedAlone(changed, more, d, C, k) ==
    /\ C \subseteq Caller /\ k \in Int
    /\ C = {} => k = 0
    /\ \A c \in C : \A e \in C : c = e
    /\ Value(Given(changed, d)) = Value(bucket[d]) - k
    /\ \A e \in Caller \ C : /\ at'[e] = at[e] /\ charged'[e] = charged[e]
                            /\ (Mid(more, e) = promise[e] \/ at[e] \notin Dim)
    /\ \A c \in C : Charge(d, c)' = Charge(d, c) + k + IF c \in PaidOf(changed, d) THEN Need(d, c) ELSE 0

LEMMA BooksAreKept ==
    ASSUME IInv, NEW changed, NEW more, Ready(changed, more), Reschedule(changed, more),
           NEW d \in Dim, Capacity[d] > 0, NEW C, NEW k, ChargedAlone(changed, more, d, C, k)
    PROVE  SumOver(Charges(d)', Caller) + Value(bucket'[d]) = Capacity[d]
<1> USE DEF ChargedAlone
<1>1. now \in Nat /\ BucketsSound /\ promise \in [Caller -> Promise] /\ TypeOK /\ IsFiniteSet(Caller)
  BY IInvParts, CallerAssumption
<1>2. /\ \A c \in Caller : Charge(d, c) \in Int /\ Charges(d)[c] = Charge(d, c)
      /\ SumOver(Charges(d), Caller) \in Int
  BY <1>1, ChargeType
<1> DEFINE mid == [e \in Caller |-> IF e \in C THEN Charge(d, e) + k ELSE Charge(d, e)]
<1>3. \A e \in Caller : mid[e] \in Int
  BY <1>2
<1>4. SumOver(mid, Caller) = SumOver(Charges(d), Caller) + k
  <2>1. PICK m, h : m = mid /\ h = Charges(d)
    OBVIOUS
  <2>2. CASE C = {}
    <3>1. \A e \in Caller : h[e] \in Int /\ m[e] = h[e]
      BY <1>2, <2>1, <2>2
    <3>2. SumOver(h, Caller) = SumOver(m, Caller)
      BY ONLY <1>1, <3>1, SumSame
    <3> QED
      BY <1>2, <2>1, <2>2, <3>2
  <2>3. CASE C # {}
    <3>1. PICK c \in C : TRUE
      BY <2>3
    <3>2. DifferAt(h, m, c, Caller)
      BY <1>1, <1>2, <1>3, <2>1, <3>1 DEF DifferAt
    <3>3. SumOver(m, Caller) = SumOver(h, Caller) + m[c] - h[c]
      BY ONLY <3>2, SumChange
    <3>4. m[c] = h[c] + k /\ h[c] \in Int
      BY <1>2, <2>1, <3>1
    <3> QED
      BY <1>2, <2>1, <3>3, <3>4
  <2> QED
    BY <2>2, <2>3
<1>5. \A e \in Caller :
          Charges(d)'[e] = mid[e] + IF e \in PaidOf(changed, d) THEN Need(d, e) ELSE 0
  <2>1. \A e \in Caller : Charges(d)'[e] = Charge(d, e)'
    BY DEF Charges
  <2>2. ASSUME NEW e \in Caller \ C
        PROVE  Charge(d, e)' = Charge(d, e) + IF e \in PaidOf(changed, d) THEN Need(d, e) ELSE 0
    <3>1. /\ e \in Caller /\ at'[e] = at[e] /\ charged'[e] = charged[e]
          /\ (Mid(more, e) = promise[e] \/ at[e] \notin Dim)
      OBVIOUS
    <3> QED
      BY <3>1, BystanderIsCharged
  <2> QED
    BY <2>1, <2>2
<1>6. SumOver(Charges(d)', Caller) + Value(bucket'[d]) = SumOver(mid, Caller) + Value(Given(changed, d))
  <2> HIDE DEF mid
  <2>1. PICK m, g : m = mid /\ g = Charges(d)'
    OBVIOUS
  <2>2. /\ \A e \in Caller : m[e] \in Int
        /\ \A e \in Caller : g[e] = m[e] + IF e \in PaidOf(changed, d) THEN Need(d, e) ELSE 0
    BY <1>3, <1>5, <2>1
  <2>3. SumOver(g, Caller) + Value(bucket'[d]) = SumOver(m, Caller) + Value(Given(changed, d))
    BY <1>1, <2>2, RescheduleCharges
  <2> QED
    BY <2>1, <2>3
<1>7. SumOver(Charges(d), Caller) + Value(bucket[d]) = Capacity[d]
  BY IInvParts DEF Books
<1>8. Value(bucket[d]) \in Int
  BY IInvParts DEF Bucket, Value
<1> HIDE DEF mid
<1> QED
  BY <1>2, <1>4, <1>6, <1>7, <1>8

-----------------------------------------------------------------------------
(* What the actions have in common *)

\* The queue of a stage holds the callers that wait in it, once each.
Line(st) ==
    /\ Range(Queue(st)) = {c \in Caller : at[c] = st /\ promise[c] = "waiting"}
    /\ IsInjective(Queue(st))

Pool == Permits > 0 => used = Cardinality({c \in Caller : HasPermit(c)})

\* The permits and their queue.
Permitted ==
    /\ used \in 0..Permits /\ permitQueue \in Seq(Caller)
    /\ Pool /\ FullPool /\ Line("permit")

\* The buckets, their queues and the stages.
Queued ==
    /\ bucket \in [Dim -> Bucket] /\ promise \in [Caller -> Promise]
    /\ BucketsSound /\ HeadHasTimer /\ Staged
    /\ \A d \in Dim : Line(d)

LEMMA IInvQueues ==
    ASSUME IInv
    PROVE  Permitted /\ Queued
<1>1. TypeOK /\ Staged /\ FullPool /\ HeadHasTimer /\ BucketsSound /\ PermitsExact
  BY DEF IInv
<1>2. /\ bucket \in [Dim -> Bucket] /\ promise \in [Caller -> Promise]
      /\ used \in 0..Permits /\ permitQueue \in Seq(Caller)
  BY <1>1 DEF TypeOK, Bucket, Promise
<1>3. Pool /\ \A st \in Stage : Line(st)
  BY <1>1 DEF PermitsExact, Pool, Line
<1> QED
  BY <1>1, <1>2, <1>3 DEF Permitted, Queued, Stage

LEMMA IInvFromQueues ==
    ASSUME Permitted', Queued', Books',
           now' \in 0..MaxTime, at' \in [Caller -> {"idle"} \cup Stage \cup Outcome],
           deadlineAt' \in [Caller -> Nat], aborted' \in [Caller -> BOOLEAN],
           charged' \in [Caller -> Nat]
    PROVE  IInv'
<1>1. TypeOK'
  BY DEF TypeOK, Permitted, Queued, Bucket, Promise
<1>2. PermitsExact'
  <2>1. Pool' /\ \A st \in Stage : Line(st)'
    BY DEF Permitted, Queued, Stage
  <2> QED
    BY <2>1 DEF PermitsExact, Pool, Line
<1> QED
  BY <1>1, <1>2 DEF IInv, Permitted, Queued

(* The permits are as they were when nobody's was taken, given or asked for. *)
LEMMA PermitsUntouched ==
    ASSUME IInv, used' = used, permitQueue' = permitQueue,
           \A c \in Caller : /\ HasPermit(c)' <=> HasPermit(c)
                             /\ at'[c] = "permit" /\ promise'[c] = "waiting"
                                    <=> at[c] = "permit" /\ promise[c] = "waiting"
    PROVE  Permitted'
<1>1. Permitted
  BY IInvQueues
<1>2. {c \in Caller : HasPermit(c)}' = {c \in Caller : HasPermit(c)}
  OBVIOUS
<1>3. Pool'
  BY <1>1, <1>2 DEF Permitted, Pool
<1>4. FullPool'
  BY <1>1 DEF Permitted, FullPool
<1>5. Line("permit")'
  BY <1>1 DEF Permitted, Line, Queue
<1> QED
  BY <1>1, <1>3, <1>4, <1>5 DEF Permitted

(* An action that hands buckets to Reschedule keeps them and the stages. *)
LEMMA PayingKeepsQueues ==
    ASSUME IInv, now' = now, NEW changed, NEW more, Ready(changed, more), Reschedule(changed, more),
           \A c \in Caller : /\ at'[c] \in Stage <=> Mid(more, c) # "none"
                             /\ at'[c] \in Stage => HasStage(c, at'[c])
    PROVE  /\ Queued'
           /\ \A c \in Caller : \/ promise'[c] = Mid(more, c)
                                \/ /\ at'[c] \in Dim
                                   /\ Mid(more, c) = "waiting" /\ promise'[c] = "granted"
<1>1. now \in Nat /\ BucketsSound /\ HeadHasTimer /\ promise \in [Caller -> Promise]
  BY IInvParts
<1>2. /\ promise' \in [Caller -> Promise]
      /\ \A d \in Dim : \A c \in Caller :
            c \in PaidOf(changed, d) <=> at'[c] = d /\ Mid(more, c) = "waiting" /\ promise'[c] = "granted"
      /\ \A c \in Caller : promise'[c] = Mid(more, c) \/ \E d \in Dim : c \in PaidOf(changed, d)
  BY <1>1, RescheduleGrants
<1>3. \A c \in Caller : \/ promise'[c] = Mid(more, c)
                        \/ at'[c] \in Dim /\ Mid(more, c) = "waiting" /\ promise'[c] = "granted"
  BY <1>2
<1>4. /\ bucket' \in [Dim -> Bucket]
      /\ \A d \in Dim : Sound(d, bucket'[d])
      /\ \A d \in Dim : HeadTimed(d, bucket'[d])
      /\ \A d \in Dim :
            /\ Range(bucket'[d].queue) = {c \in Caller : at'[c] = d /\ promise'[c] = "waiting"}
            /\ IsInjective(bucket'[d].queue)
  BY <1>1, RescheduleKeepsBuckets
<1>5. BucketsSound'
  BY <1>4 DEF BucketsSound, Sound
<1>6. HeadHasTimer'
  BY <1>4 DEF HeadHasTimer, HeadTimed
<1>7. Staged'
  BY <1>3 DEF Staged
<1>8. \A d \in Dim : Line(d)'
  BY <1>4 DEF Line, Queue, Dim
<1> QED
  BY <1>2, <1>3, <1>4, <1>5, <1>6, <1>7, <1>8 DEF Queued

(* When no queue changes and nobody at a bucket moves, all is ready. *)
LEMMA ReadyInPlace ==
    ASSUME IInv, NEW changed, NEW more, DOMAIN changed \subseteq Dim,
           \A d \in DOMAIN changed : Sound(d, changed[d]) /\ changed[d].queue = bucket[d].queue,
           \A c \in DOMAIN more : more[c] \in Promise,
           \A c \in Caller, d \in Dim :
              at'[c] = d /\ Mid(more, c) = "waiting" <=> at[c] = d /\ promise[c] = "waiting"
    PROVE  Ready(changed, more)
<1>1. ASSUME NEW d \in Dim
      PROVE  Given(changed, d).queue = bucket[d].queue
  BY DEF Given
<1>2. \A d \in Dim : Line(d)
  BY IInvQueues DEF Queued
<1>3. ASSUME NEW d \in Dim
      PROVE  /\ IsInjective(Given(changed, d).queue)
             /\ Range(Given(changed, d).queue) = {c \in Caller : at'[c] = d /\ Mid(more, c) = "waiting"}
  BY <1>1, <1>2 DEF Line, Queue, Dim
<1> QED
  BY <1>1, <1>3 DEF Ready

-----------------------------------------------------------------------------
(* The actions, one by one *)

LEMMA TickKeeps ==
    ASSUME IInv, Tick
    PROVE  IInv'
<1>1. Permitted /\ Queued /\ Books /\ TypeOK /\ now \in Nat
  BY IInvQueues, IInvParts
<1>2. /\ now' = now + 1 /\ now' \in 0..MaxTime
      /\ UNCHANGED <<bucket, used, permitQueue, at, promise, deadlineAt, aborted, charged>>
  BY <1>1, TimeAssumption DEF Tick, TypeOK
<1>3. Permitted'
  BY <1>2, PermitsUntouched DEF HasPermit
<1>4. BucketsSound'
  BY <1>1, <1>2 DEF Queued, BucketsSound, Sound, Bucket
<1>5. Queued'
  <2>1. HeadHasTimer' /\ Staged' /\ \A d \in Dim : Line(d)'
    BY <1>1, <1>2 DEF Queued, HeadHasTimer, Staged, Line, Queue
  <2> QED
    BY <1>1, <1>2, <1>4, <2>1 DEF Queued
<1>6. Books'
  BY <1>1, <1>2 DEF Books, Charges, Charge, Holds
<1> QED
  BY <1>1, <1>2, <1>3, <1>5, <1>6, IInvFromQueues DEF TypeOK

-----------------------------------------------------------------------------
(* In turn *)

\* Nobody is granted a stage before those who wait there already.
InTurn ==
    \A c \in Caller, st \in Stage :
        at'[c] = st /\ promise'[c] = "granted" /\ ~(at[c] = st /\ promise[c] = "granted") =>
            \A e \in Caller \ {c} :
                e \in Range(Queue(st)) /\ e \in Range(Queue(st)') => Before(Queue(st), c, e)

(* An action that pays serves in turn. *)
LEMMA PayingIsInTurn ==
    ASSUME IInv, now' = now, NEW changed, NEW more, Ready(changed, more), Reschedule(changed, more),
           \A c \in Caller : /\ at'[c] \in Stage <=> Mid(more, c) # "none"
                             /\ at'[c] \in Stage => HasStage(c, at'[c]),
           \A c \in Caller : at'[c] \in Stage /\ Mid(more, c) = "granted" =>
               /\ at[c] = at'[c]
               /\ \/ promise[c] = "granted"
                  \/ /\ at[c] = "permit"
                     /\ \A e \in Caller \ {c} : e \in Range(permitQueue) => Before(permitQueue, c, e)
    PROVE  InTurn
<1>1. now \in Nat /\ BucketsSound /\ promise \in [Caller -> Promise]
  BY IInvParts
<1>2. SUFFICES ASSUME NEW c \in Caller, NEW st \in Stage,
                      at'[c] = st, promise'[c] = "granted", ~(at[c] = st /\ promise[c] = "granted"),
                      NEW e \in Caller \ {c},
                      e \in Range(Queue(st)), e \in Range(Queue(st)')
               PROVE  Before(Queue(st), c, e)
  BY DEF InTurn
<1>3. promise'[c] = Mid(more, c) \/ (at'[c] \in Dim /\ Mid(more, c) = "waiting")
  BY PayingKeepsQueues
<1>4. CASE promise'[c] = Mid(more, c)
  <2>1. st = "permit" /\ \A x \in Caller \ {c} : x \in Range(permitQueue) => Before(permitQueue, c, x)
    BY <1>2, <1>4
  <2> QED
    BY <1>2, <2>1 DEF Queue
<1>5. CASE at'[c] \in Dim /\ Mid(more, c) = "waiting"
  <2>1. st \in Dim /\ Queue(st) = bucket[st].queue /\ Queue(st)' = bucket'[st].queue
    BY <1>2, <1>5 DEF Queue, Dim
  <2>2. c \in PaidOf(changed, st)
    BY <1>1, <1>2, <1>5, <2>1, RescheduleGrants
  <2> QED
    BY <1>1, <1>2, <2>1, <2>2, RescheduleInOrder
<1> QED
  BY <1>3, <1>4, <1>5

\* Over a step that gives nobody a stage.
LEMMA NobodyServed ==
    ASSUME \A c \in Caller : at'[c] \in Stage /\ promise'[c] = "granted" => at[c] = at'[c] /\ promise[c] = "granted"
    PROVE  InTurn
  BY DEF InTurn

LEMMA ValueIsWhole ==
    ASSUME IInv, NEW d \in Dim
    PROVE  Value(bucket[d]) \in Int
  BY IInvParts DEF Bucket, Value

-----------------------------------------------------------------------------
(* Refusals *)

(* A refusal gives back what the earlier stages took. *)
LEMMA RefuseKeeps ==
    ASSUME IInv, NEW c \in Caller, refuse(c)
    PROVE  IInv' /\ InTurn
<1> DEFINE changed == Refunds(c, Took(c))
           more == Becomes(c, "none")
<1>1. /\ at[c] \in Stage /\ promise[c] = "failed" /\ at' = [at EXCEPT ![c] = "refused"]
      /\ UNCHANGED <<now, used, permitQueue, deadlineAt, aborted, charged>>
      /\ Reschedule(changed, more)
  BY DEF refuse
<1>2. now \in Nat /\ TypeOK /\ BucketsSound /\ Staged /\ Books /\ promise \in [Caller -> Promise]
  BY IInvParts
<1>3. at'[c] = "refused" /\ \A e \in Caller \ {c} : at'[e] = at[e]
  BY <1>1, <1>2 DEF TypeOK
<1>4. /\ DOMAIN changed = Took(c) /\ Took(c) \subseteq Dim
      /\ \A d \in Took(c) : changed[d] = refund(d, bucket[d], Need(d, c))
      /\ DOMAIN more = {c} /\ more[c] = "none"
  BY DEF Refunds, Took, Becomes
<1>5. \A e \in Caller : Mid(more, e) = IF e = c THEN "none" ELSE promise[e]
  BY <1>4 DEF Mid
<1>6. ASSUME NEW d \in Took(c)
      PROVE  /\ Sound(d, changed[d]) /\ changed[d].queue = bucket[d].queue
             /\ Value(changed[d]) = Value(bucket[d]) + Need(d, c)
  BY <1>2, <1>4, NeedType, RefundGivesBack DEF BucketsSound
<1> HIDE DEF changed, more
<1>7. Ready(changed, more)
  <2>1. \A e \in DOMAIN more : more[e] \in Promise
    BY <1>4 DEF Promise
  <2>2. \A e \in Caller, d \in Dim :
            at'[e] = d /\ Mid(more, e) = "waiting" <=> at[e] = d /\ promise[e] = "waiting"
    BY <1>1, <1>3, <1>5 DEF Dim
  <2> QED
    BY <1>4, <1>6, <2>1, <2>2, ReadyInPlace
<1>8. \A e \in Caller : /\ at'[e] \in Stage <=> Mid(more, e) # "none"
                        /\ at'[e] \in Stage => HasStage(e, at'[e])
  BY <1>2, <1>3, <1>5 DEF Staged, Stage, Dim
<1>9. /\ Queued'
      /\ \A e \in Caller : \/ promise'[e] = Mid(more, e)
                           \/ at'[e] \in Dim /\ Mid(more, e) = "waiting" /\ promise'[e] = "granted"
  BY <1>1, <1>7, <1>8, PayingKeepsQueues
<1>10. Permitted'
  <2>1. \A e \in Caller : /\ HasPermit(e)' <=> HasPermit(e)
                          /\ at'[e] = "permit" /\ promise'[e] = "waiting"
                                 <=> at[e] = "permit" /\ promise[e] = "waiting"
    BY <1>1, <1>3, <1>5, <1>9 DEF HasPermit, Stage, Dim
  <2> QED
    BY <1>1, <2>1, PermitsUntouched
<1>11. ASSUME NEW d \in Dim, Capacity[d] > 0
       PROVE  SumOver(Charges(d)', Caller) + Value(bucket'[d]) = Capacity[d]
  <2> DEFINE back == IF d \in Took(c) THEN Need(d, c) ELSE 0
  <2>1. back \in Int /\ Need(d, c) \in Int
    BY NeedType
  <2>2. Value(Given(changed, d)) = Value(bucket[d]) - (-back)
    <3>1. Value(bucket[d]) \in Int
      BY ValueIsWhole
    <3>2. Value(Given(changed, d)) = Value(bucket[d]) + back
      <4>1. CASE d \in Took(c)
        BY <1>4, <1>6, <4>1 DEF Given
      <4>2. CASE d \notin Took(c)
        BY <1>4, <3>1, <4>2 DEF Given
      <4> QED
        BY <4>1, <4>2
    <3> QED
      BY <2>1, <3>1, <3>2
  <2>3. c \notin PaidOf(changed, d)
    BY <1>1, <1>2, <1>3, <1>7, RescheduleGrants DEF Dim
  <2>4. Charge(d, c) = back
    BY <1>1 DEF Charge, Holds, Took, Stage, Dim
  <2>5. Charge(d, c)' = 0
    <3>1. ~ Holds(d, c)'
      BY <1>3, OrderOfStages DEF Holds, Dim
    <3> QED
      BY <1>3, <3>1 DEF Charge
  <2> HIDE DEF back
  <2>6. ChargedAlone(changed, more, d, {c}, -back)
    BY <1>1, <1>3, <1>5, <2>1, <2>2, <2>3, <2>4, <2>5 DEF ChargedAlone
  <2> QED
    BY <1>1, <1>7, <1>11, <2>6, BooksAreKept
<1>12. Books'
  BY <1>11 DEF Books, Value
<1>13. InTurn
  BY <1>1, <1>3, <1>5, <1>7, <1>8, PayingIsInTurn DEF Stage, Dim
<1>14. at' \in [Caller -> {"idle"} \cup Stage \cup Outcome]
  BY <1>1, <1>2 DEF TypeOK, Outcome
<1> QED
  BY <1>1, <1>2, <1>9, <1>10, <1>12, <1>13, <1>14, IInvFromQueues DEF TypeOK

-----------------------------------------------------------------------------
(* The end of a lease *)

(* The permit of c goes to the head of the queue, or back to the pool. *)
LEMMA ReleaseKeepsPermits ==
    ASSUME IInv, NEW c \in Caller, at[c] = "leased", release,
           at'[c] \in {"settled", "abandoned"}, \A e \in Caller \ {c} : at'[e] = at[e],
           \A e \in Caller : at[e] \notin Dim =>
               promise'[e] = IF e \in handed THEN "granted" ELSE promise[e]
    PROVE  Permitted'
<1>1. Permitted /\ TypeOK /\ Permits \in Nat /\ IsFiniteSet(Caller)
  BY IInvQueues, IInvParts, CallerAssumption, LimitsAssumption
<1>2. /\ Pool /\ FullPool /\ Line("permit") /\ used \in 0..Permits /\ permitQueue \in Seq(Caller)
  BY <1>1 DEF Permitted
<1> DEFINE Holders == {e \in Caller : HasPermit(e)}
<1>3. IsFiniteSet(Holders) /\ c \in Holders
  BY <1>1, FS_Subset DEF HasPermit
<1>4. CASE permitQueue = <<>>
  <2>1. handed = {} /\ permitQueue' = permitQueue /\ used' = IF Permits > 0 THEN used - 1 ELSE used
    BY <1>4 DEF handed, release
  <2>2. \A e \in Caller \ {c} : /\ HasPermit(e)' <=> HasPermit(e)
                                /\ at'[e] = "permit" /\ promise'[e] = "waiting"
                                       <=> at[e] = "permit" /\ promise[e] = "waiting"
    BY <2>1 DEF HasPermit, Dim
  <2>3. Holders' = Holders \ {c} /\ at'[c] # "permit" /\ at[c] # "permit"
    <3>1. ~ HasPermit(c)' /\ at'[c] # "permit" /\ at[c] # "permit"
      BY DEF HasPermit
    <3>2. ASSUME NEW e \in Caller PROVE HasPermit(e)' <=> HasPermit(e) /\ e # c
      <4>1. CASE e = c
        BY <3>1, <4>1
      <4>2. CASE e # c
        BY <2>2, <4>2 DEF HasPermit
      <4> QED
        BY <4>1, <4>2
    <3>3. \A e : e \in Holders' <=> e \in Caller /\ HasPermit(e)'
      OBVIOUS
    <3>4. \A e : e \in Holders <=> e \in Caller /\ HasPermit(e)
      OBVIOUS
    <3> HIDE DEF Holders
    <3>5. Holders' = Holders \ {c}
      BY <3>2, <3>3, <3>4
    <3> QED
      BY <3>1, <3>5
  <2>4. Line("permit")'
    BY <1>2, <2>1, <2>2, <2>3 DEF Line, Queue
  <2>5. Cardinality(Holders') = Cardinality(Holders) - 1 /\ Cardinality(Holders) \in Nat
        /\ Cardinality(Holders') \in Nat
    BY <1>3, <2>3, FS_RemoveElement, FS_CardinalityType
  <2>6. Pool' /\ used' \in 0..Permits
    BY <1>1, <1>2, <2>1, <2>5 DEF Pool
  <2>7. FullPool'
    BY <1>4, <2>1 DEF FullPool
  <2> QED
    BY <1>2, <2>1, <2>4, <2>6, <2>7 DEF Permitted
<1>5. CASE permitQueue # <<>>
  <2>1. Permits > 0 /\ used = Permits
    BY <1>2, <1>5 DEF FullPool
  <2>2. PICK z : z = Head(permitQueue)
    OBVIOUS
  <2>3. handed = {z} /\ permitQueue' = Tail(permitQueue) /\ used' = used
    BY <1>1, <1>5, <2>1, <2>2 DEF handed, release
  <2>4. /\ 1 \in DOMAIN permitQueue /\ permitQueue[1] = z
        /\ permitQueue' = SubSeq(permitQueue, 2, Len(permitQueue)) /\ 1 \in 0..Len(permitQueue)
    BY <1>2, <1>5, <2>2, <2>3
  <2>5. z \in Range(permitQueue)
    BY <2>4 DEF Range
  <2>6. z \in Caller /\ at[z] = "permit" /\ promise[z] = "waiting" /\ IsInjective(permitQueue)
    BY <1>2, <2>5 DEF Line, Queue
  <2>7. z # c /\ z \notin Holders /\ at'[z] = "permit" /\ promise'[z] = "granted"
    BY <2>3, <2>6 DEF HasPermit, Dim
  <2>8. \A e \in Caller \ {c, z} : /\ HasPermit(e)' <=> HasPermit(e)
                                   /\ at'[e] = "permit" /\ promise'[e] = "waiting"
                                          <=> at[e] = "permit" /\ promise[e] = "waiting"
    BY <2>3 DEF HasPermit, Dim
  <2>9. Holders' = (Holders \ {c}) \cup {z}
    <3>1. ~ HasPermit(c)' /\ HasPermit(z)'
      BY <2>7 DEF HasPermit
    <3>2. ASSUME NEW e \in Caller PROVE HasPermit(e)' <=> (HasPermit(e) /\ e # c) \/ e = z
      <4>1. CASE e \in {c, z}
        BY <2>7, <3>1, <4>1
      <4>2. CASE e \notin {c, z}
        BY <2>8, <4>2 DEF HasPermit
      <4> QED
        BY <4>1, <4>2
    <3>3. \A e : e \in Holders' <=> e \in Caller /\ HasPermit(e)'
      OBVIOUS
    <3>4. \A e : e \in Holders <=> e \in Caller /\ HasPermit(e)
      OBVIOUS
    <3> HIDE DEF Holders
    <3> QED
      BY <2>6, <3>2, <3>3, <3>4
  <2>10. /\ permitQueue' \in Seq(Caller) /\ IsInjective(permitQueue')
         /\ Range(permitQueue') = Range(permitQueue) \ {permitQueue[i] : i \in 1..1}
    <3>1. PICK q : q = permitQueue
      OBVIOUS
    <3>2. q \in Seq(Caller) /\ IsInjective(q) /\ 1 \in 0..Len(q) /\ permitQueue' = SubSeq(q, 1 + 1, Len(q))
      BY <1>2, <2>4, <2>6, <3>1
    <3>3. LET r == SubSeq(q, 1 + 1, Len(q))
          IN  /\ r \in Seq(Caller) /\ IsInjective(r)
              /\ Range(r) = Range(q) \ {q[i] : i \in 1..1}
      BY <3>2, PayQueue
    <3> QED
      BY ONLY <3>1, <3>2, <3>3
  <2>11. {permitQueue[i] : i \in 1..1} = {z}
    BY <2>4
  <2>12. Line("permit")'
    <3>1. {e \in Caller : at'[e] = "permit" /\ promise'[e] = "waiting"}
              = {e \in Caller : at[e] = "permit" /\ promise[e] = "waiting"} \ {z}
      <4>1. at'[c] # "permit" /\ at[c] # "permit" /\ promise'[z] # "waiting"
        BY <2>7
      <4>2. ASSUME NEW e \in Caller
            PROVE  (at'[e] = "permit" /\ promise'[e] = "waiting")
                       <=> (at[e] = "permit" /\ promise[e] = "waiting" /\ e # z)
        <5>1. CASE e \in {c, z}
          BY <4>1, <5>1
        <5>2. CASE e \notin {c, z}
          BY <2>8, <5>2 DEF HasPermit
        <5> QED
          BY <5>1, <5>2
      <4> QED
        BY <4>2
    <3> QED
      BY <1>2, <2>10, <2>11, <3>1 DEF Line, Queue
  <2>13. Cardinality(Holders') = Cardinality(Holders)
    <3>1. IsFiniteSet(Holders \ {c}) /\ Cardinality(Holders \ {c}) = Cardinality(Holders) - 1
      BY <1>3, FS_RemoveElement
    <3>2. Cardinality((Holders \ {c}) \cup {z}) = Cardinality(Holders \ {c}) + 1
      BY <2>7, <3>1, FS_AddElement
    <3>3. Cardinality(Holders) \in Nat
      BY <1>3, FS_CardinalityType
    <3>4. Cardinality(Holders') = Cardinality((Holders \ {c}) \cup {z})
      BY <2>9
    <3>5. PICK n, m : n = Cardinality(Holders) /\ m = Cardinality(Holders')
      OBVIOUS
    <3> HIDE DEF Holders
    <3>6. n \in Nat /\ m = (n - 1) + 1
      BY <3>1, <3>2, <3>3, <3>4, <3>5
    <3> QED
      BY <3>5, <3>6
  <2>14. Pool' /\ used' \in 0..Permits
    BY <1>1, <1>2, <2>3, <2>13 DEF Pool
  <2>15. FullPool'
    BY <2>1, <2>3 DEF FullPool
  <2> QED
    BY <2>10, <2>12, <2>14, <2>15 DEF Permitted
<1> QED
  BY <1>4, <1>5

\* The end of c's lease, for the buckets and the charge it comes with.
Finishes(c, changed) ==
    /\ at[c] = "leased" /\ at' \in [Caller -> {"idle"} \cup Stage \cup Outcome]
    /\ at'[c] \in {"settled", "abandoned"} /\ \A e \in Caller \ {c} : at'[e] = at[e]
    /\ charged' \in [Caller -> Nat] /\ \A e \in Caller \ {c} : charged'[e] = charged[e]
    /\ release
    /\ DOMAIN changed \subseteq Dim
    /\ \A d \in DOMAIN changed : Sound(d, changed[d]) /\ changed[d].queue = bucket[d].queue
    /\ Reschedule(changed, [z \in handed |-> "granted"])
    /\ \A d \in Dim : Capacity[d] > 0 =>
           /\ Charge(d, c)' \in Int
           /\ Value(Given(changed, d)) = Value(bucket[d]) + Charge(d, c) - Charge(d, c)'
    /\ UNCHANGED <<now, deadlineAt, aborted>>

(* However a lease ends: its charge is what the buckets lost or got back. *)
LEMMA FinishKeeps ==
    ASSUME IInv, NEW c \in Caller, NEW changed, Finishes(c, changed)
    PROVE  IInv' /\ InTurn
<1> DEFINE more == [z \in handed |-> "granted"]
<1>1. /\ at[c] = "leased" /\ at'[c] \in {"settled", "abandoned"} /\ \A e \in Caller \ {c} : at'[e] = at[e]
      /\ release /\ now' = now /\ DOMAIN changed \subseteq Dim
      /\ \A d \in DOMAIN changed : Sound(d, changed[d]) /\ changed[d].queue = bucket[d].queue
      /\ Reschedule(changed, more)
  BY DEF Finishes
<1>2. now \in Nat /\ TypeOK /\ BucketsSound /\ Staged /\ Books /\ promise \in [Caller -> Promise] /\ Permitted
  BY IInvParts, IInvQueues
<1>3. \A z \in handed : /\ z \in Caller /\ at[z] = "permit" /\ promise[z] = "waiting"
                        /\ \A e \in Caller \ {z} : e \in Range(permitQueue) => Before(permitQueue, z, e)
  <2>1. SUFFICES ASSUME NEW z \in handed
                 PROVE  /\ z \in Caller /\ at[z] = "permit" /\ promise[z] = "waiting"
                        /\ \A e \in Caller \ {z} : e \in Range(permitQueue) => Before(permitQueue, z, e)
    OBVIOUS
  <2>2. permitQueue \in Seq(Caller) /\ permitQueue # <<>> /\ z = Head(permitQueue)
    BY <1>2 DEF handed, Permitted
  <2>3. /\ DOMAIN permitQueue = 1..Len(permitQueue) /\ Len(permitQueue) \in Nat
        /\ 1 \in DOMAIN permitQueue /\ permitQueue[1] = z
    BY <2>2
  <2>4. z \in Range(permitQueue)
    BY <2>3 DEF Range
  <2>5. z \in Caller /\ at[z] = "permit" /\ promise[z] = "waiting"
    BY <1>2, <2>4 DEF Permitted, Line, Queue
  <2>6. ASSUME NEW e \in Caller \ {z}, e \in Range(permitQueue) PROVE Before(permitQueue, z, e)
    <3>1. PICK j \in DOMAIN permitQueue : permitQueue[j] = e
      BY <2>6 DEF Range
    <3>2. 1 < j
      BY <2>3, <2>6, <3>1
    <3> QED
      BY <2>3, <3>1, <3>2 DEF Before
  <2> QED
    BY <2>5, <2>6
<1>4. /\ DOMAIN more = handed /\ \A z \in handed : more[z] = "granted"
  OBVIOUS
<1>5. \A e \in Caller : Mid(more, e) = IF e \in handed THEN "granted" ELSE promise[e]
  BY <1>4 DEF Mid
<1>6. c \notin handed /\ promise[c] = "none"
  BY <1>1, <1>2, <1>3 DEF Staged, Stage, Dim
<1> HIDE DEF more
<1>7. Ready(changed, more)
  <2>1. \A e \in DOMAIN more : more[e] \in Promise
    BY <1>4 DEF Promise
  <2>2. \A e \in Caller, d \in Dim :
            at'[e] = d /\ Mid(more, e) = "waiting" <=> at[e] = d /\ promise[e] = "waiting"
    BY <1>1, <1>3, <1>5, <1>6 DEF Dim
  <2> QED
    BY <1>1, <2>1, <2>2, ReadyInPlace
<1>8. \A e \in Caller : /\ at'[e] \in Stage <=> Mid(more, e) # "none"
                        /\ at'[e] \in Stage => HasStage(e, at'[e])
  BY <1>1, <1>2, <1>3, <1>5, <1>6 DEF Staged, Stage, Dim
<1>9. /\ Queued'
      /\ \A e \in Caller : \/ promise'[e] = Mid(more, e)
                           \/ at'[e] \in Dim /\ Mid(more, e) = "waiting" /\ promise'[e] = "granted"
  BY <1>1, <1>7, <1>8, PayingKeepsQueues
<1>10. Permitted'
  <2>1. \A e \in Caller : at[e] \notin Dim =>
            promise'[e] = IF e \in handed THEN "granted" ELSE promise[e]
    BY <1>1, <1>5, <1>6, <1>9 DEF Dim
  <2> QED
    BY <1>1, <2>1, ReleaseKeepsPermits
<1>11. ASSUME NEW d \in Dim, Capacity[d] > 0
       PROVE  SumOver(Charges(d)', Caller) + Value(bucket'[d]) = Capacity[d]
  <2>1. /\ Charge(d, c)' \in Int
        /\ Value(Given(changed, d)) = Value(bucket[d]) + Charge(d, c) - Charge(d, c)'
        /\ \A e \in Caller \ {c} : charged'[e] = charged[e]
    BY <1>11 DEF Finishes
  <2>2. Charge(d, c) \in Int /\ Value(bucket[d]) \in Int
    BY <1>2, ChargeType, ValueIsWhole
  <2>3. PICK k : k = Charge(d, c)' - Charge(d, c)
    OBVIOUS
  <2>4. k \in Int /\ Value(Given(changed, d)) = Value(bucket[d]) - k
    BY <2>1, <2>2, <2>3
  <2>5. c \notin PaidOf(changed, d)
    BY <1>1, <1>2, <1>7, RescheduleGrants DEF Dim
  <2>6. Charge(d, c)' = Charge(d, c) + k + IF c \in PaidOf(changed, d) THEN Need(d, c) ELSE 0
    BY <2>1, <2>2, <2>3, <2>5
  <2>7. \A e \in Caller \ {c} : Mid(more, e) = promise[e] \/ at[e] \notin Dim
    BY <1>3, <1>5 DEF Dim
  <2>8. ChargedAlone(changed, more, d, {c}, k)
    BY <1>1, <2>1, <2>4, <2>6, <2>7 DEF ChargedAlone
  <2> QED
    BY <1>1, <1>7, <1>11, <2>8, BooksAreKept
<1>12. Books'
  BY <1>11 DEF Books, Value
<1>13. InTurn
  <2>1. \A e \in Caller : at'[e] \in Stage /\ Mid(more, e) = "granted" =>
            /\ at[e] = at'[e]
            /\ \/ promise[e] = "granted"
               \/ /\ at[e] = "permit"
                  /\ \A x \in Caller \ {e} : x \in Range(permitQueue) => Before(permitQueue, e, x)
    BY <1>1, <1>3, <1>5 DEF Stage, Dim
  <2> QED
    BY <1>1, <1>7, <1>8, <2>1, PayingIsInTurn
<1> QED
  BY <1>2, <1>9, <1>10, <1>12, <1>13, IInvFromQueues DEF Finishes, TypeOK

(* A lease is charged one request and its reservation. *)
LEMMA LeaseIsCharged ==
    ASSUME TypeOK, NEW c \in Caller, at[c] = "leased", NEW d \in Dim, Capacity[d] > 0
    PROVE  Charge(d, c) = Need(d, c)
<1>1. Holds(d, c)
  BY OrderOfStages DEF Holds, Dim
<1>2. Need(d, c) \in Nat /\ Cost[c] \in Nat /\ Capacity["tpm"] \in Nat
  BY NeedType, CallerAssumption, LimitsAssumption DEF Dim
<1>3. ~ HasStage(c, d) => d = "tpm" /\ Cost[c] = 0
  BY <1>2 DEF HasStage, Dim
<1>4. ~ HasStage(c, d) => Need(d, c) = 0
  BY <1>2, <1>3, MinOfTwo DEF Need
<1> QED
  BY <1>1, <1>4 DEF Charge

(* settle charges the overrun; *)
LEMMA SettleKeeps ==
    ASSUME IInv, NEW c \in Caller, NEW actual \in Nat, settle(c, actual)
    PROVE  IInv' /\ InTurn
<1> DEFINE need == Need("tpm", c)
           over == forceTake("tpm", bucket["tpm"], actual - need)
           changed == IF Capacity["tpm"] > 0 /\ actual > need THEN Becomes("tpm", over) ELSE <<>>
<1>1. /\ at[c] = "leased" /\ at' = [at EXCEPT ![c] = "settled"]
      /\ charged' = [charged EXCEPT ![c] = Max({need, actual})]
      /\ release /\ Reschedule(changed, [z \in handed |-> "granted"])
      /\ UNCHANGED <<now, deadlineAt, aborted>>
  BY DEF settle
<1>2. now \in Nat /\ TypeOK /\ BucketsSound /\ "tpm" \in Dim /\ "rpm" \in Dim
  BY IInvParts DEF Dim
<1>3. need \in Nat
  BY <1>2, NeedType
<1>4. Max({need, actual}) = IF need >= actual THEN need ELSE actual
  BY <1>3, MaxOfTwo
<1>5. charged' \in [Caller -> Nat] /\ charged'[c] = IF need >= actual THEN need ELSE actual
  BY <1>1, <1>2, <1>3, <1>4 DEF TypeOK
<1>6. Capacity["tpm"] > 0 /\ actual > need =>
          Sound("tpm", over) /\ Value(over) = Value(bucket["tpm"]) - (actual - need)
          /\ over.queue = bucket["tpm"].queue
  <2>1. SUFFICES ASSUME actual > need
                 PROVE  Sound("tpm", over) /\ Value(over) = Value(bucket["tpm"]) - (actual - need)
                        /\ over.queue = bucket["tpm"].queue
    OBVIOUS
  <2>2. actual - need \in Nat
    BY <1>3, <2>1
  <2> HIDE DEF need
  <2> QED
    BY <1>2, <2>2, ForceTakeCharges DEF BucketsSound
<1> HIDE DEF over
<1>7. CASE Capacity["tpm"] > 0 /\ actual > need
  <2>1. DOMAIN changed = {"tpm"} /\ changed["tpm"] = over
    BY <1>7 DEF Becomes
  <2>2. \A d \in DOMAIN changed : Sound(d, changed[d]) /\ changed[d].queue = bucket[d].queue
    BY <1>6, <1>7, <2>1
  <2>3. ASSUME NEW d \in Dim, Capacity[d] > 0
        PROVE  /\ Charge(d, c)' \in Int
               /\ Value(Given(changed, d)) = Value(bucket[d]) + Charge(d, c) - Charge(d, c)'
    <3> HIDE DEF need, changed
    <3>1. Charge(d, c) = Need(d, c) /\ Value(bucket[d]) \in Int
      BY <1>1, <1>2, <2>3, LeaseIsCharged, ValueIsWhole
    <3>2. Charge(d, c)' = IF d = "rpm" THEN 1 ELSE actual
      BY <1>1, <1>2, <1>3, <1>5, <1>7 DEF Charge, TypeOK
    <3>3. CASE d = "rpm"
      <4>1. Given(changed, d) = bucket[d] /\ Need(d, c) = 1
        BY <2>1, <3>3 DEF Given, Need
      <4> QED
        BY <3>1, <3>2, <3>3, <4>1
    <3>4. CASE d = "tpm"
      <4>1. Given(changed, d) = over /\ Need(d, c) = need
        BY <2>1, <3>4 DEF Given, need
      <4> QED
        BY <1>3, <1>6, <1>7, <3>1, <3>2, <3>4, <4>1
    <3> QED
      BY <3>3, <3>4 DEF Dim
  <2> HIDE DEF changed, need
  <2>4. Finishes(c, changed)
    BY <1>1, <1>2, <1>5, <2>1, <2>2, <2>3 DEF Finishes, TypeOK, Outcome
  <2> QED
    BY <2>4, FinishKeeps
<1>8. CASE ~ (Capacity["tpm"] > 0 /\ actual > need)
  <2>1. DOMAIN changed = {}
    BY <1>8
  <2>2. \A d \in DOMAIN changed : Sound(d, changed[d]) /\ changed[d].queue = bucket[d].queue
    BY <2>1
  <2>3. ASSUME NEW d \in Dim, Capacity[d] > 0
        PROVE  /\ Charge(d, c)' \in Int
               /\ Value(Given(changed, d)) = Value(bucket[d]) + Charge(d, c) - Charge(d, c)'
    <3> HIDE DEF need, changed
    <3>1. Charge(d, c) = Need(d, c) /\ Value(bucket[d]) \in Int /\ Need(d, c) \in Nat
      BY <1>1, <1>2, <2>3, LeaseIsCharged, ValueIsWhole, NeedType
    <3>2. Charge(d, c)' = IF d = "rpm" THEN 1 ELSE charged'[c]
      BY <1>1, <1>2 DEF Charge, TypeOK
    <3>3. Charge(d, c)' = Need(d, c)
      <4>1. CASE d = "rpm"
        BY <3>2, <4>1 DEF Need
      <4>2. CASE d = "tpm"
        BY <1>3, <1>5, <1>8, <2>3, <3>2, <4>2 DEF need
      <4> QED
        BY <4>1, <4>2 DEF Dim
    <3>4. Given(changed, d) = bucket[d]
      BY <2>1 DEF Given
    <3> QED
      BY <3>1, <3>3, <3>4
  <2> HIDE DEF changed, need
  <2>4. Finishes(c, changed)
    BY <1>1, <1>2, <1>5, <2>1, <2>2, <2>3 DEF Finishes, TypeOK, Outcome
  <2> QED
    BY <2>4, FinishKeeps
<1> QED
  BY <1>7, <1>8

(* abandon gives everything back; *)
LEMMA AbandonKeeps ==
    ASSUME IInv, NEW c \in Caller, abandon(c)
    PROVE  IInv' /\ InTurn
<1> DEFINE stages == {d \in Dim : HasStage(c, d)}
           changed == Refunds(c, stages)
<1>1. /\ at[c] = "leased" /\ at' = [at EXCEPT ![c] = "abandoned"]
      /\ release /\ Reschedule(changed, [z \in handed |-> "granted"])
      /\ UNCHANGED <<now, deadlineAt, aborted, charged>>
  BY DEF abandon
<1>2. now \in Nat /\ TypeOK /\ BucketsSound
  BY IInvParts
<1>3. DOMAIN changed = stages /\ stages \subseteq Dim
      /\ \A d \in stages : changed[d] = refund(d, bucket[d], Need(d, c))
  BY DEF Refunds
<1>4. ASSUME NEW d \in stages
      PROVE  /\ Sound(d, changed[d]) /\ changed[d].queue = bucket[d].queue
             /\ Value(changed[d]) = Value(bucket[d]) + Need(d, c)
  BY <1>2, <1>3, NeedType, RefundGivesBack DEF BucketsSound
<1>5. ASSUME NEW d \in Dim, Capacity[d] > 0
      PROVE  /\ Charge(d, c)' \in Int
             /\ Value(Given(changed, d)) = Value(bucket[d]) + Charge(d, c) - Charge(d, c)'
  <2> HIDE DEF changed
  <2>1. Need(d, c) \in Nat /\ Value(bucket[d]) \in Int
    BY NeedType, ValueIsWhole
  <2>2. Holds(d, c)
    BY <1>1, OrderOfStages DEF Holds, Dim
  <2>3. Charge(d, c) = IF d \in stages THEN Need(d, c) ELSE 0
    BY <1>1, <2>2 DEF Charge
  <2>4. at'[c] = "abandoned"
    BY <1>1, <1>2 DEF TypeOK
  <2>5. ~ Holds(d, c)'
    BY <2>4, OrderOfStages DEF Holds, Dim
  <2>6. Charge(d, c)' = 0
    BY <2>4, <2>5 DEF Charge
  <2>7. CASE d \in stages
    <3>1. Given(changed, d) = changed[d]
      BY <1>3, <2>7 DEF Given
    <3> QED
      BY <1>4, <2>1, <2>3, <2>6, <2>7, <3>1
  <2>8. CASE d \notin stages
    <3>1. Given(changed, d) = bucket[d]
      BY <1>3, <2>8 DEF Given
    <3> QED
      BY <2>1, <2>3, <2>6, <2>8, <3>1
  <2> QED
    BY <2>7, <2>8
<1> HIDE DEF changed
<1>6. Finishes(c, changed)
  BY <1>1, <1>2, <1>3, <1>4, <1>5 DEF Finishes, TypeOK, Outcome
<1> QED
  BY <1>6, FinishKeeps

-----------------------------------------------------------------------------
(* A bucket is rescheduled, or given a floor first *)

(* The waiters are those that were there, and nobody else is concerned. *)
LEMMA InPlaceKeeps ==
    ASSUME IInv, NEW changed, DOMAIN changed \subseteq Dim, Reschedule(changed, <<>>),
           \A d \in DOMAIN changed : /\ Sound(d, changed[d]) /\ changed[d].queue = bucket[d].queue
                                     /\ Value(changed[d]) = Value(bucket[d]),
           UNCHANGED <<now, used, permitQueue, at, deadlineAt, aborted, charged>>
    PROVE  IInv' /\ InTurn
<1> DEFINE more == <<>>
<1>1. /\ UNCHANGED <<now, used, permitQueue, at, deadlineAt, aborted, charged>>
      /\ Reschedule(changed, more) /\ DOMAIN changed \subseteq Dim
      /\ \A d \in DOMAIN changed : Sound(d, changed[d]) /\ changed[d].queue = bucket[d].queue
  OBVIOUS
<1>2. TypeOK /\ BucketsSound /\ Staged /\ Books
  BY IInvParts
<1>3. /\ \A c : Mid(more, c) = promise[c]
      /\ \A c \in DOMAIN more : more[c] \in Promise
  BY DEF Mid
<1> HIDE DEF more
<1>4. Ready(changed, more)
  BY <1>1, <1>2, <1>3, ReadyInPlace
<1>5. /\ Queued'
      /\ \A c \in Caller : promise'[c] = promise[c] \/ at[c] \in Dim
  BY <1>1, <1>2, <1>3, <1>4, PayingKeepsQueues DEF Staged
<1>6. Permitted'
  BY <1>1, <1>5, PermitsUntouched DEF HasPermit, Dim
<1>7. ASSUME NEW e \in Dim, Capacity[e] > 0
      PROVE  SumOver(Charges(e)', Caller) + Value(bucket'[e]) = Capacity[e]
  <2>1. Value(Given(changed, e)) = Value(bucket[e]) - 0
    <3>1. Value(Given(changed, e)) = Value(bucket[e])
      BY DEF Given
    <3> QED
      BY <3>1, ValueIsWhole
  <2>2. ChargedAlone(changed, more, e, {}, 0)
    BY <1>1, <1>3, <2>1 DEF ChargedAlone
  <2> QED
    BY <1>1, <1>4, <1>7, <2>2, BooksAreKept
<1>8. Books'
  BY <1>7 DEF Books, Value
<1>9. InTurn
  BY <1>1, <1>2, <1>3, <1>4, PayingIsInTurn DEF Staged
<1> QED
  BY <1>1, <1>2, <1>5, <1>6, <1>8, <1>9, IInvFromQueues DEF TypeOK

LEMMA FireKeeps ==
    ASSUME IInv, NEW d \in Dim, fire(d)
    PROVE  IInv' /\ InTurn
<1>1. PICK changed : changed = Becomes(d, bucket[d])
  OBVIOUS
<1>2. Reschedule(changed, <<>>) /\ UNCHANGED <<now, used, permitQueue, at, deadlineAt, aborted, charged>>
  BY <1>1 DEF fire
<1>3. DOMAIN changed = {d} /\ changed[d] = bucket[d]
  BY <1>1 DEF Becomes
<1>4. Sound(d, bucket[d])
  BY IInvParts DEF BucketsSound
<1> QED
  BY <1>2, <1>3, <1>4, InPlaceKeeps

(* A penalty moves the floor, and pays nobody out of turn. *)
LEMMA PenalizeKeeps ==
    ASSUME IInv, NEW c \in Caller, NEW hold \in Nat, penalize(c, hold)
    PROVE  IInv' /\ InTurn
<1> DEFINE floored == {d \in Dim : Capacity[d] > 0 /\ now + hold > bucket[d].penaltyUntil}
<1>1. PICK changed : changed = [d \in floored |-> penalizeBucket(bucket[d], now + hold)]
  OBVIOUS
<1>2. Reschedule(changed, <<>>) /\ UNCHANGED <<now, used, permitQueue, at, deadlineAt, aborted, charged>>
  BY <1>1 DEF penalize
<1>3. /\ DOMAIN changed \subseteq Dim
      /\ \A d \in DOMAIN changed : changed[d] = penalizeBucket(bucket[d], now + hold)
  BY <1>1
<1>4. BucketsSound /\ now \in Nat /\ now + hold \in Nat
  BY IInvParts
<1>5. ASSUME NEW d \in DOMAIN changed
      PROVE  /\ Sound(d, changed[d]) /\ changed[d].queue = bucket[d].queue
             /\ Value(changed[d]) = Value(bucket[d])
  <2>1. d \in Dim /\ Sound(d, bucket[d]) /\ bucket[d].queue \in Seq(Caller)
    BY <1>3, <1>4 DEF BucketsSound, Sound, Bucket
  <2>2. PICK until \in Nat : until = now + hold /\ changed[d] = penalizeBucket(bucket[d], until)
    BY <1>3, <1>4
  <2>3. PICK b : b = bucket[d] /\ Sound(d, b)
    BY <2>1
  <2>4. LET r == penalizeBucket(b, until) IN Sound(d, r) /\ Value(r) = Value(b) /\ r.queue = b.queue
    BY <1>4, <2>1, <2>3, PenaltyKeepsBooks
  <2> QED
    BY <2>2, <2>3, <2>4
<1> QED
  BY <1>2, <1>3, <1>5, InPlaceKeeps

-----------------------------------------------------------------------------
(* A waiter gives up *)

(* A step that leaves the buckets, and what everybody is charged, alone. *)
LEMMA BooksUntouched ==
    ASSUME IInv, bucket' = bucket, \A d \in Dim : \A c \in Caller : Charge(d, c)' = Charge(d, c)
    PROVE  Books'
<1>1. Books
  BY IInvParts
<1>2. \A d \in Dim : Charges(d)' = Charges(d)
  BY DEF Charges
<1> QED
  BY <1>1, <1>2 DEF Books

LEMMA QueuedUntouched ==
    ASSUME IInv, bucket' = bucket, now' = now, promise' \in [Caller -> Promise],
           \A c \in Caller : /\ at'[c] \in Stage <=> promise'[c] # "none"
                             /\ at'[c] \in Stage => HasStage(c, at'[c]),
           \A c \in Caller, d \in Dim :
               at'[c] = d /\ promise'[c] = "waiting" <=> at[c] = d /\ promise[c] = "waiting"
    PROVE  Queued'
<1>1. Queued
  BY IInvQueues
<1>2. BucketsSound' /\ HeadHasTimer'
  BY <1>1 DEF Queued, BucketsSound, Sound, HeadHasTimer
<1>3. Staged'
  BY DEF Staged
<1>4. ASSUME NEW d \in Dim PROVE Line(d)'
  BY <1>1, <1>4 DEF Queued, Line, Queue, Dim
<1> QED
  BY <1>1, <1>2, <1>3, <1>4 DEF Queued

(* A waiter leaves its queue, and whoever its head can now pay is paid. *)
LEMMA GiveUpKeeps ==
    ASSUME IInv, NEW c \in Caller, giveUp(c), UNCHANGED <<now, at, deadlineAt, charged>>,
           aborted' \in [Caller -> BOOLEAN]
    PROVE  IInv' /\ InTurn
<1>1. /\ now \in Nat /\ TypeOK /\ BucketsSound /\ Staged /\ promise \in [Caller -> Promise]
      /\ Permitted /\ Queued /\ used' = used /\ promise[c] = "waiting"
  BY IInvParts, IInvQueues DEF giveUp
<1>2. CASE at[c] \in Dim
  <2> DEFINE f == at[c]
             q == bucket[f].queue
             changed == Becomes(f, remove(bucket[f], c))
             more == Becomes(c, "failed")
  <2>1. f \in Dim /\ f # "permit" /\ permitQueue' = permitQueue /\ Reschedule(changed, more)
    BY <1>2 DEF giveUp, Dim
  <2>2. /\ DOMAIN changed = {f} /\ changed[f] = remove(bucket[f], c)
        /\ DOMAIN more = {c} /\ more[c] = "failed"
    BY DEF Becomes
  <2>3. \A e \in Caller : Mid(more, e) = IF e = c THEN "failed" ELSE promise[e]
    BY <2>2 DEF Mid
  <2>4. q \in Seq(Caller) /\ Sound(f, bucket[f])
    BY <1>1, <2>1 DEF BucketsSound, Sound, Bucket
  <2>5. \A d \in Dim : /\ Range(bucket[d].queue) = {e \in Caller : at[e] = d /\ promise[e] = "waiting"}
                       /\ IsInjective(bucket[d].queue)
    BY <1>1 DEF Queued, Line, Queue, Dim
  <2>6. c \in Range(q)
    BY <1>1, <2>1, <2>5
  <2>7. PICK r : r = splice(q, c)
    OBVIOUS
  <2>8. /\ r \in Seq(Caller) /\ IsInjective(r) /\ Range(r) = Range(q) \ {c}
        /\ \A x, y : Before(r, x, y) => Before(q, x, y)
    BY <2>1, <2>4, <2>5, <2>6, <2>7, SpliceQueue
  <2>9. changed[f] = [bucket[f] EXCEPT !.queue = r]
    BY <2>2, <2>4, <2>7 DEF remove, Sound, Bucket
  <2> HIDE DEF changed, more
  <2>10. Sound(f, changed[f]) /\ Value(changed[f]) = Value(bucket[f]) /\ changed[f].queue = r
    BY <1>1, <2>1, <2>4, <2>8, <2>9, QueueKeepsBooks
  <2>11. \A d \in Dim : Given(changed, d).queue = IF d = f THEN r ELSE bucket[d].queue
    BY <2>2, <2>10 DEF Given
  <2>12. \A d \in Dim : Value(Given(changed, d)) = Value(bucket[d])
    BY <2>2, <2>10 DEF Given
  <2>13. Ready(changed, more)
    <3>1. \A e \in DOMAIN more : more[e] \in Promise
      BY <2>2 DEF Promise
    <3>2. ASSUME NEW d \in Dim
          PROVE  /\ IsInjective(Given(changed, d).queue)
                 /\ Range(Given(changed, d).queue) = {e \in Caller : at'[e] = d /\ Mid(more, e) = "waiting"}
                 /\ \A x, y : Before(Given(changed, d).queue, x, y) /\ y \in Range(bucket[d].queue)
                                 => Before(bucket[d].queue, x, y)
      <4>1. CASE d = f
        <5>1. Range(r) = {e \in Caller : at'[e] = f /\ Mid(more, e) = "waiting"}
          BY <2>1, <2>3, <2>5, <2>8
        <5> QED
          BY <2>8, <2>11, <4>1, <5>1
      <4>2. CASE d # f
        <5>1. Given(changed, d).queue = bucket[d].queue
          BY <2>11, <4>2
        <5>2. {e \in Caller : at'[e] = d /\ Mid(more, e) = "waiting"}
                 = {e \in Caller : at[e] = d /\ promise[e] = "waiting"}
          BY <2>3, <4>2
        <5> QED
          BY <2>5, <5>1, <5>2
      <4> QED
        BY <4>1, <4>2
    <3> QED
      BY <2>1, <2>2, <2>10, <3>1, <3>2 DEF Ready
  <2>14. \A e \in Caller : /\ at'[e] \in Stage <=> Mid(more, e) # "none"
                           /\ at'[e] \in Stage => HasStage(e, at'[e])
    BY <1>1, <2>1, <2>3 DEF Staged, Stage
  <2>15. /\ Queued'
         /\ \A e \in Caller : \/ promise'[e] = Mid(more, e)
                              \/ at'[e] \in Dim /\ Mid(more, e) = "waiting" /\ promise'[e] = "granted"
    BY <2>1, <2>13, <2>14, PayingKeepsQueues
  <2>16. Permitted'
    <3>1. \A e \in Caller : /\ HasPermit(e)' <=> HasPermit(e)
                            /\ at'[e] = "permit" /\ promise'[e] = "waiting"
                                   <=> at[e] = "permit" /\ promise[e] = "waiting"
      BY <2>1, <2>3, <2>15 DEF HasPermit, Dim
    <3> QED
      BY <1>1, <2>1, <3>1, PermitsUntouched
  <2>17. ASSUME NEW d \in Dim, Capacity[d] > 0
         PROVE  SumOver(Charges(d)', Caller) + Value(bucket'[d]) = Capacity[d]
    <3>1. Value(bucket[d]) \in Int /\ Charge(d, c) \in Int
      BY <1>1, ValueIsWhole, ChargeType
    <3>2. c \notin PaidOf(changed, d)
      BY <1>1, <2>1, <2>3, <2>13, RescheduleGrants
    <3>3. promise'[c] = "failed"
      BY <2>3, <2>15
    <3>4. Charge(d, c)' = Charge(d, c)
      BY <1>1, <3>3 DEF Charge, Holds
    <3>5. ChargedAlone(changed, more, d, {c}, 0)
      BY <2>3, <2>12, <3>1, <3>2, <3>4 DEF ChargedAlone
    <3> QED
      BY <2>1, <2>13, <2>17, <3>5, BooksAreKept
  <2>18. Books'
    BY <2>17 DEF Books, Value
  <2>19. InTurn
    <3>1. \A e \in Caller : at'[e] \in Stage /\ Mid(more, e) = "granted" =>
              at[e] = at'[e] /\ promise[e] = "granted"
      BY <2>3
    <3> QED
      BY <2>1, <2>13, <2>14, <3>1, PayingIsInTurn
  <2> QED
    BY <1>1, <2>15, <2>16, <2>18, <2>19, IInvFromQueues DEF TypeOK
<1>3. CASE at[c] \notin Dim
  <2>1. /\ at[c] = "permit" /\ permitQueue' = splice(permitQueue, c)
        /\ promise' = [promise EXCEPT ![c] = "failed"] /\ bucket' = bucket
    BY <1>3 DEF giveUp
  <2>2. promise' \in [Caller -> Promise] /\ promise'[c] = "failed"
        /\ \A e \in Caller \ {c} : promise'[e] = promise[e]
    BY <1>1, <2>1 DEF Promise
  <2>3. Queued'
    <3>1. \A e \in Caller : /\ at'[e] \in Stage <=> promise'[e] # "none"
                            /\ at'[e] \in Stage => HasStage(e, at'[e])
      BY <1>1, <2>1, <2>2 DEF Staged, Stage
    <3>2. \A e \in Caller, d \in Dim :
               at'[e] = d /\ promise'[e] = "waiting" <=> at[e] = d /\ promise[e] = "waiting"
      BY <2>1, <2>2 DEF Dim
    <3> QED
      BY <2>1, <2>2, <3>1, <3>2, QueuedUntouched
  <2>4. Books'
    <3>1. \A d \in Dim : \A e \in Caller : Charge(d, e)' = Charge(d, e)
      BY <1>1, <2>1, <2>2 DEF Charge, Holds, Dim
    <3> QED
      BY <2>1, <3>1, BooksUntouched
  <2>5. /\ permitQueue \in Seq(Caller) /\ IsInjective(permitQueue)
        /\ Range(permitQueue) = {e \in Caller : at[e] = "permit" /\ promise[e] = "waiting"}
    BY <1>1 DEF Permitted, Line, Queue
  <2>6. /\ permitQueue' \in Seq(Caller) /\ IsInjective(permitQueue')
        /\ Range(permitQueue') = Range(permitQueue) \ {c}
    <3>1. c \in Range(permitQueue)
      BY <1>1, <2>1, <2>5
    <3>2. PICK q : q = permitQueue
      OBVIOUS
    <3> QED
      BY <2>1, <2>5, <3>1, <3>2, SpliceQueue
  <2>7. Line("permit")'
    BY <2>1, <2>2, <2>5, <2>6 DEF Line, Queue
  <2>8. Pool'
    <3>1. \A e \in Caller : HasPermit(e)' <=> HasPermit(e)
      BY <1>1, <2>1, <2>2 DEF HasPermit
    <3>2. {e \in Caller : HasPermit(e)}' = {e \in Caller : HasPermit(e)}
      BY <3>1
    <3> QED
      BY <1>1, <3>2 DEF Permitted, Pool
  <2>9. FullPool'
    <3>1. permitQueue # <<>>
      <4>1. c \in Range(permitQueue)
        BY <1>1, <2>1, <2>5
      <4> QED
        BY <4>1 DEF Range
    <3> QED
      BY <1>1, <3>1 DEF Permitted, FullPool
  <2>10. Permitted'
    BY <1>1, <2>6, <2>7, <2>8, <2>9 DEF Permitted
  <2>11. InTurn
    BY <2>2, NobodyServed
  <2> QED
    BY <1>1, <2>3, <2>4, <2>10, <2>11, IInvFromQueues DEF TypeOK
<1> QED
  BY <1>2, <1>3

LEMMA DeadlineKeeps ==
    ASSUME IInv, NEW c \in Caller, deadline(c)
    PROVE  IInv' /\ InTurn
<1>1. giveUp(c) /\ UNCHANGED <<now, at, deadlineAt, charged>> /\ aborted' = aborted
  BY DEF deadline
<1>2. aborted' \in [Caller -> BOOLEAN]
  BY <1>1, IInvParts DEF TypeOK
<1> QED
  BY <1>1, <1>2, GiveUpKeeps

LEMMA AbortKeeps ==
    ASSUME IInv, NEW c \in Caller, abort(c)
    PROVE  IInv' /\ InTurn
<1>1. TypeOK /\ Staged /\ promise \in [Caller -> Promise]
  BY IInvParts
<1>2. UNCHANGED <<now, at, deadlineAt, charged>> /\ aborted' \in [Caller -> BOOLEAN]
  BY <1>1 DEF abort, TypeOK
<1>3. CASE giveUp(c)
  BY <1>2, <1>3, GiveUpKeeps
<1>4. CASE UNCHANGED <<bucket, promise, used, permitQueue>>
  <2>1. Permitted'
    BY <1>2, <1>4, PermitsUntouched DEF HasPermit
  <2>2. Queued'
    BY <1>1, <1>2, <1>4, QueuedUntouched DEF Staged
  <2>3. Books'
    BY <1>2, <1>4, BooksUntouched DEF Charge, Holds
  <2>4. InTurn
    BY <1>2, <1>4, NobodyServed
  <2> QED
    BY <1>1, <1>2, <2>1, <2>2, <2>3, <2>4, IInvFromQueues DEF TypeOK
<1> QED
  BY <1>3, <1>4 DEF abort

-----------------------------------------------------------------------------
(* One bucket without a queue to pay *)

(* A refill leaves the timer early enough. *)
LEMMA RefillKeepsTimer ==
    ASSUME now \in Nat, NEW d \in Dim, NEW b, Sound(d, b), HeadTimed(d, b)
    PROVE  HeadTimed(d, refill(d, b))
<1>1. SUFFICES ASSUME b.queue # <<>>
               PROVE  HeadTimed(d, refill(d, b))
  BY RefillKeepsBooks DEF HeadTimed
<1>2. PICK r : r = refill(d, b)
  OBVIOUS
<1>3. /\ Sound(d, r) /\ r.tokens <= b.tokens + (now - b.lastRefillAt) /\ r.lastRefillAt = now
      /\ r.queue = b.queue /\ r.penaltyUntil = b.penaltyUntil /\ r.timer = b.timer
  BY <1>2, RefillKeepsBooks
<1>4. PICK need, had, has, last, until, timer :
          /\ need = Need(d, Head(b.queue)) /\ had = b.tokens /\ has = r.tokens
          /\ last = b.lastRefillAt /\ until = b.penaltyUntil /\ timer = b.timer
  OBVIOUS
<1>5. Head(b.queue) \in Caller
  BY <1>1 DEF Sound, Bucket
<1>6. need \in Int /\ had \in Int /\ has \in Int /\ last \in Int /\ until \in Int /\ now \in Int
  <2>1. had \in Int /\ last \in Int /\ until \in Int /\ now \in Int
    BY <1>4 DEF Sound, Bucket
  <2>2. has \in Int
    BY <1>3, <1>4 DEF Sound, Bucket
  <2>3. need \in Int
    BY <1>4, <1>5, NeedType
  <2> QED
    BY <2>1, <2>2, <2>3
<1>7. timer # NoTimer /\ timer \in Nat
      /\ timer <= Max({until, last + (need - had), last})
  BY <1>1, <1>4 DEF HeadTimed, Sound, Bucket
<1>8. has <= had + (now - last) /\ last <= now
  BY <1>3, <1>4 DEF Sound
<1>9. PICK x, y : x = last + (need - had) /\ y = now + (need - has)
  OBVIOUS
<1>10. x \in Int /\ y \in Int /\ x <= y
  BY <1>6, <1>8, <1>9
<1>11. Max({until, x, last}) \in {until, x, last}
  BY <1>6, <1>10, MaxOfThree
<1>12. Max({until, y, now}) >= until /\ Max({until, y, now}) >= y /\ Max({until, y, now}) >= now
       /\ Max({until, y, now}) \in {until, y, now}
  BY <1>6, <1>10, MaxOfThree
<1>13. timer <= Max({until, y, now})
  BY <1>6, <1>7, <1>8, <1>9, <1>10, <1>11, <1>12
<1> QED
  BY <1>2, <1>3, <1>4, <1>7, <1>9, <1>13 DEF HeadTimed

(* One caller moves and one bucket changes, but no queue does. *)
LEMMA QueuedInPlace ==
    ASSUME IInv, NEW d \in Dim, NEW r, bucket' = [bucket EXCEPT ![d] = r], now' = now,
           Sound(d, r), HeadTimed(d, r), r.queue = bucket[d].queue,
           promise' \in [Caller -> Promise],
           \A c \in Caller : /\ at'[c] \in Stage <=> promise'[c] # "none"
                             /\ at'[c] \in Stage => HasStage(c, at'[c]),
           \A c \in Caller, e \in Dim :
               at'[c] = e /\ promise'[c] = "waiting" <=> at[c] = e /\ promise[c] = "waiting"
    PROVE  Queued'
<1>1. Queued
  BY IInvQueues
<1>2. bucket'[d] = r /\ \A e \in Dim \ {d} : bucket'[e] = bucket[e]
  BY <1>1 DEF Queued
<1>3. bucket' \in [Dim -> Bucket]
  BY <1>1 DEF Queued, Sound
<1>4. BucketsSound'
  BY <1>1, <1>2 DEF Queued, BucketsSound, Sound
<1>5. HeadHasTimer'
  <2>1. \A e \in Dim : HeadTimed(e, bucket'[e])
    BY <1>1, <1>2 DEF Queued, HeadHasTimer, HeadTimed
  <2> QED
    BY <2>1 DEF HeadHasTimer, HeadTimed
<1>6. Staged'
  BY DEF Staged
<1>7. ASSUME NEW e \in Dim PROVE Line(e)'
  <2>1. bucket'[e].queue = bucket[e].queue
    BY <1>2
  <2> QED
    BY <1>1, <1>7, <2>1 DEF Queued, Line, Queue, Dim
<1> QED
  BY <1>3, <1>4, <1>5, <1>6, <1>7 DEF Queued

(* One caller is charged what one bucket loses. *)
LEMMA BooksOfOne ==
    ASSUME IInv, NEW c \in Caller, NEW d \in Dim, Capacity[d] > 0, NEW k \in Int,
           Charge(d, c)' = Charge(d, c) + k,
           \A e \in Caller \ {c} : Charge(d, e)' = Charge(d, e),
           Value(bucket'[d]) = Value(bucket[d]) - k
    PROVE  SumOver(Charges(d)', Caller) + Value(bucket'[d]) = Capacity[d]
<1>1. TypeOK /\ Books /\ IsFiniteSet(Caller)
  BY IInvParts, CallerAssumption
<1>2. /\ \A e \in Caller : Charge(d, e) \in Int /\ Charges(d)[e] = Charge(d, e)
      /\ SumOver(Charges(d), Caller) \in Int
  BY <1>1, ChargeType
<1>3. \A e \in Caller : Charges(d)'[e] = Charge(d, e)'
  BY DEF Charges
<1>4. PICK h, m : h = Charges(d) /\ m = Charges(d)'
  OBVIOUS
<1>5. DifferAt(h, m, c, Caller)
  BY <1>1, <1>2, <1>3, <1>4 DEF DifferAt
<1>6. SumOver(m, Caller) = SumOver(h, Caller) + m[c] - h[c]
  BY ONLY <1>5, SumChange
<1>7. m[c] = h[c] + k /\ h[c] \in Int
  BY <1>2, <1>3, <1>4
<1>8. SumOver(h, Caller) + Value(bucket[d]) = Capacity[d] /\ Value(bucket[d]) \in Int
  BY <1>1, <1>4, ValueIsWhole DEF Books
<1> QED
  BY <1>2, <1>4, <1>6, <1>7, <1>8

-----------------------------------------------------------------------------
(* The start of a stage *)

Starts(c, next) ==
    /\ at[c] \in {"idle"} \cup Stage
    /\ at[c] \in Stage => promise[c] = "granted"
    /\ Follows(c, at[c], next)
    /\ Begin(c, next)
    /\ deadlineAt' \in [Caller -> Nat]
    /\ UNCHANGED <<now, aborted, charged>>

LEMMA StartsAt ==
    ASSUME IInv, NEW c \in Caller, NEW next, Starts(c, next)
    PROVE  /\ at'[c] = next /\ \A e \in Caller \ {c} : at'[e] = at[e]
           /\ at' \in [Caller -> {"idle"} \cup Stage \cup Outcome]
           /\ next \in Stage \cup {"leased"} /\ next # at[c] /\ HasStage(c, next)
           /\ next \in Stage => at[c] # "permit"
           /\ next = "leased" /\ Permits > 0 => at[c] = "permit"
           /\ promise[c] # "waiting" /\ at[c] # "leased"
<1>1. TypeOK /\ Staged
  BY IInvParts
<1>2. at' = [at EXCEPT ![c] = next]
  BY DEF Starts, Begin
<1>3. /\ next \in Stage \cup {"leased"} /\ next # at[c] /\ HasStage(c, next)
      /\ Passed(at[c], next)
  <2>1. PICK st : st = at[c]
    OBVIOUS
  <2>2. st \in {"idle"} \cup Stage /\ Follows(c, st, next)
    BY <2>1 DEF Starts
  <2>3. Passed(st, next)
    BY <2>2 DEF Follows
  <2> QED
    BY <2>1, <2>2, <2>3, FollowsStages
<1>4. at'[c] = next /\ \A e \in Caller \ {c} : at'[e] = at[e]
  BY <1>1, <1>2 DEF TypeOK
<1>5. at' \in [Caller -> {"idle"} \cup Stage \cup Outcome]
  BY <1>1, <1>2, <1>3 DEF TypeOK, Outcome
<1>6. next \in Stage => at[c] # "permit"
  BY <1>3, OrderOfStages DEF Stage, Dim
<1>7. ASSUME next = "leased", Permits > 0 PROVE at[c] = "permit"
  <2>1. HasStage(c, "permit") /\ "permit" \in Range(Order)
    BY <1>7, OrderOfStages DEF HasStage
  <2>2. ~ (Passed(at[c], "permit") /\ Passed("permit", "leased"))
    BY <1>7, <2>1 DEF Starts, Follows
  <2>3. at[c] \in {"idle", "rpm", "tpm", "permit"}
    BY DEF Starts, Stage, Dim
  <2> QED
    BY <2>2, <2>3, OrderOfStages
<1>8. promise[c] # "waiting" /\ at[c] # "leased"
  BY <1>1 DEF Starts, Staged, Stage, Dim
<1> QED
  BY <1>3, <1>4, <1>5, <1>6, <1>7, <1>8

(* c is charged for the stage it has reached when it is granted at once. *)
LEMMA StartIsCharged ==
    ASSUME IInv, NEW c \in Caller, NEW next, Starts(c, next), NEW d \in Dim
    PROVE  Charge(d, c)' = Charge(d, c) + IF d = next /\ promise'[c] = "granted" THEN Need(d, c) ELSE 0
<1>1. /\ at'[c] = next /\ next \in Stage \cup {"leased"} /\ HasStage(c, next)
  BY StartsAt
<1>2. PICK st : st = at[c]
  OBVIOUS
<1>3. /\ next \in Dim => ~ Passed(next, st)
      /\ HasStage(c, d) => (Passed(d, next) <=> Passed(d, st) \/ d = st)
      /\ next # st
  <2>1. st \in {"idle"} \cup Stage /\ Follows(c, st, next)
    BY <1>2 DEF Starts
  <2> QED
    BY <2>1, FollowsStages
<1>4. Need(d, c) \in Nat
  BY NeedType
<1>5. HasStage(c, d) => (Holds(d, c) <=> Passed(d, next))
  BY <1>2, <1>3 DEF Holds, Starts, Dim, Stage
<1>6. Holds(d, c)' <=> Passed(d, next) \/ (next = d /\ promise'[c] = "granted")
  BY <1>1 DEF Holds
<1>7. ~ Passed(d, d)
  BY OrderOfStages DEF Dim
<1>8. Charge(d, c) = IF HasStage(c, d) /\ Passed(d, next) THEN Need(d, c) ELSE 0
  BY <1>5 DEF Charge, Starts, Stage, Dim
<1>9. Charge(d, c)' = IF HasStage(c, d) /\ (Passed(d, next) \/ (next = d /\ promise'[c] = "granted"))
                      THEN Need(d, c) ELSE 0
  BY <1>1, <1>6 DEF Charge, Stage, Dim
<1> QED
  BY <1>1, <1>4, <1>7, <1>8, <1>9

(* A take is refused, paid at once, or queued. *)
LEMMA TakeKeeps ==
    ASSUME IInv, NEW c \in Caller, NEW d \in Dim, Starts(c, d), take(c, d)
    PROVE  IInv' /\ InTurn
<1> DEFINE b == refill(d, bucket[d])
           payable == b.tokens >= Need(d, c) /\ now >= b.penaltyUntil /\ b.queue = <<>>
<1>1. /\ now \in Nat /\ TypeOK /\ BucketsSound /\ Staged /\ promise \in [Caller -> Promise]
      /\ Permitted /\ Queued /\ UNCHANGED <<now, aborted, charged, used, permitQueue>>
      /\ deadlineAt' \in [Caller -> Nat]
  BY IInvParts, IInvQueues DEF Starts, take
<1>2. /\ at'[c] = d /\ at' \in [Caller -> {"idle"} \cup Stage \cup Outcome]
      /\ \A e \in Caller \ {c} : at'[e] = at[e]
      /\ d # at[c] /\ HasStage(c, d) /\ promise[c] # "waiting" /\ d \in Stage /\ d # "permit"
      /\ at[c] # "permit" /\ at[c] # "leased"
  BY StartsAt DEF Stage, Dim
<1>3. Need(d, c) \in Nat /\ bucket[d].queue \in Seq(Caller) /\ Sound(d, bucket[d])
  BY <1>1, NeedType DEF BucketsSound, Sound, Bucket
<1>4. /\ Sound(d, b) /\ Value(b) = Value(bucket[d]) /\ b.queue = bucket[d].queue
      /\ HeadTimed(d, b)
  <2>1. HeadTimed(d, bucket[d])
    BY <1>1 DEF Queued, HeadHasTimer, HeadTimed
  <2> QED
    BY <1>1, <1>3, <2>1, RefillKeepsBooks, RefillKeepsTimer
\* A step that sets c's promise to p, and nobody else's.
<1>6. ASSUME NEW p \in {"granted", "failed"}, promise' = [promise EXCEPT ![c] = p],
             NEW r, Sound(d, r), HeadTimed(d, r), r.queue = bucket[d].queue,
             bucket' = [bucket EXCEPT ![d] = r],
             Value(r) = Value(bucket[d]) - IF p = "granted" THEN Need(d, c) ELSE 0,
             p = "granted" => bucket[d].queue = <<>>
      PROVE  IInv' /\ InTurn
  <2>1. /\ promise' \in [Caller -> Promise] /\ promise'[c] = p
        /\ \A e \in Caller \ {c} : promise'[e] = promise[e]
    BY <1>1, <1>6 DEF Promise
  <2>2. Permitted'
    <3>1. \A e \in Caller : /\ HasPermit(e)' <=> HasPermit(e)
                            /\ at'[e] = "permit" /\ promise'[e] = "waiting"
                                   <=> at[e] = "permit" /\ promise[e] = "waiting"
      BY <1>2, <2>1 DEF HasPermit, Dim
    <3> QED
      BY <1>1, <3>1, PermitsUntouched
  <2>3. Queued'
    <3>1. \A e \in Caller : /\ at'[e] \in Stage <=> promise'[e] # "none"
                            /\ at'[e] \in Stage => HasStage(e, at'[e])
      BY <1>1, <1>2, <1>6, <2>1 DEF Staged
    <3>2. \A e \in Caller, f \in Dim :
               at'[e] = f /\ promise'[e] = "waiting" <=> at[e] = f /\ promise[e] = "waiting"
      BY <1>2, <1>6, <2>1
    <3> QED
      BY <1>1, <1>6, <2>1, <3>1, <3>2, QueuedInPlace
  <2>4. ASSUME NEW f \in Dim, Capacity[f] > 0
        PROVE  SumOver(Charges(f)', Caller) + Value(bucket'[f]) = Capacity[f]
    <3>1. PICK k : k = IF f = d /\ p = "granted" THEN Need(d, c) ELSE 0
      OBVIOUS
    <3>2. k \in Int /\ Value(bucket[f]) \in Int
      BY <1>3, <3>1, ValueIsWhole
    <3>3. Charge(f, c)' = Charge(f, c) + k
      BY <2>1, <3>1, StartIsCharged
    <3>4. \A e \in Caller \ {c} : Charge(f, e)' = Charge(f, e)
      BY <1>1, <1>2, <2>1 DEF Charge, Holds
    <3>5. Value(bucket'[f]) = Value(bucket[f]) - k
      <4>1. bucket'[f] = IF f = d THEN r ELSE bucket[f]
        BY <1>1, <1>6 DEF TypeOK
      <4>2. CASE f = d
        BY <1>6, <3>1, <4>1, <4>2
      <4>3. CASE f # d
        BY <3>1, <3>2, <4>1, <4>3
      <4> QED
        BY <4>2, <4>3
    <3> QED
      BY <2>4, <3>2, <3>3, <3>4, <3>5, BooksOfOne
  <2>5. Books'
    BY <2>4 DEF Books, Value
  <2>6. InTurn
    <3>1. p = "granted" => Range(Queue(d)) = {}
      BY <1>2, <1>6 DEF Queue, Range
    <3>2. \A e \in Caller, st \in Stage :
              at'[e] = st /\ promise'[e] = "granted" /\ ~(at[e] = st /\ promise[e] = "granted")
                  => e = c /\ st = d /\ p = "granted"
      BY <1>2, <2>1
    <3> QED
      BY <3>1, <3>2 DEF InTurn
  <2> QED
    BY <1>1, <1>2, <2>2, <2>3, <2>5, <2>6, IInvFromQueues DEF TypeOK
<1>7. CASE aborted[c]
  <2>1. promise' = [promise EXCEPT ![c] = "failed"] /\ bucket' = [bucket EXCEPT ![d] = bucket[d]]
    BY <1>1, <1>7 DEF take, TypeOK
  <2>2. HeadTimed(d, bucket[d]) /\ Value(bucket[d]) = Value(bucket[d]) - 0
    BY <1>1, ValueIsWhole DEF Queued, HeadHasTimer, HeadTimed
  <2> QED
    BY <1>3, <1>6, <2>1, <2>2
<1>8. CASE ~ aborted[c] /\ payable
  <2>1. PICK r : r = forceTake(d, bucket[d], Need(d, c))
    OBVIOUS
  <2>2. promise' = [promise EXCEPT ![c] = "granted"] /\ bucket' = [bucket EXCEPT ![d] = r]
    BY <1>8, <2>1 DEF take, forceTake
  <2>3. Sound(d, r) /\ Value(r) = Value(bucket[d]) - Need(d, c) /\ r.queue = bucket[d].queue
    BY <1>1, <1>3, <2>1, ForceTakeCharges
  <2>4. r.queue = <<>>
    BY <1>4, <1>8, <2>3
  <2>5. HeadTimed(d, r)
    BY <2>4 DEF HeadTimed
  <2> QED
    BY <1>6, <2>2, <2>3, <2>4, <2>5
<1>9. CASE ~ aborted[c] /\ ~ payable /\ Len(b.queue) >= MaxQueued[d]
  <2>1. promise' = [promise EXCEPT ![c] = "failed"] /\ bucket' = [bucket EXCEPT ![d] = b]
    BY <1>3, <1>4, <1>9, LimitsAssumption DEF take, Dim
  <2>2. Value(b) = Value(bucket[d]) - 0
    BY <1>4, ValueIsWhole
  <2> HIDE DEF b
  <2> QED
    BY <1>4, <1>6, <2>1, <2>2
<1>10. CASE ~ aborted[c] /\ ~ payable /\ Len(b.queue) < MaxQueued[d]
  <2> DEFINE more == Becomes(c, "waiting")
             q == Append(bucket[d].queue, c)
             changed == Becomes(d, [b EXCEPT !.queue = Append(@, c)])
  <2>1. Reschedule(changed, more)
    BY <1>3, <1>4, <1>10, LimitsAssumption DEF take, Dim
  <2>2. \A f \in Dim : /\ Range(bucket[f].queue) = {e \in Caller : at[e] = f /\ promise[e] = "waiting"}
                       /\ IsInjective(bucket[f].queue)
    BY <1>1 DEF Queued, Line, Queue, Dim
  <2>3. c \notin Range(bucket[d].queue)
    BY <1>2, <2>2
  <2>4. PICK r : r = q
    OBVIOUS
  <2>5. /\ r \in Seq(Caller) /\ IsInjective(r) /\ Range(r) = Range(bucket[d].queue) \cup {c}
        /\ \A x, y : Before(r, x, y) /\ y \in Range(bucket[d].queue) => Before(bucket[d].queue, x, y)
    BY <1>3, <2>2, <2>3, <2>4, AppendQueue
  <2>6. /\ DOMAIN changed = {d} /\ changed[d] = [b EXCEPT !.queue = r]
        /\ DOMAIN more = {c} /\ more[c] = "waiting"
    BY <1>4, <2>4 DEF Becomes, Sound, Bucket
  <2>7. \A e \in Caller : Mid(more, e) = IF e = c THEN "waiting" ELSE promise[e]
    BY <2>6 DEF Mid
  <2> HIDE DEF changed, more, q, b
  <2>8. Sound(d, changed[d]) /\ Value(changed[d]) = Value(bucket[d]) /\ changed[d].queue = r
    BY <1>1, <1>4, <2>5, <2>6, QueueKeepsBooks
  <2>9. \A f \in Dim : Given(changed, f).queue = IF f = d THEN r ELSE bucket[f].queue
    BY <2>6, <2>8 DEF Given
  <2>10. \A f \in Dim : Value(Given(changed, f)) = Value(bucket[f])
    BY <2>6, <2>8 DEF Given
  <2>11. Ready(changed, more)
    <3>1. \A e \in DOMAIN more : more[e] \in Promise
      BY <2>6 DEF Promise
    <3>2. ASSUME NEW f \in Dim
          PROVE  /\ IsInjective(Given(changed, f).queue)
                 /\ Range(Given(changed, f).queue) = {e \in Caller : at'[e] = f /\ Mid(more, e) = "waiting"}
                 /\ \A x, y : Before(Given(changed, f).queue, x, y) /\ y \in Range(bucket[f].queue)
                                 => Before(bucket[f].queue, x, y)
      <4>1. CASE f = d
        <5>1. Range(r) = {e \in Caller : at'[e] = d /\ Mid(more, e) = "waiting"}
          BY <1>2, <2>2, <2>5, <2>7
        <5> QED
          BY <2>5, <2>9, <4>1, <5>1
      <4>2. CASE f # d
        <5>1. Given(changed, f).queue = bucket[f].queue
          BY <2>9, <4>2
        <5>2. {e \in Caller : at'[e] = f /\ Mid(more, e) = "waiting"}
                 = {e \in Caller : at[e] = f /\ promise[e] = "waiting"}
          BY <1>2, <2>7, <4>2
        <5> QED
          BY <2>2, <5>1, <5>2
      <4> QED
        BY <4>1, <4>2
    <3> QED
      BY <2>6, <2>8, <3>1, <3>2 DEF Ready
  <2>12. \A e \in Caller : /\ at'[e] \in Stage <=> Mid(more, e) # "none"
                           /\ at'[e] \in Stage => HasStage(e, at'[e])
    BY <1>1, <1>2, <2>7 DEF Staged
  <2>13. /\ Queued'
         /\ \A e \in Caller : \/ promise'[e] = Mid(more, e)
                              \/ at'[e] \in Dim /\ Mid(more, e) = "waiting" /\ promise'[e] = "granted"
    BY <1>1, <2>1, <2>11, <2>12, PayingKeepsQueues
  <2>14. Permitted'
    <3>1. \A e \in Caller : /\ HasPermit(e)' <=> HasPermit(e)
                            /\ at'[e] = "permit" /\ promise'[e] = "waiting"
                                   <=> at[e] = "permit" /\ promise[e] = "waiting"
      BY <1>2, <2>7, <2>13 DEF HasPermit, Dim
    <3> QED
      BY <1>1, <3>1, PermitsUntouched
  <2>15. ASSUME NEW f \in Dim, Capacity[f] > 0
         PROVE  SumOver(Charges(f)', Caller) + Value(bucket'[f]) = Capacity[f]
    <3>1. Value(bucket[f]) \in Int /\ Charge(f, c) \in Int
      BY <1>1, ValueIsWhole, ChargeType
    <3>2. c \in PaidOf(changed, f) <=> f = d /\ promise'[c] = "granted"
      BY <1>1, <1>2, <2>1, <2>7, <2>11, RescheduleGrants
    <3>3. Charge(f, c)' = Charge(f, c) + 0 + IF c \in PaidOf(changed, f) THEN Need(f, c) ELSE 0
      BY <3>1, <3>2, StartIsCharged
    <3>4. ChargedAlone(changed, more, f, {c}, 0)
      BY <1>1, <1>2, <2>7, <2>10, <3>1, <3>3 DEF ChargedAlone
    <3> QED
      BY <2>1, <2>11, <2>15, <3>4, BooksAreKept
  <2>16. Books'
    BY <2>15 DEF Books, Value
  <2>17. InTurn
    <3>1. \A e \in Caller : at'[e] \in Stage /\ Mid(more, e) = "granted" =>
              at[e] = at'[e] /\ promise[e] = "granted"
      BY <1>2, <2>7
    <3> QED
      BY <1>1, <2>1, <2>11, <2>12, <3>1, PayingIsInTurn
  <2> QED
    BY <1>1, <1>2, <2>13, <2>14, <2>16, <2>17, IInvFromQueues DEF TypeOK
<1>11. Len(b.queue) \in Nat /\ MaxQueued[d] \in Nat
  BY <1>3, <1>4, LimitsAssumption DEF Dim
<1> QED
  BY <1>7, <1>8, <1>9, <1>10, <1>11

(* A permit is refused, given from the pool, or waited for. *)
LEMMA TakePermitKeeps ==
    ASSUME IInv, NEW c \in Caller, Starts(c, "permit"), takePermit(c)
    PROVE  IInv' /\ InTurn
<1>1. /\ now \in Nat /\ TypeOK /\ BucketsSound /\ Staged /\ promise \in [Caller -> Promise]
      /\ Permitted /\ Queued /\ UNCHANGED <<now, aborted, charged, bucket>>
      /\ deadlineAt' \in [Caller -> Nat] /\ IsFiniteSet(Caller) /\ Permits \in Nat
  BY IInvParts, IInvQueues, CallerAssumption, LimitsAssumption DEF Starts, takePermit
<1>2. /\ at'[c] = "permit" /\ at' \in [Caller -> {"idle"} \cup Stage \cup Outcome]
      /\ \A e \in Caller \ {c} : at'[e] = at[e]
      /\ HasStage(c, "permit") /\ promise[c] # "waiting"
      /\ at[c] # "permit" /\ at[c] # "leased" /\ "permit" \in Stage /\ "permit" \notin Dim
  BY StartsAt DEF Stage, Dim
<1>3. /\ Permits > 0 /\ used \in 0..Permits /\ permitQueue \in Seq(Caller)
      /\ IsInjective(permitQueue) /\ Len(permitQueue) \in Nat
      /\ Range(permitQueue) = {e \in Caller : at[e] = "permit" /\ promise[e] = "waiting"}
      /\ used < Permits => permitQueue = <<>>
  BY <1>1, <1>2 DEF Permitted, Line, Queue, FullPool, HasStage
<1>4. ~ HasPermit(c)
  BY <1>2 DEF HasPermit
\* A step that sets c's promise to p, and nobody else's.
<1>5. ASSUME NEW p \in {"granted", "failed", "waiting"}, promise' = [promise EXCEPT ![c] = p],
             p = "granted" => permitQueue = <<>>, Permitted'
      PROVE  IInv' /\ InTurn
  <2>1. /\ promise' \in [Caller -> Promise] /\ promise'[c] = p
        /\ \A e \in Caller \ {c} : promise'[e] = promise[e]
    BY <1>1, <1>5 DEF Promise
  <2>2. Queued'
    <3>1. \A e \in Caller : /\ at'[e] \in Stage <=> promise'[e] # "none"
                            /\ at'[e] \in Stage => HasStage(e, at'[e])
      BY <1>1, <1>2, <1>5, <2>1 DEF Staged
    <3>2. \A e \in Caller, d \in Dim :
               at'[e] = d /\ promise'[e] = "waiting" <=> at[e] = d /\ promise[e] = "waiting"
      BY <1>2, <2>1
    <3> QED
      BY <1>1, <2>1, <3>1, <3>2, QueuedUntouched
  <2>3. Books'
    <3>1. ASSUME NEW d \in Dim PROVE Charge(d, c)' = Charge(d, c)
      <4>1. Charge(d, c) \in Int
        BY <1>1, ChargeType
      <4> QED
        BY <1>2, <4>1, StartIsCharged
    <3>2. \A d \in Dim : \A e \in Caller \ {c} : Charge(d, e)' = Charge(d, e)
      BY <1>1, <1>2, <2>1 DEF Charge, Holds
    <3> QED
      BY <1>1, <3>1, <3>2, BooksUntouched
  <2>4. InTurn
    <3>1. p = "granted" => Range(Queue("permit")) = {}
      BY <1>5 DEF Queue, Range
    <3>2. \A e \in Caller, st \in Stage :
              at'[e] = st /\ promise'[e] = "granted" /\ ~(at[e] = st /\ promise[e] = "granted")
                  => e = c /\ st = "permit" /\ p = "granted"
      BY <1>2, <2>1
    <3> QED
      BY <3>1, <3>2 DEF InTurn
  <2> QED
    BY <1>1, <1>2, <1>5, <2>2, <2>3, <2>4, IInvFromQueues DEF TypeOK
<1>6. CASE promise' = [promise EXCEPT ![c] = "failed"] /\ UNCHANGED <<used, permitQueue>>
  <2>1. \A e \in Caller \ {c} : promise'[e] = promise[e]
    BY <1>1, <1>6
  <2>2. promise'[c] = "failed"
    BY <1>1, <1>6
  <2>3. Permitted'
    <3>1. \A e \in Caller : /\ HasPermit(e)' <=> HasPermit(e)
                            /\ at'[e] = "permit" /\ promise'[e] = "waiting"
                                   <=> at[e] = "permit" /\ promise[e] = "waiting"
      BY <1>2, <2>1, <2>2 DEF HasPermit
    <3> QED
      BY <1>6, <3>1, PermitsUntouched
  <2> QED
    BY <1>5, <1>6, <2>3
<1>7. CASE /\ used < Permits /\ used' = used + 1
           /\ promise' = [promise EXCEPT ![c] = "granted"] /\ UNCHANGED permitQueue
  <2> DEFINE Holders == {e \in Caller : HasPermit(e)}
  <2>1. promise'[c] = "granted" /\ \A e \in Caller \ {c} : promise'[e] = promise[e]
    BY <1>1, <1>7
  <2>2. Holders' = Holders \cup {c}
    <3>1. HasPermit(c)' /\ \A e \in Caller \ {c} : HasPermit(e)' <=> HasPermit(e)
      BY <1>2, <2>1 DEF HasPermit
    <3> QED
      BY <3>1
  <2>3. IsFiniteSet(Holders) /\ c \notin Holders
    BY <1>1, <1>4, FS_Subset
  <2>4. Cardinality(Holders') = Cardinality(Holders) + 1
    BY <2>2, <2>3, FS_AddElement
  <2>5. used = Cardinality(Holders)
    BY <1>1, <1>3 DEF Permitted, Pool
  <2>6. Pool' /\ used' \in 0..Permits
    BY <1>1, <1>3, <1>7, <2>4, <2>5 DEF Pool
  <2>7. Line("permit")'
    BY <1>2, <1>3, <1>7, <2>1 DEF Line, Queue
  <2>8. FullPool'
    BY <1>3, <1>7 DEF FullPool
  <2>9. Permitted'
    BY <1>3, <1>7, <2>6, <2>7, <2>8 DEF Permitted
  <2> QED
    BY <1>3, <1>5, <1>7, <2>9
<1>8. CASE /\ used >= Permits /\ permitQueue' = Append(permitQueue, c)
           /\ promise' = [promise EXCEPT ![c] = "waiting"] /\ UNCHANGED used
  <2>1. promise'[c] = "waiting" /\ \A e \in Caller \ {c} : promise'[e] = promise[e]
    BY <1>1, <1>8
  <2>2. PICK q : q = permitQueue
    OBVIOUS
  <2>3. q \in Seq(Caller) /\ IsInjective(q) /\ c \notin Range(q)
    BY <1>2, <1>3, <2>2
  <2>4. /\ permitQueue' \in Seq(Caller) /\ IsInjective(permitQueue')
        /\ Range(permitQueue') = Range(permitQueue) \cup {c}
    BY <1>8, <2>2, <2>3, AppendQueue
  <2>5. Line("permit")'
    BY <1>2, <1>3, <2>1, <2>4 DEF Line, Queue
  <2>6. Pool'
    <3>1. \A e \in Caller : HasPermit(e)' <=> HasPermit(e)
      BY <1>2, <2>1 DEF HasPermit
    <3>2. {e \in Caller : HasPermit(e)}' = {e \in Caller : HasPermit(e)}
      BY <3>1
    <3> QED
      BY <1>1, <1>8, <3>2 DEF Permitted, Pool
  <2>7. FullPool'
    BY <1>1, <1>3, <1>8 DEF FullPool
  <2>8. Permitted'
    BY <1>3, <1>8, <2>4, <2>5, <2>6, <2>7 DEF Permitted
  <2> QED
    BY <1>5, <1>8, <2>8
<1> QED
  BY <1>6, <1>7, <1>8 DEF takePermit

(* Behind the last stage is the lease. *)
LEMMA LeaseKeeps ==
    ASSUME IInv, NEW c \in Caller, Starts(c, "leased"), promise' = [promise EXCEPT ![c] = "none"],
           UNCHANGED <<bucket, used, permitQueue>>
    PROVE  IInv' /\ InTurn
<1>1. /\ TypeOK /\ Staged /\ promise \in [Caller -> Promise] /\ Permitted
      /\ UNCHANGED <<now, aborted, charged>> /\ deadlineAt' \in [Caller -> Nat]
  BY IInvParts, IInvQueues DEF Starts
<1>2. /\ at'[c] = "leased" /\ at' \in [Caller -> {"idle"} \cup Stage \cup Outcome]
      /\ \A e \in Caller \ {c} : at'[e] = at[e]
      /\ Permits > 0 => at[c] = "permit"
      /\ promise[c] # "waiting" /\ "leased" \notin Stage /\ "leased" \notin Dim
  BY StartsAt DEF Stage, Dim
<1>3. /\ promise' \in [Caller -> Promise] /\ promise'[c] = "none"
      /\ \A e \in Caller \ {c} : promise'[e] = promise[e]
  BY <1>1 DEF Promise
<1>4. Permitted'
  <2>1. \A e \in Caller : at'[e] = "permit" /\ promise'[e] = "waiting"
                              <=> at[e] = "permit" /\ promise[e] = "waiting"
    BY <1>2, <1>3
  <2>2. Permits > 0 => \A e \in Caller : HasPermit(e)' <=> HasPermit(e)
    BY <1>2, <1>3 DEF HasPermit, Starts, Stage
  <2>3. Permits > 0 => {e \in Caller : HasPermit(e)}' = {e \in Caller : HasPermit(e)}
    BY <2>2
  <2>4. Pool'
    BY <1>1, <2>3 DEF Permitted, Pool
  <2>5. Line("permit")'
    BY <1>1, <2>1 DEF Permitted, Line, Queue
  <2>6. FullPool'
    BY <1>1 DEF Permitted, FullPool
  <2> QED
    BY <1>1, <2>4, <2>5, <2>6 DEF Permitted
<1>5. Queued'
  <2>1. \A e \in Caller : /\ at'[e] \in Stage <=> promise'[e] # "none"
                          /\ at'[e] \in Stage => HasStage(e, at'[e])
    BY <1>1, <1>2, <1>3 DEF Staged
  <2>2. \A e \in Caller, d \in Dim :
             at'[e] = d /\ promise'[e] = "waiting" <=> at[e] = d /\ promise[e] = "waiting"
    BY <1>2, <1>3
  <2> QED
    BY <1>1, <1>3, <2>1, <2>2, QueuedUntouched
<1>6. Books'
  <2>1. ASSUME NEW d \in Dim PROVE Charge(d, c)' = Charge(d, c)
    <3>1. Charge(d, c) \in Int
      BY <1>1, ChargeType
    <3> QED
      BY <1>2, <3>1, StartIsCharged
  <2>2. \A d \in Dim : \A e \in Caller \ {c} : Charge(d, e)' = Charge(d, e)
    BY <1>1, <1>2, <1>3 DEF Charge, Holds
  <2> QED
    BY <2>1, <2>2, BooksUntouched
<1>7. InTurn
  BY <1>2, <1>3, NobodyServed
<1> QED
  BY <1>1, <1>2, <1>4, <1>5, <1>6, <1>7, IInvFromQueues DEF TypeOK

LEMMA StartKeeps ==
    ASSUME IInv, NEW c \in Caller, NEW next, Starts(c, next)
    PROVE  IInv' /\ InTurn
<1>1. next \in Dim \cup {"permit", "leased"}
  BY StartsAt DEF Stage
<1>2. \/ next \in Dim /\ take(c, next)
      \/ next = "permit" /\ takePermit(c)
      \/ /\ next = "leased" /\ promise' = [promise EXCEPT ![c] = "none"]
         /\ UNCHANGED <<bucket, used, permitQueue>>
  BY DEF Starts, Begin
<1> QED
  BY <1>2, TakeKeeps, TakePermitKeeps, LeaseKeeps

LEMMA AcquireKeeps ==
    ASSUME IInv, NEW c \in Caller, acquire(c)
    PROVE  IInv' /\ InTurn
<1>1. TypeOK /\ now \in Nat
  BY IInvParts
<1>2. now + Wait[c] \in Nat
  BY <1>1, CallerAssumption
<1>3. deadlineAt' \in [Caller -> Nat]
  BY <1>1, <1>2 DEF acquire, TypeOK
<1>4. PICK next : Starts(c, next)
  BY <1>3 DEF acquire, Starts, Stage, Dim
<1> QED
  BY <1>4, StartKeeps

LEMMA ProceedKeeps ==
    ASSUME IInv, NEW c \in Caller, proceed(c)
    PROVE  IInv' /\ InTurn
<1>1. deadlineAt' \in [Caller -> Nat]
  BY IInvParts DEF proceed, TypeOK
<1>2. PICK next : Starts(c, next)
  BY <1>1 DEF proceed, Starts
<1> QED
  BY <1>2, StartKeeps

-----------------------------------------------------------------------------
(* The theorems *)

LEMMA InitKeeps == Init => IInv
<1> SUFFICES ASSUME Init PROVE IInv
  OBVIOUS
<1>1. /\ \A d \in Dim : Capacity[d] \in Nat
      /\ Permits \in Nat /\ MaxTime \in Nat /\ IsFiniteSet(Caller)
  BY LimitsAssumption, TimeAssumption, CallerAssumption
<1>2. /\ \A d \in Dim : /\ bucket[d].tokens = Capacity[d] /\ bucket[d].lastRefillAt = 0
                        /\ bucket[d].queue = <<>> /\ bucket[d].spilled = 0
      /\ \A c \in Caller : at[c] = "idle" /\ promise[c] = "none"
  BY DEF Init
<1>3. bucket \in [Dim -> Bucket]
  BY <1>1 DEF Init, Bucket
<1>4. TypeOK
  BY <1>1, <1>3 DEF TypeOK, Init, Bucket
<1>5. Staged /\ FullPool
  BY <1>2 DEF Staged, Stage, Dim, FullPool, Init
<1>6. BucketsSound
  BY <1>1, <1>2, <1>3 DEF BucketsSound, Sound, Init
<1>7. HeadHasTimer
  BY <1>2 DEF HeadHasTimer
<1>8. PermitsExact
  <2>1. \A c \in Caller : ~ HasPermit(c)
    BY <1>2 DEF HasPermit
  <2>2. {c \in Caller : HasPermit(c)} = {}
    BY <2>1
  <2>3. used = Cardinality({c \in Caller : HasPermit(c)})
    BY <2>2, FS_EmptySet DEF Init
  <2>4. \A st \in Stage : Queue(st) = <<>>
    BY <1>2 DEF Queue, Stage, Init
  <2>5. \A st \in Stage : {c \in Caller : at[c] = st /\ promise[c] = "waiting"} = {}
    BY <1>2
  <2>6. Range(<<>>) = {} /\ IsInjective(<<>>)
    BY DEF Range, IsInjective
  <2> QED
    BY <2>3, <2>4, <2>5, <2>6 DEF PermitsExact
<1>9. ASSUME NEW d \in Dim
      PROVE  SumOver(Charges(d), Caller) + Value(bucket[d]) = Capacity[d]
  <2>1. \A c \in Caller : Charges(d)[c] = 0
    <3>1. \A c \in Caller : ~ Holds(d, c)
      BY <1>2, OrderOfStages DEF Holds, Dim
    <3> QED
      BY <1>2, <3>1 DEF Charges, Charge
  <2>2. SumOver(Charges(d), Caller) = 0
    <3>1. PICK h : h = Charges(d)
      OBVIOUS
    <3>2. \A c \in Caller : h[c] = 0
      BY <2>1, <3>1
    <3>3. SumOver(h, Caller) = 0
      BY <1>1, <3>2, SumOfNothing
    <3> QED
      BY <3>1, <3>3
  <2> QED
    BY <1>1, <1>2, <2>2 DEF Value
<1> QED
  BY <1>4, <1>5, <1>6, <1>7, <1>8, <1>9 DEF IInv, Books, Value

LEMMA NextKeeps ==
    ASSUME IInv, Next
    PROVE  IInv' /\ InTurn
<1>1. CASE Tick
  <2>1. at' = at /\ promise' = promise
    BY <1>1 DEF Tick
  <2>2. InTurn
    BY <2>1, NobodyServed
  <2> QED
    BY <1>1, <2>2, TickKeeps
<1>2. ASSUME NEW d \in Dim, fire(d)
      PROVE  IInv' /\ InTurn
  BY <1>2, FireKeeps
<1>3. ASSUME NEW c \in Caller, Step(c)
      PROVE  IInv' /\ InTurn
  BY <1>3, AcquireKeeps, ProceedKeeps, RefuseKeeps, DeadlineKeeps DEF Step
<1>4. ASSUME NEW c \in Caller, abort(c) \/ abandon(c)
      PROVE  IInv' /\ InTurn
  BY <1>4, AbortKeeps, AbandonKeeps
<1>5. ASSUME NEW c \in Caller, NEW actual \in {0, Cost[c] + Overrun[c]}, settle(c, actual)
      PROVE  IInv' /\ InTurn
  <2>1. actual \in Nat
    BY CallerAssumption
  <2> QED
    BY <1>5, <2>1, SettleKeeps
<1>6. ASSUME NEW c \in Caller, NEW hold \in Penalties, penalize(c, hold)
      PROVE  IInv' /\ InTurn
  <2>1. hold \in Nat
    BY TimeAssumption
  <2> QED
    BY <1>6, <2>1, PenalizeKeeps
<1> QED
  BY <1>1, <1>2, <1>3, <1>4, <1>5, <1>6 DEF Next

LEMMA StutterKeeps ==
    ASSUME IInv, UNCHANGED vars
    PROVE  IInv' /\ InTurn
<1>1. UNCHANGED <<now, bucket, used, permitQueue, at, promise, deadlineAt, aborted, charged>>
  BY DEF vars
<1>2. Permitted' /\ Books' /\ InTurn
  BY <1>1, PermitsUntouched, BooksUntouched, NobodyServed DEF HasPermit, Charge, Holds
<1>3. Queued'
  BY <1>1, IInvParts, QueuedUntouched DEF Staged
<1> QED
  BY <1>1, <1>2, <1>3, IInvParts, IInvFromQueues DEF TypeOK

(* IInv is an invariant. *)
LEMMA AlwaysIInv == Spec => [](IInv)
<1>1. IInv /\ [Next]_vars => IInv'
  BY NextKeeps, StutterKeeps
<1> QED
  BY <1>1, InitKeeps, PTL DEF Spec

(* The rate limiter's state is always of its types: a refund, an overrun or a
   penalty never leaves a bucket with a refill, a floor or a timer outside the
   numbers, and the permits in use stay between none and all of them. *)
THEOREM TypeCorrect == Spec => []TypeOK
<1>1. IInv => TypeOK
  BY DEF IInv
<1> QED
  BY <1>1, AlwaysIInv, PTL

(* Every permit in use is in the hands of a live call, and every queue holds
   exactly the callers that wait in it, for any number of callers, permits and
   places, over any order of grants, releases, deadlines and aborts
   (Semaphore.acquire and release, TokenBucket.remove). *)
THEOREM PermitsAreExact == Spec => []PermitsExact
<1>1. IInv => PermitsExact
  BY DEF IInv
<1> QED
  BY <1>1, AlwaysIInv, PTL

(* No waiter sleeps beside the tokens it needs: a bucket with a queue has a
   timer due no later than its head can be paid, whatever refills, refunds,
   overruns, penalties and departures happened since it was armed
   (TokenBucket.reschedule). *)
THEOREM HeadsAreTimed == Spec => []HeadHasTimer
<1>1. IInv => HeadHasTimer
  BY DEF IInv
<1> QED
  BY <1>1, AlwaysIInv, PTL

(* The books of every bucket balance at every instant: what it has, with what
   calls hold or have spent and what the clamp lost, is its capacity and what
   it gained with time - for every cost, overrun, capacity and number of
   callers (TokenBucket.take, forceTake and refund, CompositeLimiter's settle
   and abandon). *)
THEOREM BooksAlwaysBalance == Spec => []BooksBalance
<1>1. IInv => BooksBalance
  BY BooksAreSums DEF IInv
<1> QED
  BY <1>1, AlwaysIInv, PTL

(* First come, first served, in the buckets and for the permits: nobody gets a
   stage ahead of one who was waiting there and waits on (the queues of
   TokenBucket and Semaphore). *)
THEOREM NobodyOvertakes == Spec => NoOvertaking
<1>1. IInv /\ [Next]_vars => InTurn
  BY NextKeeps, StutterKeeps
<1>2. InTurn =>
        [\A c \in Caller, st \in Stage :
           at'[c] = st /\ promise'[c] = "granted" /\ ~(at[c] = st /\ promise[c] = "granted") =>
               \A e \in Caller \ {c} :
                   /\ e \in Range(Queue(st)) /\ e \in Range(Queue(st)')
                   => \E i, j \in DOMAIN Queue(st) :
                         i < j /\ Queue(st)[i] = c /\ Queue(st)[j] = e]_vars
  BY DEF InTurn, Before
<1> QED
  BY <1>1, <1>2, AlwaysIInv, PTL DEF Spec, NoOvertaking
=============================================================================
