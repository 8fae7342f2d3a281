----------------------------- MODULE Sums_proofs -----------------------------
(***************************************************************************)
(* Lemmas about SumTo, for every number of accounts.                        *)
(*                                                                          *)
(* They are proved by a least counterexample: a set of natural numbers at   *)
(* which a fact fails, if not empty, has a least element, and the fact at   *)
(* its predecessor gives a contradiction.                                   *)
(***************************************************************************)
EXTENDS Sums, WellFoundedInduction, TLAPS

(* The running totals SumTo is read from, named so that lemmas can speak    *)
(* of them.                                                                 *)
IsRunningTotal(f, n, g) ==
  g = [i \in 0..n |-> IF i = 0 THEN 0 ELSE g[i - 1] + f[i]]

RunningTotal(f, n) == CHOOSE g : IsRunningTotal(f, n, g)

LessThanOnNat == {p \in Nat \X Nat : p[1] < p[2]}

(* Every non-empty set of natural numbers has a least element: the          *)
(* principle every other lemma of this module rests on.                     *)
LEMMA NatMinimum ==
  ASSUME NEW T, T \subseteq Nat, T # {}
  PROVE  \E m \in T : \A k \in T : m <= k
<1>1. IsWellFoundedOn(LessThanOnNat, Nat)
  BY NatLessThanWellFounded DEF OpToRel, LessThanOnNat
<1>2. PICK m \in T : \A k \in T : <<k, m>> \notin LessThanOnNat
  BY <1>1, WFMin
<1>3. \A k \in T : ~(k < m)
  BY <1>2 DEF LessThanOnNat
<1> QED
  BY <1>3

(* A ledger of integers has running totals.                                 *)
LEMMA RunningTotalExists ==
  ASSUME NEW n \in Nat, NEW f \in [1..n -> Int]
  PROVE  \E g : IsRunningTotal(f, n, g)
<1> DEFINE Has(k) == \E g \in [0..k -> Int] :
                       /\ g[0] = 0
                       /\ \A i \in 1..k : g[i] = g[i - 1] + f[i]
           T == {k \in 0..n : ~Has(k)}
<1>1. T = {}
  <2>1. SUFFICES ASSUME T # {} PROVE FALSE
    OBVIOUS
  <2>2. PICK m \in T : \A k \in T : m <= k
    <3>1. T \subseteq Nat
      OBVIOUS
    <3> HIDE DEF T
    <3> QED
      BY <2>1, <3>1, NatMinimum
  <2>3. Has(0)
    <3> DEFINE g0 == [i \in 0..0 |-> 0]
    <3>1. g0 \in [0..0 -> Int] /\ g0[0] = 0 /\ \A i \in 1..0 : FALSE
      OBVIOUS
    <3> HIDE DEF g0
    <3> QED
      BY <3>1
  <2>4. m # 0 /\ m - 1 \in 0..n /\ Has(m - 1)
    <3>1. m \in 0..n /\ ~Has(m)
      OBVIOUS
    <3>2. \A k \in 0..n : ~Has(k) => m <= k
      BY <2>2
    <3> HIDE DEF Has, T
    <3>3. m # 0
      BY <2>3, <3>1
    <3> QED
      BY <3>1, <3>2, <3>3
  <2>5. PICK g \in [0..(m - 1) -> Int] :
           g[0] = 0 /\ \A i \in 1..(m - 1) : g[i] = g[i - 1] + f[i]
    BY <2>4
  <2> DEFINE h == [i \in 0..m |-> IF i = m THEN g[m - 1] + f[m] ELSE g[i]]
  <2>6. h \in [0..m -> Int]
    BY <2>2, <2>4, <2>5
  <2>7. h[0] = 0 /\ \A i \in 1..m : h[i] = h[i - 1] + f[i]
    <3>1. m \in Nat /\ m > 0
      BY <2>2, <2>4
    <3>2. h[0] = 0 /\ h[m] = h[m - 1] + f[m]
      BY <2>5, <3>1
    <3>3. ASSUME NEW i \in 1..m, i # m PROVE h[i] = h[i - 1] + f[i]
      BY <2>5, <3>1, <3>3
    <3> QED
      BY <3>2, <3>3
  <2>8. Has(m)
    BY <2>6, <2>7
  <2> QED
    BY <2>2, <2>8
<1>2. PICK g \in [0..n -> Int] :
         g[0] = 0 /\ \A i \in 1..n : g[i] = g[i - 1] + f[i]
  <2>1. n \notin T
    BY <1>1
  <2>2. Has(n)
    BY <2>1
  <2> QED
    BY <2>2
<1>3. IsRunningTotal(f, n, g)
  BY <1>2 DEF IsRunningTotal
<1> QED
  BY <1>3

(* SumTo is the last of the running totals, which start at 0, grow by one   *)
(* entry at a time and are integers.                                        *)
LEMMA SumToDef ==
  ASSUME NEW n \in Nat, NEW f \in [1..n -> Int]
  PROVE  /\ SumTo(f, n) = RunningTotal(f, n)[n]
         /\ RunningTotal(f, n) \in [0..n -> Int]
         /\ RunningTotal(f, n)[0] = 0
         /\ \A i \in 1..n :
              RunningTotal(f, n)[i] = RunningTotal(f, n)[i - 1] + f[i]
<1> DEFINE r == RunningTotal(f, n)
           T == {i \in 0..n : r[i] \notin Int}
<1>1. IsRunningTotal(f, n, r)
  BY RunningTotalExists DEF RunningTotal
<1>2. SumTo(f, n) = r[n]
  BY DEF SumTo, RunningTotal, IsRunningTotal
<1>3. r[0] = 0 /\ \A i \in 1..n : r[i] = r[i - 1] + f[i]
  BY <1>1 DEF IsRunningTotal
<1>4. T = {}
  <2>1. SUFFICES ASSUME T # {} PROVE FALSE
    OBVIOUS
  <2>2. PICK m \in T : \A k \in T : m <= k
    <3>1. T \subseteq Nat
      OBVIOUS
    <3> HIDE DEF T
    <3> QED
      BY <2>1, <3>1, NatMinimum
  <2>3. m \in 1..n /\ m - 1 \in 0..n /\ r[m - 1] \in Int
    BY <1>3, <2>2
  <2> HIDE DEF r
  <2>4. r[m] \in Int
    BY <1>3, <2>3
  <2> QED
    BY <2>2, <2>4
<1>5. r \in [0..n -> Int]
  BY <1>1, <1>4 DEF IsRunningTotal
<1> QED
  BY <1>2, <1>3, <1>5

(* A ledger without entries, or whose entries are all zero, totals zero.    *)
LEMMA SumToZero ==
  ASSUME NEW n \in Nat, NEW f \in [1..n -> Int], \A i \in 1..n : f[i] = 0
  PROVE  SumTo(f, n) = 0
<1> DEFINE r == RunningTotal(f, n)
           T == {i \in 0..n : r[i] # 0}
<1>1. /\ SumTo(f, n) = r[n]
      /\ r \in [0..n -> Int]
      /\ r[0] = 0
      /\ \A i \in 1..n : r[i] = r[i - 1] + f[i]
  BY SumToDef
<1> HIDE DEF r
<1>2. T = {}
  <2>1. SUFFICES ASSUME T # {} PROVE FALSE
    OBVIOUS
  <2>2. PICK m \in T : \A k \in T : m <= k
    <3>1. T \subseteq Nat
      OBVIOUS
    <3> HIDE DEF T
    <3> QED
      BY <2>1, <3>1, NatMinimum
  <2>3. m \in 1..n /\ r[m - 1] = 0
    BY <1>1, <2>2
  <2> QED
    BY <1>1, <2>2, <2>3
<1> QED
  BY <1>1, <1>2

(* Changing one entry by d changes the total by d.                          *)
LEMMA SumToUpdate ==
  ASSUME NEW n \in Nat, NEW f \in [1..n -> Int], NEW u \in 1..n, NEW d \in Int
  PROVE  /\ [f EXCEPT ![u] = f[u] + d] \in [1..n -> Int]
         /\ SumTo([f EXCEPT ![u] = f[u] + d], n) = SumTo(f, n) + d
<1> DEFINE h == [f EXCEPT ![u] = f[u] + d]
           r == RunningTotal(f, n)
           s == RunningTotal(h, n)
           step(i) == IF i >= u THEN d ELSE 0
           T == {i \in 0..n : s[i] # r[i] + step(i)}
<1>1. h \in [1..n -> Int]
  OBVIOUS
<1>2. /\ SumTo(f, n) = r[n]
      /\ r \in [0..n -> Int]
      /\ r[0] = 0
      /\ \A i \in 1..n : r[i] = r[i - 1] + f[i]
  BY SumToDef
<1>3. /\ SumTo(h, n) = s[n]
      /\ s \in [0..n -> Int]
      /\ s[0] = 0
      /\ \A i \in 1..n : s[i] = s[i - 1] + h[i]
  <2> HIDE DEF h
  <2> QED
    BY <1>1, SumToDef
<1>4. \A i \in 1..n : h[i] = f[i] + (IF i = u THEN d ELSE 0)
  OBVIOUS
<1> HIDE DEF r, s, h
<1>5. T = {}
  <2>1. SUFFICES ASSUME T # {} PROVE FALSE
    OBVIOUS
  <2>2. PICK m \in T : \A k \in T : m <= k
    <3>1. T \subseteq Nat
      OBVIOUS
    <3> HIDE DEF T
    <3> QED
      BY <2>1, <3>1, NatMinimum
  <2>3. m \in 1..n /\ m - 1 \in 0..n /\ m - 1 \notin T
    BY SMTT(40), <1>2, <1>3, <2>2
  <2>4. s[m - 1] = r[m - 1] + step(m - 1)
    BY <2>3
  <2>5. s[m] = r[m] + step(m)
    <3>1. /\ s[m] = s[m - 1] + h[m]
          /\ r[m] = r[m - 1] + f[m]
          /\ h[m] = f[m] + (IF m = u THEN d ELSE 0)
      BY <1>2, <1>3, <1>4, <2>3
    <3>2. /\ m \in Int /\ f[m] \in Int /\ h[m] \in Int
          /\ r[m - 1] \in Int /\ s[m - 1] \in Int /\ r[m] \in Int /\ s[m] \in Int
      BY <1>1, <1>2, <1>3, <2>3
    <3>3. CASE m < u
      BY <2>4, <3>1, <3>2, <3>3
    <3>4. CASE m = u
      BY <2>4, <3>1, <3>2, <3>4
    <3>5. CASE m > u
      BY SMTT(40), <2>4, <3>1, <3>2, <3>5
    <3> QED
      BY <3>2, <3>3, <3>4, <3>5
  <2> QED
    BY <2>2, <2>5
<1>6. s[n] = r[n] + d
  BY <1>5
<1> QED
  BY <1>1, <1>2, <1>3, <1>6 DEF h

(* Setting an entry changes the total by the difference.                    *)
LEMMA EntrySet ==
  ASSUME NEW n \in Nat, NEW f \in [1..n -> Int], NEW next \in [1..n -> Int],
         NEW u \in 1..n, \A j \in 1..n : j # u => next[j] = f[j]
  PROVE  SumTo(f, n) \in Int /\ SumTo(next, n) = SumTo(f, n) + (next[u] - f[u])
<1> DEFINE d == next[u] - f[u]
<1>1. f[u] \in Int /\ d \in Int /\ f[u] + d = next[u]
  OBVIOUS
<1>2. d = next[u] - f[u]
  OBVIOUS
<1> HIDE DEF d
<1>3. next = [f EXCEPT ![u] = f[u] + d]
  BY <1>1
<1>4. SumTo([f EXCEPT ![u] = f[u] + d], n) = SumTo(f, n) + d
  <2>1. d \in Int
    BY <1>1
  <2> QED
    BY <2>1, SumToUpdate
<1>5. SumTo(f, n) \in Int
  BY SumToDef
<1> QED
  BY <1>2, <1>3, <1>4, <1>5

(* The total of a ledger without negative entries is at least any entry.    *)
LEMMA SumToMember ==
  ASSUME NEW n \in Nat, NEW f \in [1..n -> Nat]
  PROVE  /\ SumTo(f, n) \in Nat
         /\ \A u \in 1..n : f[u] <= SumTo(f, n)
<1> DEFINE r == RunningTotal(f, n)
           T == {i \in 0..n : ~ (/\ r[i] >= 0
                                 /\ \A u \in 1..i : f[u] <= r[i])}
<1>1. f \in [1..n -> Int]
  OBVIOUS
<1>2. /\ SumTo(f, n) = r[n]
      /\ r \in [0..n -> Int]
      /\ r[0] = 0
      /\ \A i \in 1..n : r[i] = r[i - 1] + f[i]
  BY <1>1, SumToDef
<1> HIDE DEF r
<1>3. T = {}
  <2>1. SUFFICES ASSUME T # {} PROVE FALSE
    OBVIOUS
  <2>2. PICK m \in T : \A k \in T : m <= k
    <3>1. T \subseteq Nat
      OBVIOUS
    <3> HIDE DEF T
    <3> QED
      BY <2>1, <3>1, NatMinimum
  <2>3. m \in 1..n /\ m - 1 \in 0..n /\ m - 1 \notin T
    BY <1>2, <2>2
  <2>4. r[m - 1] >= 0 /\ \A u \in 1..(m - 1) : f[u] <= r[m - 1]
    BY <2>3
  <2>5. r[m] = r[m - 1] + f[m] /\ f[m] \in Nat /\ r[m - 1] \in Int
    BY <1>2, <2>3
  <2>6. r[m] >= 0 /\ \A u \in 1..m : f[u] <= r[m]
    BY <2>3, <2>4, <2>5
  <2> QED
    BY <2>2, <2>6
<1>4. n \notin T
  BY <1>3
<1>5. r[n] >= 0 /\ (\A u \in 1..n : f[u] <= r[n]) /\ r[n] \in Int
  BY <1>2, <1>4
<1> QED
  BY <1>2, <1>5

(* Entries that are no more than those of two other ledgers together total  *)
(* no more than the two ledgers together.                                   *)
LEMMA SumToCovered ==
  ASSUME NEW n \in Nat, NEW f \in [1..n -> Int], NEW g \in [1..n -> Int],
         NEW h \in [1..n -> Int], \A i \in 1..n : h[i] <= f[i] + g[i]
  PROVE  SumTo(h, n) <= SumTo(f, n) + SumTo(g, n)
<1> DEFINE r == RunningTotal(f, n)
           s == RunningTotal(g, n)
           t == RunningTotal(h, n)
           T == {i \in 0..n : ~(t[i] <= r[i] + s[i])}
<1>1. /\ SumTo(f, n) = r[n]
      /\ r \in [0..n -> Int] /\ r[0] = 0
      /\ \A i \in 1..n : r[i] = r[i - 1] + f[i]
  BY SumToDef
<1>2. /\ SumTo(g, n) = s[n]
      /\ s \in [0..n -> Int] /\ s[0] = 0
      /\ \A i \in 1..n : s[i] = s[i - 1] + g[i]
  BY SumToDef
<1>3. /\ SumTo(h, n) = t[n]
      /\ t \in [0..n -> Int] /\ t[0] = 0
      /\ \A i \in 1..n : t[i] = t[i - 1] + h[i]
  BY SumToDef
<1> HIDE DEF r, s, t
<1>4. T = {}
  <2>1. SUFFICES ASSUME T # {} PROVE FALSE
    OBVIOUS
  <2>2. PICK m \in T : \A k \in T : m <= k
    <3>1. T \subseteq Nat
      OBVIOUS
    <3> HIDE DEF T
    <3> QED
      BY <2>1, <3>1, NatMinimum
  <2>3. m \in 1..n /\ m - 1 \in 0..n /\ m - 1 \notin T
    BY <1>1, <1>2, <1>3, <2>2
  <2>4. t[m - 1] <= r[m - 1] + s[m - 1]
    BY <2>3
  <2>5. t[m] <= r[m] + s[m]
    <3>1. /\ r[m] = r[m - 1] + f[m] /\ s[m] = s[m - 1] + g[m]
          /\ t[m] = t[m - 1] + h[m] /\ h[m] <= f[m] + g[m]
      BY <1>1, <1>2, <1>3, <2>3
    <3>2. /\ f[m] \in Int /\ g[m] \in Int /\ h[m] \in Int
          /\ r[m - 1] \in Int /\ s[m - 1] \in Int /\ t[m - 1] \in Int
      BY <1>1, <1>2, <1>3, <2>3
    <3>3. \A a, b, c, x, y, z \in Int :
            c <= a + b /\ z <= x + y => c + z <= (a + x) + (b + y)
      OBVIOUS
    <3>4. t[m - 1] + h[m] <= (r[m - 1] + f[m]) + (s[m - 1] + g[m])
      BY <2>4, <3>1, <3>2, <3>3
    <3> QED
      BY <3>1, <3>4
  <2> QED
    BY <2>2, <2>5
<1>5. t[n] <= r[n] + s[n]
  BY <1>4
<1> QED
  BY <1>1, <1>2, <1>3, <1>5

(* Smaller entries have a smaller total.                                    *)
LEMMA SumToMonotone ==
  ASSUME NEW n \in Nat, NEW f \in [1..n -> Int], NEW h \in [1..n -> Int],
         \A i \in 1..n : h[i] <= f[i]
  PROVE  SumTo(h, n) <= SumTo(f, n)
<1> DEFINE zero == [i \in 1..n |-> 0]
<1>1. zero \in [1..n -> Int] /\ \A i \in 1..n : zero[i] = 0
  OBVIOUS
<1>2. \A i \in 1..n : h[i] <= f[i] + zero[i]
  BY <1>1
<1> HIDE DEF zero
<1>3. SumTo(zero, n) = 0
  BY <1>1, SumToZero
<1>4. SumTo(h, n) <= SumTo(f, n) + SumTo(zero, n)
  BY <1>1, <1>2, SumToCovered
<1>5. SumTo(f, n) \in Int
  BY SumToDef
<1> QED
  BY <1>3, <1>4, <1>5

(* An entry more is added to the total of the entries before it.            *)
LEMMA SumToExtended ==
  ASSUME NEW n \in Nat, NEW f \in [1..n -> Int], NEW h \in [1..(n + 1) -> Int],
         \A i \in 1..n : h[i] = f[i]
  PROVE  SumTo(h, n + 1) = SumTo(f, n) + h[n + 1]
<1> DEFINE m == n + 1
           r == RunningTotal(f, n)
           t == RunningTotal(h, m)
           T == {i \in 0..n : t[i] # r[i]}
<1>1. /\ SumTo(f, n) = r[n]
      /\ r \in [0..n -> Int] /\ r[0] = 0
      /\ \A i \in 1..n : r[i] = r[i - 1] + f[i]
  BY SumToDef
<1>2. m \in Nat /\ h \in [1..m -> Int] /\ m = n + 1
  OBVIOUS
<1> HIDE DEF m
<1>3. /\ SumTo(h, m) = t[m]
      /\ t \in [0..m -> Int] /\ t[0] = 0
      /\ \A i \in 1..m : t[i] = t[i - 1] + h[i]
  BY <1>2, SumToDef
<1> HIDE DEF r, t
<1>4. T = {}
  <2>1. SUFFICES ASSUME T # {} PROVE FALSE
    OBVIOUS
  <2>2. PICK k \in T : \A j \in T : k <= j
    <3>1. T \subseteq Nat
      OBVIOUS
    <3> HIDE DEF T
    <3> QED
      BY <2>1, <3>1, NatMinimum
  <2>3. k \in 1..n /\ k - 1 \in 0..n /\ k - 1 \notin T
    BY <1>1, <1>3, <2>2
  <2>4. t[k - 1] = r[k - 1]
    BY <2>3
  <2>5. t[k] = r[k]
    BY <1>1, <1>2, <1>3, <2>3, <2>4
  <2> QED
    BY <2>2, <2>5
<1>5. t[n] = r[n]
  BY <1>4
<1>6. t[m] = t[n] + h[m]
  BY <1>2, <1>3
<1> QED
  BY <1>1, <1>2, <1>3, <1>5, <1>6
=============================================================================
