---------------------------- MODULE SequenceLemmas ----------------------------
(***************************************************************************)
(* Lemmas about the operators on sequences the models share (Selected and  *)
(* Joined of Sorting) and about functions that are defined by recursion    *)
(* over the naturals.  The library's induction theorems speak of an        *)
(* operator P(_), which no backend can instantiate; here a property is the *)
(* set of the numbers that have it, so that induction is a fact about      *)
(* sets.                                                                   *)
(***************************************************************************)
EXTENDS Sorting, FiniteSetsExt, TLAPS, WellFoundedInduction

\* A set of naturals has a least element.
LEMMA LeastNatural ==
  ASSUME NEW T \in SUBSET Nat, T # {}
  PROVE  \E n \in T : \A m \in T : n <= m
<1> DEFINE R == {p \in Nat \X Nat : p[1] < p[2]}
<1>1. R = OpToRel(<, Nat)
  BY Zenon DEF OpToRel
<1>2. IsWellFoundedOn(R, Nat)
  BY <1>1, NatLessThanWellFounded, Zenon
<1>3. PICK n \in T : \A m \in T : ~(<<m, n>> \in R)
  BY ONLY <1>2, WFMin, T \in SUBSET Nat, T # {}, Zenon
<1>4. \A m \in T : m \in Nat /\ n \in Nat /\ (<<m, n>> \in R <=> m < n)
  OBVIOUS
<1>5. \A m \in T : ~(m < n) /\ m \in Nat /\ n \in Nat
  BY ONLY <1>3, <1>4, Zenon
<1> QED
  BY ONLY <1>5

\* Induction: a set that holds zero and the successor of each of its naturals
\* holds all of them.
LEMMA SetInduction ==
  ASSUME NEW S, 0 \in S, \A n \in Nat : n \in S => n + 1 \in S
  PROVE  Nat \subseteq S
<1> SUFFICES ASSUME NEW x \in Nat, x \notin S PROVE FALSE
  OBVIOUS
<1> DEFINE T == {n \in Nat : n \notin S}
<1>1. PICK n \in T : \A m \in T : n <= m
  BY LeastNatural, Zenon
<1>2. n - 1 \in Nat /\ n - 1 \notin T
  BY <1>1
<1> QED
  BY <1>2

\* A set of naturals that is not empty has a least element, which Min names.
LEMMA MinOfNaturals ==
  ASSUME NEW T \in SUBSET Nat, T # {}
  PROVE  Min(T) \in T /\ \A m \in T : Min(T) <= m
BY LeastNatural, Zenon DEF Min

\* A least element is what Min names.
LEMMA MinIs ==
  ASSUME NEW T \in SUBSET Nat, NEW x \in T, \A m \in T : x <= m
  PROVE  Min(T) = x
<1>1. Min(T) \in T /\ Min(T) <= x /\ x <= Min(T)
  BY MinOfNaturals, Zenon
<1>2. Min(T) \in Nat /\ x \in Nat
  BY <1>1, Zenon
<1> QED
  BY <1>1, <1>2

\* A largest element is what Max names.
LEMMA MaxIs ==
  ASSUME NEW T \in SUBSET Nat, NEW x \in T, \A m \in T : m <= x
  PROVE  Max(T) = x
<1>1. \A y \in T : x >= y
  OBVIOUS
<1>2. Max(T) \in T /\ \A y \in T : Max(T) >= y
  BY <1>1, Zenon DEF Max
<1>3. Max(T) \in Nat /\ x \in Nat /\ Max(T) >= x /\ Max(T) <= x
  BY <1>2, Zenon
<1> QED
  BY ONLY <1>3

\* A bounded set of numbers has a largest one.
LEMMA MaxOfNaturals ==
  ASSUME NEW N \in Nat, NEW T, T \subseteq 1 .. N, T # {}
  PROVE  Max(T) \in T /\ \A m \in T : m <= Max(T)
<1> DEFINE U == {u \in Nat : \A m \in T : m <= u}
           least == Min(U)
<1>1. U \in SUBSET Nat /\ N \in U
  OBVIOUS
<1>2. least \in U /\ \A u \in U : least <= u
  <2> HIDE DEF U
  <2> QED
    BY ONLY <1>1, MinOfNaturals
<1> HIDE DEF least
<1>3. least \in T
  <2> SUFFICES ASSUME least \notin T PROVE FALSE
    OBVIOUS
  <2>1. \A m \in T : m \in Nat /\ 1 <= m /\ m <= least /\ m # least
    BY <1>2
  <2>2. least \in Nat /\ least >= 1
    <3>1. PICK m \in T : TRUE
      BY Zenon
    <3>2. least \in Nat
      BY ONLY <1>2
    <3> QED
      BY ONLY <2>1, <3>1, <3>2
  <2>3. least - 1 \in U
    BY ONLY <2>1, <2>2
  <2> QED
    BY ONLY <1>2, <2>2, <2>3
<1>4. T \in SUBSET Nat /\ \A m \in T : m <= least
  BY <1>2
<1>5. Max(T) = least
  BY ONLY <1>3, <1>4, MaxIs
<1> QED
  BY ONLY <1>3, <1>4, <1>5

-----------------------------------------------------------------------------
\* g starts with a value and goes on by the functions of a sequence, up to N.
Iterates(g, N, T, first, next) ==
  g \in [0 .. N -> T] /\ g[0] = first /\ \A i \in 1 .. N : g[i] = next[i][g[i - 1]]

\* A function that is defined by recursion on the naturals up to N exists.
LEMMA RecursiveFunction ==
  ASSUME NEW N \in Nat, NEW T, NEW first \in T, NEW next \in [1 .. N -> [T -> T]]
  PROVE  \E g : Iterates(g, N, T, first, next)
<1> DEFINE Upto(n) == \E g \in [0 .. n -> T] : g[0] = first /\ \A i \in 1 .. n : g[i] = next[i][g[i - 1]]
           S == {n \in Nat : n <= N => Upto(n)}
<1>1. 0 \in S
  <2> DEFINE g == [i \in 0 .. 0 |-> first]
  <2>1. g \in [0 .. 0 -> T] /\ g[0] = first /\ \A i \in 1 .. 0 : g[i] = next[i][g[i - 1]]
    OBVIOUS
  <2> HIDE DEF g
  <2> QED
    BY <2>1
<1>2. ASSUME NEW n \in Nat, n \in S, n + 1 <= N PROVE Upto(n + 1)
  <2>1. n <= N /\ n + 1 \in 1 .. N
    BY <1>2
  <2>2. PICK g \in [0 .. n -> T] : g[0] = first /\ \A i \in 1 .. n : g[i] = next[i][g[i - 1]]
    BY ONLY <1>2, <2>1
  <2> DEFINE h == [i \in 0 .. n + 1 |-> IF i <= n THEN g[i] ELSE next[n + 1][g[n]]]
  <2>3. next[n + 1] \in [T -> T] /\ g[n] \in T /\ next[n + 1][g[n]] \in T
    BY ONLY <2>1, n \in Nat, g \in [0 .. n -> T], next \in [1 .. N -> [T -> T]]
  <2>4. h \in [0 .. n + 1 -> T]
    BY ONLY <2>3, n \in Nat, g \in [0 .. n -> T]
  <2>5. (\A i \in 0 .. n : h[i] = g[i]) /\ h[n + 1] = next[n + 1][g[n]]
    BY ONLY n \in Nat
  <2> HIDE DEF h
  <2>6. h[0] = first
    BY ONLY <2>2, <2>5, n \in Nat
  <2>7. ASSUME NEW i \in 1 .. n + 1 PROVE h[i] = next[i][h[i - 1]]
    <3>1. CASE i = n + 1
      <4>1. i - 1 = n /\ n \in 0 .. n
        BY ONLY <3>1, n \in Nat
      <4> QED
        BY ONLY <2>5, <3>1, <4>1
    <3>2. CASE i # n + 1
      <4>1. i \in 1 .. n /\ i \in 0 .. n /\ i - 1 \in 0 .. n
        BY ONLY <3>2, n \in Nat, i \in 1 .. n + 1
      <4> QED
        BY ONLY <2>2, <2>5, <4>1
    <3> QED
      BY <3>1, <3>2
  <2> QED
    BY ONLY <2>4, <2>6, <2>7, Zenon
<1> HIDE DEF Upto
<1>3. \A n \in Nat : n \in S => n + 1 \in S
  BY ONLY <1>2, N \in Nat
<1>4. N \in S
  <2> HIDE DEF S
  <2> QED
    BY ONLY <1>1, <1>3, SetInduction, N \in Nat
<1>5. Upto(N)
  BY ONLY <1>4, N \in Nat
<1> QED
  BY ONLY <1>5 DEF Upto, Iterates

-----------------------------------------------------------------------------
\* What the loop of Selected has taken after each position.
Takes(g, s, S, K) ==
  /\ g \in [0 .. Len(s) -> Seq(S)]
  /\ g[0] = <<>>
  /\ \A i \in 1 .. Len(s) : g[i] = IF i \in K THEN Append(g[i - 1], s[i]) ELSE g[i - 1]

\* Selected goes through the positions one by one.
LEMMA SelectedUnfolds ==
  ASSUME NEW S, NEW s \in Seq(S), NEW K
  PROVE  \E g : Takes(g, s, S, K) /\ Selected(s, K) = g[Len(s)]
<1> DEFINE N == Len(s)
           body(g, i) == IF i = 0 THEN <<>> ELSE IF i \in K THEN Append(g[i - 1], s[i]) ELSE g[i - 1]
           next == [i \in 1 .. N |-> [x \in Seq(S) |-> IF i \in K THEN Append(x, s[i]) ELSE x]]
           taken == CHOOSE g : g = [i \in 0 .. N |-> body(g, i)]
<1>1. N \in Nat /\ <<>> \in Seq(S) /\ next \in [1 .. N -> [Seq(S) -> Seq(S)]]
  OBVIOUS
<1>2. \A i \in 1 .. N : \A x \in Seq(S) : next[i][x] = IF i \in K THEN Append(x, s[i]) ELSE x
  OBVIOUS
<1> HIDE DEF next, N
<1>a. PICK g : Iterates(g, N, Seq(S), <<>>, next)
  BY ONLY <1>1, RecursiveFunction, Zenon
<1>3. g \in [0 .. N -> Seq(S)] /\ g[0] = <<>> /\ \A i \in 1 .. N : g[i] = next[i][g[i - 1]]
  BY ONLY <1>a DEF Iterates
<1>4. \A i \in 0 .. N : g[i] = body(g, i)
  <2> TAKE i \in 0 .. N
  <2>1. CASE i = 0
    BY ONLY <1>3, <2>1
  <2>2. CASE i # 0
    <3>1. i \in 1 .. N /\ i - 1 \in 0 .. N
      BY ONLY <1>1, <2>2, i \in 0 .. N
    <3>2. g[i - 1] \in Seq(S)
      BY ONLY <1>3, <3>1
    <3> QED
      BY ONLY <1>2, <1>3, <2>2, <3>1, <3>2, Zenon
  <2> QED
    BY <2>1, <2>2
<1> HIDE DEF body
<1>5. g = [i \in 0 .. N |-> body(g, i)]
  BY ONLY <1>3, <1>4
<1>6. taken = [i \in 0 .. N |-> body(taken, i)]
  BY ONLY <1>5, Zenon
<1>7. Selected(s, K) = taken[N]
  BY DEF Selected, body, N
<1> HIDE DEF taken
<1>8. \A i \in 0 .. N : taken[i] = body(taken, i)
  BY ONLY <1>6, Zenon
<1>9. ASSUME NEW i \in 1 .. N
      PROVE  taken[i] = IF i \in K THEN Append(taken[i - 1], s[i]) ELSE taken[i - 1]
  <2>1. i \in 0 .. N /\ i # 0
    BY ONLY <1>1, i \in 1 .. N
  <2> QED
    BY ONLY <1>8, <2>1 DEF body
<1>10. taken[0] = <<>>
  BY ONLY <1>1, <1>8 DEF body
<1>11. \A i \in 0 .. N : taken[i] \in Seq(S)
  <2> DEFINE Typed == {n \in Nat : n <= N => taken[n] \in Seq(S)}
  <2>0. taken[0] \in Seq(S)
    BY ONLY <1>10
  <2>1. 0 \in Typed
    BY ONLY <2>0
  <2>2. ASSUME NEW n \in Nat, n \in Typed, n + 1 <= N PROVE taken[n + 1] \in Seq(S)
    <3>1. n + 1 \in 1 .. N /\ (n + 1) - 1 = n /\ n <= N
      BY ONLY <1>1, <2>2
    <3>2. taken[n] \in Seq(S) /\ s[n + 1] \in S
      BY <2>2, <3>1 DEF N
    <3>3. taken[n + 1] = IF n + 1 \in K THEN Append(taken[n], s[n + 1]) ELSE taken[n]
      BY ONLY <1>9, <3>1
    <3> QED
      BY ONLY <3>2, <3>3
  <2>3. Nat \subseteq Typed
    <3>1. \A n \in Nat : n \in Typed => n + 1 \in Typed
      BY <2>2
    <3> HIDE DEF Typed
    <3> QED
      BY ONLY <2>1, <3>1, SetInduction
  <2> QED
    BY ONLY <1>1, <2>3
<1>12. taken \in [0 .. N -> Seq(S)]
  BY ONLY <1>6, <1>8, <1>11
<1> QED
  BY <1>7, <1>9, <1>10, <1>12 DEF N, Takes

\* What is selected are the elements at these positions, in their order, and none
\* else; the first is the one at the least position.
LEMMA SelectedElements ==
  ASSUME NEW S, NEW s \in Seq(S), NEW K, K \subseteq 1 .. Len(s)
  PROVE  /\ Selected(s, K) \in Seq(S)
         /\ \A n \in 1 .. Len(Selected(s, K)) : \E k \in K : Selected(s, K)[n] = s[k]
         /\ \A k \in K : \E n \in 1 .. Len(Selected(s, K)) : Selected(s, K)[n] = s[k]
         /\ \A m, n \in 1 .. Len(Selected(s, K)) :
              m < n => \E j, k \in K : j < k /\ Selected(s, K)[m] = s[j] /\ Selected(s, K)[n] = s[k]
         /\ Selected(s, K) = <<>> <=> K = {}
         /\ K # {} => Min(K) \in K /\ Head(Selected(s, K)) = s[Min(K)]
<1> DEFINE N == Len(s)
<1>0. N \in Nat /\ (\A k \in K : k \in Nat /\ 1 <= k /\ k <= N) /\ \A i \in 1 .. N : s[i] \in S
  OBVIOUS
<1>a. PICK g : Takes(g, s, S, K) /\ Selected(s, K) = g[N]
  BY SelectedUnfolds
<1>1. /\ g \in [0 .. N -> Seq(S)] /\ g[0] = <<>>
      /\ \A i \in 1 .. N : g[i] = IF i \in K THEN Append(g[i - 1], s[i]) ELSE g[i - 1]
      /\ Selected(s, K) = g[N]
  BY <1>a DEF Takes
<1> HIDE DEF N
<1> DEFINE Upto(n) == {k \in K : k <= n}
           From(n) == \A m \in 1 .. Len(g[n]) : \E k \in Upto(n) : g[n][m] = s[k]
           All(n) == \A k \in Upto(n) : \E m \in 1 .. Len(g[n]) : g[n][m] = s[k]
           InOrder(n) == \A l, m \in 1 .. Len(g[n]) :
                           l < m => \E j, k \in Upto(n) : j < k /\ g[n][l] = s[j] /\ g[n][m] = s[k]
           First(n) == Len(g[n]) > 0 => \E k \in Upto(n) : g[n][1] = s[k] /\ \A j \in Upto(n) : k <= j
           Holds(n) == From(n) /\ All(n) /\ InOrder(n) /\ First(n)
           P == {n \in Nat : n <= N => Holds(n)}
<1>2. 0 \in P
  <2>1. Len(g[0]) = 0
    BY ONLY <1>1
  <2>2. Upto(0) = {}
    BY ONLY <1>0
  <2> QED
    BY ONLY <2>1, <2>2
<1>3. ASSUME NEW n \in Nat, n \in P, n + 1 <= N PROVE Holds(n + 1)
  <2>0. n <= N /\ n + 1 \in 1 .. N /\ n \in 0 .. N /\ (n + 1) - 1 = n
    BY ONLY <1>0, <1>3
  <2>a. Upto(n) \subseteq Upto(n + 1)
    BY ONLY <1>0, n \in Nat
  <2>b. g[n] \in Seq(S) /\ s[n + 1] \in S
    BY ONLY <1>0, <1>1, <2>0
  <2>1. /\ n <= N /\ n + 1 \in 1 .. N /\ (n + 1) - 1 = n
        /\ g[n] \in Seq(S) /\ s[n + 1] \in S /\ Len(g[n]) \in Nat
        /\ Upto(n) \subseteq Upto(n + 1)
    BY ONLY <2>0, <2>a, <2>b
  <2>2. From(n) /\ All(n) /\ InOrder(n) /\ First(n)
    <3>1. Holds(n)
      <4> HIDE DEF Holds
      <4> QED
        BY ONLY <1>3, <2>1
    <3> QED
      BY ONLY <3>1
  <2>3. CASE n + 1 \notin K
    <3>1. g[n + 1] = g[n]
      BY ONLY <1>1, <2>1, <2>3
    <3>2. Upto(n + 1) = Upto(n)
      <4>1. \A k \in K : k <= n + 1 <=> k <= n
        <5> TAKE k \in K
        <5>1. k \in Nat /\ k # n + 1
          BY ONLY <1>0, <2>3, k \in K
        <5> QED
          BY ONLY <5>1, n \in Nat
      <4> QED
        BY ONLY <4>1
    <3> QED
      BY ONLY <2>2, <3>1, <3>2
  <2>4. CASE n + 1 \in K
    <3> DEFINE t == g[n + 1]
               L == Len(g[n])
    <3>1. t = Append(g[n], s[n + 1])
      BY ONLY <1>1, <2>1, <2>4, Zenon
    <3>2. L \in Nat /\ Len(t) = L + 1 /\ t[L + 1] = s[n + 1] /\ \A m \in 1 .. L : t[m] = g[n][m]
      BY ONLY <2>1, <3>1
    <3>3. /\ n + 1 \in Upto(n + 1) /\ Upto(n + 1) = Upto(n) \cup {n + 1}
          /\ \A k \in Upto(n) : k \in Nat /\ k < n + 1
      <4>1. \A k \in K : k \in Nat /\ (k <= n + 1 <=> k <= n \/ k = n + 1) /\ (k <= n => k < n + 1)
        BY ONLY <1>0, n \in Nat
      <4>2. n + 1 <= n + 1
        BY ONLY n \in Nat
      <4> QED
        BY ONLY <2>4, <4>1, <4>2
    <3> HIDE DEF Upto, t
    <3>4. From(n + 1)
      <4> SUFFICES ASSUME NEW m \in 1 .. Len(t) PROVE \E k \in Upto(n + 1) : t[m] = s[k]
        BY DEF t
      <4>1. CASE m = L + 1
        BY ONLY <3>2, <3>3, <4>1
      <4>2. CASE m # L + 1
        <5>1. m \in 1 .. L
          BY ONLY <3>2, <4>2, m \in 1 .. Len(t)
        <5>2. PICK k \in Upto(n) : g[n][m] = s[k]
          BY ONLY <2>2, <5>1
        <5> QED
          BY ONLY <2>1, <3>2, <5>1, <5>2
      <4> QED
        BY <4>1, <4>2
    <3>5. All(n + 1)
      <4> SUFFICES ASSUME NEW k \in Upto(n + 1) PROVE \E m \in 1 .. Len(t) : t[m] = s[k]
        BY DEF t
      <4>1. CASE k = n + 1
        <5>1. L + 1 \in 1 .. Len(t)
          BY ONLY <3>2
        <5> QED
          BY ONLY <3>2, <4>1, <5>1
      <4>2. CASE k # n + 1
        <5>1. PICK m \in 1 .. L : g[n][m] = s[k]
          BY ONLY <2>2, <3>3, <4>2, k \in Upto(n + 1)
        <5>2. m \in 1 .. Len(t)
          BY ONLY <3>2, m \in 1 .. L
        <5> QED
          BY ONLY <3>2, <5>1, <5>2
      <4> QED
        BY <4>1, <4>2
    <3>6. InOrder(n + 1)
      <4> SUFFICES ASSUME NEW l \in 1 .. Len(t), NEW m \in 1 .. Len(t), l < m
                   PROVE  \E j, k \in Upto(n + 1) : j < k /\ t[l] = s[j] /\ t[m] = s[k]
        BY DEF t
      <4>0. l \in 1 .. L
        BY ONLY <3>2, l \in 1 .. Len(t), m \in 1 .. Len(t), l < m
      <4>1. CASE m = L + 1
        <5>1. PICK j \in Upto(n) : g[n][l] = s[j]
          BY ONLY <2>2, <4>0
        <5> QED
          BY ONLY <3>2, <3>3, <4>0, <4>1, <5>1
      <4>2. CASE m # L + 1
        <5>1. m \in 1 .. L
          BY ONLY <3>2, <4>2, m \in 1 .. Len(t)
        <5>2. PICK j \in Upto(n), k \in Upto(n) : j < k /\ g[n][l] = s[j] /\ g[n][m] = s[k]
          BY ONLY <2>2, <4>0, <5>1, l < m
        <5> QED
          BY ONLY <2>1, <3>2, <4>0, <5>1, <5>2
      <4> QED
        BY <4>1, <4>2
    <3>7. First(n + 1)
      <4> SUFFICES \E k \in Upto(n + 1) : t[1] = s[k] /\ \A j \in Upto(n + 1) : k <= j
        BY DEF t
      <4>1. CASE L = 0
        <5>1. Upto(n) = {}
          BY ONLY <2>2, <4>1
        <5> QED
          BY ONLY <3>2, <3>3, <4>1, <5>1, n \in Nat
      <4>2. CASE L # 0
        <5>1. L > 0 /\ 1 \in 1 .. L
          BY ONLY <3>2, <4>2
        <5>2. PICK k \in Upto(n) : g[n][1] = s[k] /\ \A j \in Upto(n) : k <= j
          BY ONLY <2>2, <5>1
        <5> QED
          BY ONLY <3>2, <3>3, <5>1, <5>2, n \in Nat
      <4> QED
        BY <4>1, <4>2
    <3> QED
      BY ONLY <3>4, <3>5, <3>6, <3>7
  <2> QED
    BY <2>3, <2>4
<1>4. N \in P
  <2>1. \A n \in Nat : n \in P => n + 1 \in P
    <3> HIDE DEF Holds
    <3> QED
      BY ONLY <1>0, <1>3
  <2> HIDE DEF P
  <2> QED
    BY <1>0, <1>2, <2>1, SetInduction
<1> DEFINE t == Selected(s, K)
<1>5. t \in Seq(S) /\ Len(t) \in Nat /\ Upto(N) = K /\ t = g[N]
  <2>1. g[N] \in Seq(S)
    BY ONLY <1>0, <1>1
  <2>2. Upto(N) = K
    BY ONLY <1>0
  <2> QED
    BY ONLY <1>1, <2>1, <2>2
<1>6. From(N) /\ All(N) /\ InOrder(N) /\ First(N)
  <2>1. Holds(N)
    <3> HIDE DEF Holds
    <3> QED
      BY ONLY <1>0, <1>4
  <2> QED
    BY ONLY <2>1
<1> HIDE DEF Upto, t
<1>7. /\ \A n \in 1 .. Len(t) : \E k \in K : t[n] = s[k]
      /\ \A k \in K : \E n \in 1 .. Len(t) : t[n] = s[k]
      /\ \A m, n \in 1 .. Len(t) : m < n => \E j, k \in K : j < k /\ t[m] = s[j] /\ t[n] = s[k]
      /\ Len(t) > 0 => \E k \in K : t[1] = s[k] /\ \A j \in K : k <= j
  BY ONLY <1>5, <1>6
<1>8. t = <<>> <=> K = {}
  <2>1. t = <<>> <=> Len(t) = 0
    BY ONLY <1>5
  <2>2. Len(t) # 0 => 1 \in 1 .. Len(t)
    BY ONLY <1>5
  <2> QED
    BY ONLY <1>7, <2>1, <2>2, <1>5
<1>9. ASSUME K # {} PROVE Min(K) \in K /\ Head(t) = s[Min(K)]
  <2>1. Min(K) \in K /\ \A k \in K : Min(K) <= k
    <3>1. K \in SUBSET Nat
      BY ONLY <1>0
    <3> QED
      BY ONLY <1>9, <3>1, MinOfNaturals
  <2>2. Len(t) > 0 /\ Head(t) = t[1]
    BY ONLY <1>5, <1>8, <1>9
  <2>3. PICK k \in K : t[1] = s[k] /\ \A j \in K : k <= j
    BY ONLY <1>7, <2>2
  <2>4. k \in Nat /\ Min(K) \in Nat /\ k <= Min(K) /\ Min(K) <= k
    BY ONLY <1>0, <2>1, <2>3, k \in K
  <2>5. k = Min(K)
    BY ONLY <2>4
  <2> QED
    BY ONLY <2>1, <2>2, <2>3, <2>5
<1> QED
  BY <1>5, <1>7, <1>8, <1>9, Zenon DEF t

-----------------------------------------------------------------------------
\* Where the elements of a concatenation come from.
Joins(t, a, b) ==
  /\ Len(a) \in Nat /\ Len(b) \in Nat /\ Len(t) = Len(a) + Len(b)
  /\ \A n \in 1 .. Len(a) : n \in 1 .. Len(t) /\ t[n] = a[n]
  /\ \A n \in 1 .. Len(b) : Len(a) + n \in 1 .. Len(t) /\ t[Len(a) + n] = b[n]
  /\ \A n \in 1 .. Len(t) : n \notin 1 .. Len(a) => n - Len(a) \in 1 .. Len(b) /\ t[n] = b[n - Len(a)]

\* The elements of a concatenation.
LEMMA ConcatElements ==
  ASSUME NEW S, NEW a \in Seq(S), NEW b \in Seq(S), NEW t, t = a \o b
  PROVE  t \in Seq(S) /\ Joins(t, a, b)
<1>1. t \in Seq(S) /\ Len(a) \in Nat /\ Len(b) \in Nat /\ Len(t) = Len(a) + Len(b)
  OBVIOUS
<1>2. ASSUME NEW n \in 1 .. Len(a) PROVE n \in 1 .. Len(t) /\ t[n] = a[n]
  OBVIOUS
<1>3. ASSUME NEW n \in 1 .. Len(b) PROVE Len(a) + n \in 1 .. Len(t) /\ t[Len(a) + n] = b[n]
  <2>1. Len(a) + n \in 1 .. Len(t) /\ ~(Len(a) + n <= Len(a)) /\ (Len(a) + n) - Len(a) = n
    BY ONLY <1>1, n \in 1 .. Len(b)
  <2> QED
    BY <1>1, <2>1
<1>4. ASSUME NEW n \in 1 .. Len(t), n \notin 1 .. Len(a)
      PROVE  n - Len(a) \in 1 .. Len(b) /\ t[n] = b[n - Len(a)]
  <2>1. n - Len(a) \in 1 .. Len(b) /\ ~(n <= Len(a))
    BY ONLY <1>1, <1>4
  <2> QED
    BY <1>1, <2>1
<1> QED
  BY <1>1, <1>2, <1>3, <1>4 DEF Joins

\* Lists without repetitions that share no element may be put after each other.
Apart(a, b) == Range(a) \cap Range(b) = {}
Unrepeated(s, S) == s \in Seq(S) /\ IsInjective(s)
HasAllOf(t, a, b) == Range(t) = Range(a) \cup Range(b)

\* Two sequences without repetition that share nothing have none together.
LEMMA ConcatInjective ==
  ASSUME NEW S, NEW a, NEW b, Unrepeated(a, S), Unrepeated(b, S), Apart(a, b), NEW t, t = a \o b
  PROVE  Unrepeated(t, S) /\ HasAllOf(t, a, b)
<1>0. a \in Seq(S) /\ b \in Seq(S) /\ IsInjective(a) /\ IsInjective(b)
  BY DEF Unrepeated
<1>1. t \in Seq(S) /\ Joins(t, a, b)
  BY ONLY <1>0, ConcatElements, t = a \o b, Zenon
<1>2. DOMAIN a = 1 .. Len(a) /\ DOMAIN b = 1 .. Len(b) /\ DOMAIN t = 1 .. Len(t) /\ Len(t) \in Nat
  BY <1>0, <1>1
<1>3. \A n \in DOMAIN a : n \in DOMAIN t /\ t[n] = a[n]
  BY ONLY <1>1, <1>2 DEF Joins
<1>4. \A n \in DOMAIN b : \E m \in DOMAIN t : t[m] = b[n]
  BY ONLY <1>1, <1>2 DEF Joins
<1>5. \A m \in DOMAIN t : m \notin DOMAIN a => m - Len(a) \in DOMAIN b /\ t[m] = b[m - Len(a)]
  BY ONLY <1>1, <1>2 DEF Joins
<1>6. Range(t) = Range(a) \cup Range(b)
  <2>1. Range(a) \cup Range(b) \subseteq Range(t)
    BY ONLY <1>3, <1>4 DEF Range
  <2>2. Range(t) \subseteq Range(a) \cup Range(b)
    BY ONLY <1>3, <1>5 DEF Range
  <2> QED
    BY ONLY <2>1, <2>2
<1>7. ASSUME NEW m \in DOMAIN t, NEW n \in DOMAIN t, t[m] = t[n] PROVE m = n
  <2>1. CASE m \in DOMAIN a /\ n \in DOMAIN a
    BY ONLY <1>0, <1>3, <1>7, <2>1 DEF IsInjective
  <2>2. CASE m \notin DOMAIN a /\ n \notin DOMAIN a
    <3>1. m - Len(a) = n - Len(a)
      BY ONLY <1>0, <1>5, <1>7, <2>2 DEF IsInjective
    <3>2. m \in Nat /\ n \in Nat /\ Len(a) \in Nat
      BY ONLY <1>1, <1>2, <1>7 DEF Joins
    <3> QED
      BY ONLY <3>1, <3>2
  <2>3. CASE m \in DOMAIN a /\ n \notin DOMAIN a
    BY ONLY <1>3, <1>5, <1>7, <2>3, Apart(a, b) DEF Range, Apart
  <2>4. CASE m \notin DOMAIN a /\ n \in DOMAIN a
    BY ONLY <1>3, <1>5, <1>7, <2>4, Apart(a, b) DEF Range, Apart
  <2> QED
    BY ONLY <2>1, <2>2, <2>3, <2>4
<1> QED
  BY ONLY <1>1, <1>6, <1>7 DEF IsInjective, Unrepeated, HasAllOf

\* What Joined has put together after each of the sequences.
Concats(h, seqs, S) ==
  /\ h \in [0 .. Len(seqs) -> Seq(S)]
  /\ h[0] = <<>>
  /\ \A i \in 1 .. Len(seqs) : h[i] = h[i - 1] \o seqs[i]

\* Joined appends the sequences one by one.
LEMMA JoinedUnfolds ==
  ASSUME NEW S, NEW seqs \in Seq(Seq(S))
  PROVE  \E h : Concats(h, seqs, S) /\ Joined(seqs) = h[Len(seqs)]
<1> DEFINE N == Len(seqs)
           body(f, i) == IF i = 0 THEN <<>> ELSE f[i - 1] \o seqs[i]
           next == [i \in 1 .. N |-> [x \in Seq(S) |-> x \o seqs[i]]]
           joined == CHOOSE f : f = [i \in 0 .. N |-> body(f, i)]
<1>1. N \in Nat /\ <<>> \in Seq(S) /\ \A i \in 1 .. N : seqs[i] \in Seq(S)
  OBVIOUS
<1>2. /\ next \in [1 .. N -> [Seq(S) -> Seq(S)]]
      /\ \A i \in 1 .. N : \A x \in Seq(S) : next[i][x] = x \o seqs[i]
  BY ONLY <1>1
<1>3. Joined(seqs) = joined[N]
  BY DEF Joined
<1> HIDE DEF next, N
<1>4. PICK g : Iterates(g, N, Seq(S), <<>>, next)
  BY ONLY <1>1, <1>2, RecursiveFunction, Zenon
<1>5. g \in [0 .. N -> Seq(S)] /\ g[0] = <<>> /\ \A i \in 1 .. N : g[i] = next[i][g[i - 1]]
  BY ONLY <1>4 DEF Iterates
<1>6. \A i \in 0 .. N : g[i] = body(g, i)
  <2> TAKE i \in 0 .. N
  <2>1. CASE i = 0
    BY ONLY <1>5, <2>1
  <2>2. CASE i # 0
    <3>1. i \in 1 .. N /\ i - 1 \in 0 .. N
      BY ONLY <1>1, <2>2, i \in 0 .. N
    <3>2. g[i - 1] \in Seq(S)
      BY ONLY <1>5, <3>1
    <3> QED
      BY ONLY <1>2, <1>5, <2>2, <3>1, <3>2, Zenon
  <2> QED
    BY <2>1, <2>2
<1> HIDE DEF body
<1>7. g = [i \in 0 .. N |-> body(g, i)]
  BY ONLY <1>5, <1>6
<1>8. joined = [i \in 0 .. N |-> body(joined, i)]
  BY ONLY <1>7, Zenon
<1> HIDE DEF joined
<1>9. \A i \in 0 .. N : joined[i] = body(joined, i)
  BY ONLY <1>8, Zenon
<1>10. joined[0] = <<>>
  BY ONLY <1>1, <1>9 DEF body
<1>11. ASSUME NEW i \in 1 .. N PROVE joined[i] = joined[i - 1] \o seqs[i]
  <2>1. i \in 0 .. N /\ i # 0
    BY ONLY <1>1, i \in 1 .. N
  <2> QED
    BY ONLY <1>9, <2>1, Zenon DEF body
<1>12. \A i \in 0 .. N : joined[i] \in Seq(S)
  <2> DEFINE Typed == {n \in Nat : n <= N => joined[n] \in Seq(S)}
  <2>0. joined[0] \in Seq(S)
    BY ONLY <1>1, <1>10
  <2>1. 0 \in Typed
    BY ONLY <2>0
  <2>2. ASSUME NEW n \in Nat, n \in Typed, n + 1 <= N PROVE joined[n + 1] \in Seq(S)
    <3>1. n + 1 \in 1 .. N /\ (n + 1) - 1 = n /\ n <= N
      BY ONLY <1>1, <2>2
    <3>2. joined[n] \in Seq(S) /\ seqs[n + 1] \in Seq(S)
      BY ONLY <1>1, <2>2, <3>1
    <3>3. joined[n + 1] = joined[n] \o seqs[n + 1]
      BY ONLY <1>11, <3>1, Zenon
    <3> QED
      BY ONLY <3>2, <3>3
  <2>3. Nat \subseteq Typed
    <3>1. \A n \in Nat : n \in Typed => n + 1 \in Typed
      BY ONLY <1>1, <2>2
    <3> HIDE DEF Typed
    <3> QED
      BY ONLY <2>1, <3>1, SetInduction, Zenon
  <2> QED
    BY ONLY <1>1, <2>3
<1>13. joined \in [0 .. N -> Seq(S)]
  BY ONLY <1>8, <1>9, <1>12
<1> QED
  BY <1>3, <1>10, <1>11, <1>13, Zenon DEF N, Concats

\* What is joined are the elements of the sequences, in their order.
LEMMA JoinedElements ==
  ASSUME NEW S, NEW seqs \in Seq(Seq(S))
  PROVE  /\ Joined(seqs) \in Seq(S)
         /\ \A n \in 1 .. Len(Joined(seqs)) :
              \E i \in 1 .. Len(seqs) : \E m \in 1 .. Len(seqs[i]) : Joined(seqs)[n] = seqs[i][m]
         /\ \A i \in 1 .. Len(seqs) : \A m \in 1 .. Len(seqs[i]) :
              \E n \in 1 .. Len(Joined(seqs)) : Joined(seqs)[n] = seqs[i][m]
         /\ Joined(seqs) = <<>> <=> \A i \in 1 .. Len(seqs) : seqs[i] = <<>>
<1> DEFINE N == Len(seqs)
<1>0. N \in Nat /\ \A i \in 1 .. N : seqs[i] \in Seq(S)
  OBVIOUS
<1>a. PICK h : Concats(h, seqs, S) /\ Joined(seqs) = h[N]
  BY JoinedUnfolds
<1>1. /\ h \in [0 .. N -> Seq(S)] /\ h[0] = <<>>
      /\ \A i \in 1 .. N : h[i] = h[i - 1] \o seqs[i]
  BY ONLY <1>a, Zenon DEF Concats
<1> HIDE DEF N
<1> DEFINE From(k) == \A n \in 1 .. Len(h[k]) :
                        \E i \in 1 .. k : \E m \in 1 .. Len(seqs[i]) : h[k][n] = seqs[i][m]
           All(k) == \A i \in 1 .. k : \A m \in 1 .. Len(seqs[i]) :
                       \E n \in 1 .. Len(h[k]) : h[k][n] = seqs[i][m]
           Holds(k) == From(k) /\ All(k)
           P == {k \in Nat : k <= N => Holds(k)}
<1>2. 0 \in P
  <2>1. Len(h[0]) = 0
    BY ONLY <1>1
  <2> QED
    BY ONLY <2>1
<1>3. ASSUME NEW k \in Nat, k \in P, k + 1 <= N PROVE Holds(k + 1)
  <2> DEFINE a == h[k]
             b == seqs[k + 1]
             t == h[k + 1]
  <2>0. k <= N /\ k + 1 \in 1 .. N /\ k \in 0 .. N /\ (k + 1) - 1 = k
    BY ONLY <1>0, <1>3
  <2>1. a \in Seq(S) /\ b \in Seq(S) /\ t = a \o b
    BY ONLY <1>0, <1>1, <2>0, Zenon
  <2>2. From(k) /\ All(k)
    <3>1. Holds(k)
      <4> HIDE DEF Holds
      <4> QED
        BY ONLY <1>3, <2>0
    <3> QED
      BY ONLY <3>1
  <2> HIDE DEF t
  <2>3. /\ Len(a) \in Nat /\ Len(b) \in Nat /\ Len(t) = Len(a) + Len(b)
        /\ \A n \in 1 .. Len(a) : n \in 1 .. Len(t) /\ t[n] = a[n]
        /\ \A n \in 1 .. Len(b) : Len(a) + n \in 1 .. Len(t) /\ t[Len(a) + n] = b[n]
        /\ \A n \in 1 .. Len(t) : n \notin 1 .. Len(a) =>
             n - Len(a) \in 1 .. Len(b) /\ t[n] = b[n - Len(a)]
    <3>1. Joins(t, a, b)
      BY ONLY <2>1, ConcatElements, Zenon
    <3> QED
      BY ONLY <3>1, Zenon DEF Joins
  <2>4. From(k + 1)
    <3> SUFFICES ASSUME NEW n \in 1 .. Len(t)
                 PROVE  \E i \in 1 .. k + 1 : \E m \in 1 .. Len(seqs[i]) : t[n] = seqs[i][m]
      BY Zenon DEF t
    <3>1. CASE n \in 1 .. Len(a)
      <4>1. PICK i \in 1 .. k : \E m \in 1 .. Len(seqs[i]) : a[n] = seqs[i][m]
        BY ONLY <2>2, <3>1, Zenon
      <4>2. i \in 1 .. k + 1
        BY ONLY i \in 1 .. k, k \in Nat
      <4> QED
        BY ONLY <2>3, <3>1, <4>1, <4>2, Zenon
    <3>2. CASE n \notin 1 .. Len(a)
      <4>1. k + 1 \in 1 .. k + 1
        BY ONLY k \in Nat
      <4> QED
        BY ONLY <2>3, <3>2, <4>1, n \in 1 .. Len(t), Zenon
    <3> QED
      BY <3>1, <3>2
  <2>5. All(k + 1)
    <3> SUFFICES ASSUME NEW i \in 1 .. k + 1, NEW m \in 1 .. Len(seqs[i])
                 PROVE  \E n \in 1 .. Len(t) : t[n] = seqs[i][m]
      BY Zenon DEF t
    <3>1. CASE i = k + 1
      BY ONLY <2>3, <3>1, m \in 1 .. Len(seqs[i]), Zenon
    <3>2. CASE i # k + 1
      <4>1. i \in 1 .. k
        BY ONLY <3>2, i \in 1 .. k + 1, k \in Nat
      <4>2. PICK n \in 1 .. Len(a) : a[n] = seqs[i][m]
        BY ONLY <2>2, <4>1, m \in 1 .. Len(seqs[i]), Zenon
      <4> QED
        BY ONLY <2>3, <4>2, Zenon
    <3> QED
      BY <3>1, <3>2
  <2> QED
    BY ONLY <2>4, <2>5
<1>4. Holds(N)
  <2> HIDE DEF Holds
  <2>1. \A k \in Nat : k \in P => k + 1 \in P
    BY ONLY <1>0, <1>3
  <2>2. N \in P
    <3> HIDE DEF P
    <3> QED
      BY ONLY <1>0, <1>2, <2>1, SetInduction, Zenon
  <2> QED
    BY ONLY <1>0, <2>2
<1> DEFINE t == Joined(seqs)
<1>5. t \in Seq(S) /\ t = h[N]
  BY ONLY <1>0, <1>1, <1>a
<1> HIDE DEF t
<1>6. /\ \A n \in 1 .. Len(t) : \E i \in 1 .. N : \E m \in 1 .. Len(seqs[i]) : t[n] = seqs[i][m]
      /\ \A i \in 1 .. N : \A m \in 1 .. Len(seqs[i]) : \E n \in 1 .. Len(t) : t[n] = seqs[i][m]
  BY ONLY <1>4, <1>5
<1>7. t = <<>> <=> \A i \in 1 .. N : seqs[i] = <<>>
  <2>1. /\ Len(t) \in Nat /\ (t = <<>> <=> Len(t) = 0)
        /\ \A i \in 1 .. N : Len(seqs[i]) \in Nat /\ (seqs[i] = <<>> <=> Len(seqs[i]) = 0)
    BY ONLY <1>0, <1>5
  <2>2. ASSUME t = <<>>, NEW i \in 1 .. N PROVE seqs[i] = <<>>
    <3>1. 1 \notin 1 .. Len(seqs[i])
      BY ONLY <1>6, <2>1, <2>2
    <3> QED
      BY ONLY <2>1, <3>1, i \in 1 .. N
  <2>3. ASSUME \A i \in 1 .. N : seqs[i] = <<>> PROVE t = <<>>
    <3>1. 1 \notin 1 .. Len(t)
      BY ONLY <1>6, <2>1, <2>3
    <3> QED
      BY ONLY <2>1, <3>1
  <2> QED
    BY <2>2, <2>3
<1> QED
  BY <1>5, <1>6, <1>7 DEF t, N
=============================================================================
