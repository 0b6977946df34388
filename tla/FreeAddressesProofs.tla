------------------------- MODULE FreeAddressesProofs -------------------------
(***************************************************************************)
(* The scan for free addresses, for bytes of any number of bits, addresses *)
(* of any number of bytes, any limit and any request: what inc and         *)
(* incSubnet do to the number an address stands for, which addresses one   *)
(* subnetwork lists, and from these the invariant of the scan.             *)
(***************************************************************************)
EXTENDS FreeAddresses, SequenceLemmas
-----------------------------------------------------------------------------
(***************************************************************************)
(* The numbers that bits and digits stand for.  The functions inside       *)
(* PowerOf2 and ValueOf get a name and the equations that define them; the *)
(* rest follows by induction on the number of bits or digits.              *)
(***************************************************************************)
\* A function that holds the powers of two up to the n-th.
Doubles(p, n) ==
  /\ p \in [0 .. n -> Nat \ {0}]
  /\ p[0] = 1
  /\ \A k \in 1 .. n : p[k] = 2 * p[k - 1]

\* PowerOf2 doubles one as often as it is told.
LEMMA PowerUnfolds ==
  ASSUME NEW N \in Nat
  PROVE  \E p : Doubles(p, N) /\ PowerOf2(N) = p[N]
<1> DEFINE T == Nat \ {0}
           body(p, k) == IF k = 0 THEN 1 ELSE 2 * p[k - 1]
           next == [k \in 1 .. N |-> [x \in T |-> 2 * x]]
           power == CHOOSE p : p = [k \in 0 .. N |-> body(p, k)]
<1>1. 1 \in T /\ next \in [1 .. N -> [T -> T]]
  OBVIOUS
<1>2. \A k \in 1 .. N : \A x \in T : next[k][x] = 2 * x
  OBVIOUS
<1> HIDE DEF next, T
<1>a. PICK g : Iterates(g, N, T, 1, next)
  BY ONLY <1>1, N \in Nat, RecursiveFunction, Zenon
<1>3. g \in [0 .. N -> T] /\ g[0] = 1 /\ \A k \in 1 .. N : g[k] = next[k][g[k - 1]]
  BY ONLY <1>a DEF Iterates
<1>4. ASSUME NEW k \in 1 .. N PROVE k - 1 \in 0 .. N /\ k # 0
  BY ONLY k \in 1 .. N, N \in Nat
<1>5. \A k \in 0 .. N : g[k] = body(g, k)
  <2> TAKE k \in 0 .. N
  <2>1. CASE k = 0
    BY ONLY <1>3, <2>1
  <2>2. CASE k # 0
    <3>1. k \in 1 .. N
      BY ONLY <2>2, k \in 0 .. N, N \in Nat
    <3> QED
      BY ONLY <1>2, <1>3, <1>4, <2>2, <3>1
  <2> QED
    BY <2>1, <2>2
<1> HIDE DEF body
<1>6. g = [k \in 0 .. N |-> body(g, k)]
  BY ONLY <1>3, <1>5
<1>7. power = [k \in 0 .. N |-> body(power, k)]
  BY ONLY <1>6, Zenon
<1>8. PowerOf2(N) = power[N]
  BY DEF PowerOf2, body
<1> HIDE DEF power
<1>9. power[0] = 1 /\ \A k \in 1 .. N : power[k] = 2 * power[k - 1]
  BY ONLY <1>7, N \in Nat DEF body
<1>10. \A k \in 0 .. N : power[k] \in T
  <2> DEFINE Typed == {k \in Nat : k <= N => power[k] \in T}
  <2>1. 0 \in Typed
    BY ONLY <1>1, <1>9
  <2>2. \A k \in Nat : k \in Typed => k + 1 \in Typed
    BY ONLY <1>9, N \in Nat DEF T
  <2>3. Nat \subseteq Typed
    <3> HIDE DEF Typed
    <3> QED
      BY ONLY <2>1, <2>2, SetInduction
  <2> QED
    BY ONLY <2>3, N \in Nat
<1> QED
  BY ONLY <1>7, <1>8, <1>9, <1>10, Zenon DEF Doubles, T

\* The powers of two by recursion.
LEMMA PowerRecursion ==
  /\ PowerOf2(0) = 1
  /\ \A n \in Nat : PowerOf2(n) \in Nat \ {0} /\ PowerOf2(n + 1) = 2 * PowerOf2(n)
<1>1. PowerOf2(0) = 1
  <2>1. PICK p : Doubles(p, 0) /\ PowerOf2(0) = p[0]
    BY PowerUnfolds
  <2> QED
    BY <2>1 DEF Doubles
<1>2. ASSUME NEW n \in Nat
      PROVE  PowerOf2(n) \in Nat \ {0} /\ PowerOf2(n + 1) = 2 * PowerOf2(n)
  <2>1. PICK p : Doubles(p, n) /\ PowerOf2(n) = p[n]
    BY PowerUnfolds
  <2>2. PICK q : Doubles(q, n + 1) /\ PowerOf2(n + 1) = q[n + 1]
    BY PowerUnfolds
  <2> DEFINE Same == {k \in Nat : k <= n => p[k] = q[k]}
  <2>3. 0 \in Same /\ \A k \in Nat : k \in Same => k + 1 \in Same
    BY <2>1, <2>2 DEF Doubles
  <2>4. Nat \subseteq Same
    <3> HIDE DEF Same
    <3> QED
      BY ONLY <2>3, SetInduction
  <2>5. p[n] = q[n] /\ q[n + 1] = 2 * q[n] /\ p[n] \in Nat \ {0}
    BY ONLY <2>1, <2>2, <2>4, n \in Nat DEF Doubles
  <2> QED
    BY ONLY <2>1, <2>2, <2>5
<1> QED
  BY <1>1, <1>2

\* The exponents of a product add up.
LEMMA PowerSum ==
  ASSUME NEW a \in Nat, NEW b \in Nat
  PROVE  PowerOf2(a + b) = PowerOf2(a) * PowerOf2(b)
<1> DEFINE Good == {n \in Nat : PowerOf2(a + n) = PowerOf2(a) * PowerOf2(n)}
<1>1. 0 \in Good
  BY PowerRecursion
<1>2. ASSUME NEW n \in Nat, n \in Good PROVE n + 1 \in Good
  <2>1. /\ PowerOf2(a + n) = PowerOf2(a) * PowerOf2(n)
        /\ a + (n + 1) = (a + n) + 1 /\ a + n \in Nat
    BY <1>2
  <2>2. /\ PowerOf2((a + n) + 1) = 2 * PowerOf2(a + n)
        /\ PowerOf2(n + 1) = 2 * PowerOf2(n)
        /\ PowerOf2(a) \in Nat /\ PowerOf2(n) \in Nat
    BY ONLY <2>1, PowerRecursion, a \in Nat, n \in Nat
  <2>3. 2 * (PowerOf2(a) * PowerOf2(n)) = PowerOf2(a) * (2 * PowerOf2(n))
    BY ONLY <2>2
  <2>4. PowerOf2(a + (n + 1)) = PowerOf2(a) * PowerOf2(n + 1)
    BY ONLY <2>1, <2>2, <2>3
  <2> QED
    BY ONLY <2>4, n \in Nat
<1>3. Nat \subseteq Good
  <2>1. \A n \in Nat : n \in Good => n + 1 \in Good
    BY <1>2
  <2> HIDE DEF Good
  <2> QED
    BY ONLY <1>1, <2>1, SetInduction
<1> QED
  BY <1>3

-----------------------------------------------------------------------------
\* The digits a number is written with.
Digits(base, n) == [0 .. n - 1 -> 0 .. base - 1]

\* A function that holds the values of the first digits, from none up to n.
Evaluates(v, d, base, n) ==
  /\ v \in [0 .. n -> Nat]
  /\ v[0] = 0
  /\ \A k \in 1 .. n : v[k] = v[k - 1] * base + d[k - 1]

\* ValueOf reads the digits one by one.
LEMMA ValueUnfolds ==
  ASSUME NEW base \in Nat, NEW N \in Nat, NEW d \in Digits(base, N)
  PROVE  \E v : Evaluates(v, d, base, N) /\ ValueOf(d, base, N) = v[N]
<1> DEFINE body(v, k) == IF k = 0 THEN 0 ELSE v[k - 1] * base + d[k - 1]
           next == [k \in 1 .. N |-> [x \in Nat |-> x * base + d[k - 1]]]
           value == CHOOSE v : v = [k \in 0 .. N |-> body(v, k)]
<1>0. \A k \in 1 .. N : d[k - 1] \in Nat
  <2>1. \A k \in 1 .. N : k - 1 \in 0 .. N - 1
    BY ONLY N \in Nat
  <2>2. \A k \in 0 .. N - 1 : d[k] \in Nat
    BY DEF Digits
  <2> QED
    BY ONLY <2>1, <2>2
<1>1. next \in [1 .. N -> [Nat -> Nat]]
  <2>1. ASSUME NEW k \in 1 .. N PROVE [x \in Nat |-> x * base + d[k - 1]] \in [Nat -> Nat]
    <3> DEFINE e == d[k - 1]
    <3>1. e \in Nat
      BY <1>0
    <3> HIDE DEF e
    <3>2. \A x \in Nat : x * base + e \in Nat
      BY ONLY <3>1, base \in Nat
    <3> QED
      BY ONLY <3>2, Zenon DEF e
  <2> QED
    BY ONLY <2>1, Zenon
<1>2. \A k \in 1 .. N : \A x \in Nat : next[k][x] = x * base + d[k - 1]
  OBVIOUS
<1> HIDE DEF next
<1>a. PICK g : Iterates(g, N, Nat, 0, next)
  BY ONLY <1>1, N \in Nat, 0 \in Nat, RecursiveFunction, Zenon
<1>3. g \in [0 .. N -> Nat] /\ g[0] = 0 /\ \A k \in 1 .. N : g[k] = next[k][g[k - 1]]
  BY ONLY <1>a DEF Iterates
<1>4. \A k \in 1 .. N : k - 1 \in 0 .. N /\ k # 0
  BY ONLY N \in Nat
<1>5. \A k \in 0 .. N : g[k] = body(g, k)
  <2> TAKE k \in 0 .. N
  <2>1. CASE k = 0
    BY ONLY <1>3, <2>1
  <2>2. CASE k # 0
    <3>1. k \in 1 .. N
      BY ONLY <2>2, k \in 0 .. N, N \in Nat
    <3>2. g[k - 1] \in Nat
      BY ONLY <1>3, <1>4, <3>1
    <3>3. g[k] = g[k - 1] * base + d[k - 1]
      BY ONLY <1>2, <1>3, <3>1, <3>2, Zenon
    <3> QED
      BY ONLY <2>2, <3>3
  <2> QED
    BY <2>1, <2>2
<1> HIDE DEF body
<1>6. g = [k \in 0 .. N |-> body(g, k)]
  BY ONLY <1>3, <1>5
<1>7. value = [k \in 0 .. N |-> body(value, k)]
  BY ONLY <1>6, Zenon
<1>8. ValueOf(d, base, N) = value[N]
  BY DEF ValueOf, body
<1> HIDE DEF value
<1>9. value[0] = 0 /\ \A k \in 1 .. N : value[k] = value[k - 1] * base + d[k - 1]
  BY ONLY <1>7, N \in Nat DEF body
<1>10. \A k \in 0 .. N : value[k] \in Nat
  <2> DEFINE Typed == {k \in Nat : k <= N => value[k] \in Nat}
  <2>1. 0 \in Typed
    BY ONLY <1>9
  <2>2. ASSUME NEW k \in Nat, k \in Typed, k + 1 <= N PROVE value[k + 1] \in Nat
    <3>1. k + 1 \in 1 .. N /\ (k + 1) - 1 = k /\ value[k] \in Nat
      BY ONLY <2>2, N \in Nat
    <3>2. value[k + 1] = value[k] * base + d[k] /\ d[k] \in Nat
      BY ONLY <1>0, <1>9, <3>1, Zenon
    <3> QED
      BY ONLY <3>1, <3>2, base \in Nat
  <2>3. \A k \in Nat : k \in Typed => k + 1 \in Typed
    BY ONLY <2>2
  <2>4. Nat \subseteq Typed
    <3> HIDE DEF Typed
    <3> QED
      BY ONLY <2>1, <2>3, SetInduction
  <2> QED
    BY ONLY <2>4, N \in Nat
<1> QED
  BY ONLY <1>7, <1>8, <1>9, <1>10, Zenon DEF Evaluates

\* One digit more: the values of a function that Evaluates holds, with their types.
LEMMA NextDigit ==
  ASSUME NEW base \in Nat, NEW N \in Nat, NEW d \in Digits(base, N), NEW v, Evaluates(v, d, base, N),
         NEW j \in Nat, j + 1 <= N
  PROVE  /\ v[j] \in Nat /\ v[j + 1] \in Nat
         /\ d[j] \in Nat /\ d[j] <= base - 1
         /\ v[j + 1] = v[j] * base + d[j]
<1>1. j \in 0 .. N - 1 /\ j \in 0 .. N /\ j + 1 \in 1 .. N /\ (j + 1) - 1 = j /\ j + 1 \in 0 .. N
  OBVIOUS
<1>2. d[j] \in 0 .. base - 1
  BY ONLY <1>1, d \in Digits(base, N) DEF Digits
<1>3. v[j] \in Nat /\ v[j + 1] \in Nat
  BY ONLY <1>1, Evaluates(v, d, base, N) DEF Evaluates
<1>4. \A k \in 1 .. N : v[k] = v[k - 1] * base + d[k - 1]
  BY ONLY Evaluates(v, d, base, N) DEF Evaluates
<1>5. v[j + 1] = v[j] * base + d[j]
  BY ONLY <1>1, <1>4
<1> QED
  BY ONLY <1>2, <1>3, <1>5, base \in Nat

\* The value of j digits of b bits is a number of b * j bits.
LEMMA ValueBound ==
  ASSUME NEW b \in Nat, NEW N \in Nat, NEW d \in Digits(PowerOf2(b), N), NEW v,
         Evaluates(v, d, PowerOf2(b), N), NEW j \in 0 .. N
  PROVE  v[j] \in Nat /\ v[j] < PowerOf2(b * j)
<1> DEFINE base == PowerOf2(b)
           Bounded == {k \in Nat : k <= N => v[k] \in Nat /\ v[k] < PowerOf2(b * k)}
<1>0. base \in Nat
  BY PowerRecursion
<1>1. 0 \in Bounded
  <2>1. v[0] = 0 /\ b * 0 = 0
    BY DEF Evaluates
  <2> QED
    BY ONLY <2>1, PowerRecursion
<1>2. ASSUME NEW k \in Nat, k \in Bounded, k + 1 <= N PROVE v[k + 1] \in Nat /\ v[k + 1] < PowerOf2(b * (k + 1))
  <2>1. v[k] < PowerOf2(b * k)
    BY ONLY <1>2, N \in Nat
  <2> HIDE DEF base, Bounded
  <2>2. /\ v[k] \in Nat /\ d[k] \in Nat /\ d[k] <= base - 1
        /\ v[k + 1] = v[k] * base + d[k] /\ v[k + 1] \in Nat
    <3>1. d \in Digits(base, N) /\ Evaluates(v, d, base, N)
      BY DEF base
    <3> QED
      BY ONLY <1>0, <3>1, NextDigit, k \in Nat, k + 1 <= N, N \in Nat
  <2>3. b * (k + 1) = b * k + b /\ b * k \in Nat
    BY ONLY b \in Nat, k \in Nat
  <2>4. PowerOf2(b * (k + 1)) = PowerOf2(b * k) * base /\ PowerOf2(b * k) \in Nat
    BY ONLY <2>3, b \in Nat, PowerSum, PowerRecursion, Zenon DEF base
  <2> DEFINE P == PowerOf2(b * k)
  <2>5. P \in Nat /\ v[k] + 1 <= P
    BY ONLY <2>1, <2>2, <2>4
  <2> HIDE DEF P
  <2>6. (v[k] + 1) * base <= P * base
    BY ONLY <1>0, <2>2, <2>5
  <2>7. v[k] * base + d[k] < P * base
    BY ONLY <1>0, <2>2, <2>5, <2>6
  <2> QED
    BY ONLY <2>2, <2>4, <2>7 DEF P
<1>3. Nat \subseteq Bounded
  <2>1. \A k \in Nat : k \in Bounded => k + 1 \in Bounded
    BY ONLY <1>2
  <2> HIDE DEF Bounded
  <2> QED
    BY ONLY <1>1, <2>1, SetInduction
<1> QED
  BY ONLY <1>3, j \in 0 .. N, N \in Nat

\* Two numbers with the same value are written with the same digits.
LEMMA ValueInjective ==
  ASSUME NEW base \in Nat, NEW N \in Nat, NEW d \in Digits(base, N), NEW e \in Digits(base, N),
         ValueOf(d, base, N) = ValueOf(e, base, N)
  PROVE  d = e
<1>1. PICK v : Evaluates(v, d, base, N) /\ ValueOf(d, base, N) = v[N]
  BY ValueUnfolds
<1>2. PICK w : Evaluates(w, e, base, N) /\ ValueOf(e, base, N) = w[N]
  BY ValueUnfolds
<1>3. ASSUME NEW k \in Nat, k + 1 <= N, v[k + 1] = w[k + 1]
      PROVE  v[k] = w[k] /\ d[k] = e[k]
  <2>1. v[k] \in Nat /\ d[k] \in Nat /\ d[k] <= base - 1 /\ v[k + 1] = v[k] * base + d[k]
    BY ONLY <1>1, <1>3, NextDigit, base \in Nat, N \in Nat, d \in Digits(base, N), k \in Nat
  <2>2. w[k] \in Nat /\ e[k] \in Nat /\ e[k] <= base - 1 /\ w[k + 1] = w[k] * base + e[k]
    BY ONLY <1>2, <1>3, NextDigit, base \in Nat, N \in Nat, e \in Digits(base, N), k \in Nat
  <2>3. \A p, q, x, y \in Nat :
          x <= base - 1 /\ y <= base - 1 /\ p * base + x = q * base + y => p = q /\ x = y
    <3> SUFFICES ASSUME NEW p \in Nat, NEW q \in Nat, NEW x \in Nat, NEW y \in Nat,
                        x <= base - 1, y <= base - 1, p * base + x = q * base + y
                 PROVE  p = q /\ x = y
      BY Zenon
    <3>1. p < q => p * base + base <= q * base
      BY ONLY p \in Nat, q \in Nat, base \in Nat
    <3>2. q < p => q * base + base <= p * base
      BY ONLY p \in Nat, q \in Nat, base \in Nat
    <3> QED
      BY <3>1, <3>2
  <2> QED
    BY ONLY <1>3, <2>1, <2>2, <2>3, Zenon
<1> DEFINE Same == {i \in Nat : i <= N => v[N - i] = w[N - i]}
<1>4. 0 \in Same
  <2>1. v[N] = w[N]
    BY <1>1, <1>2, Zenon
  <2>2. N - 0 = N
    OBVIOUS
  <2> QED
    BY ONLY <2>1, <2>2
<1>5. ASSUME NEW i \in Nat, i \in Same, i + 1 <= N PROVE v[N - (i + 1)] = w[N - (i + 1)]
  <2>1. v[N - i] = w[N - i] /\ N - (i + 1) \in Nat /\ (N - (i + 1)) + 1 = N - i /\ N - i <= N
    BY ONLY <1>5, N \in Nat
  <2> QED
    BY ONLY <1>3, <2>1
<1>6. Nat \subseteq Same
  <2>1. \A i \in Nat : i \in Same => i + 1 \in Same
    BY ONLY <1>5
  <2> HIDE DEF Same
  <2> QED
    BY ONLY <1>4, <2>1, SetInduction
<1>7. ASSUME NEW k \in 0 .. N - 1 PROVE d[k] = e[k]
  <2>1. N - (k + 1) \in Nat /\ N - (k + 1) <= N /\ N - (N - (k + 1)) = k + 1 /\ k \in Nat /\ k + 1 <= N
    BY ONLY N \in Nat, k \in 0 .. N - 1
  <2>2. v[k + 1] = w[k + 1]
    BY ONLY <1>6, <2>1
  <2> QED
    BY ONLY <1>3, <2>1, <2>2
<1> QED
  BY ONLY <1>7, d \in Digits(base, N), e \in Digits(base, N) DEF Digits

\* One more, or zero if that does not fit into the given number of bits.
OneMore(x, bits) == IF x + 1 = PowerOf2(bits) THEN 0 ELSE x + 1

\* The digit j of d, with a carry that comes in behind digit m - 1 and goes on as
\* long as the digits overflow.
CarriedDigit(d, base, j, m) ==
  IF \A k \in j + 1 .. m - 1 : d[k] = base - 1 THEN (d[j] + 1) % base ELSE d[j]

\* A carry into the first m digits adds one to their value.
LEMMA CarryAddsOne ==
  ASSUME NEW b \in Nat, NEW N \in Nat,
         NEW d \in Digits(PowerOf2(b), N), NEW e \in Digits(PowerOf2(b), N), NEW v, NEW w,
         Evaluates(v, d, PowerOf2(b), N), Evaluates(w, e, PowerOf2(b), N), NEW m \in 0 .. N,
         \A j \in 0 .. m - 1 : e[j] = CarriedDigit(d, PowerOf2(b), j, m)
  PROVE  w[m] = OneMore(v[m], b * m)
<1> DEFINE base == PowerOf2(b)
           Full(j) == \A k \in j .. m - 1 : d[k] = base - 1
           Good == {j \in Nat : j <= m => w[j] = IF Full(j) THEN OneMore(v[j], b * j) ELSE v[j]}
<1>0. base \in Nat \ {0}
  BY PowerRecursion
<1>1. 0 \in Good
  <2>1. v[0] = 0 /\ w[0] = 0 /\ b * 0 = 0
    BY DEF Evaluates
  <2>2. OneMore(v[0], b * 0) = 0
    BY ONLY <2>1, PowerRecursion DEF OneMore
  <2> QED
    BY ONLY <2>1, <2>2
<1>2. ASSUME NEW j \in Nat, j \in Good, j + 1 <= m
      PROVE  w[j + 1] = IF Full(j + 1) THEN OneMore(v[j + 1], b * (j + 1)) ELSE v[j + 1]
  <2>1. w[j] = IF Full(j) THEN OneMore(v[j], b * j) ELSE v[j]
    BY ONLY <1>2, m \in 0 .. N, N \in Nat
  <2>2. Full(j) <=> d[j] = base - 1 /\ Full(j + 1)
    <3>1. \A k : k \in j .. m - 1 <=> k = j \/ k \in j + 1 .. m - 1
      BY ONLY j \in Nat, j + 1 <= m, m \in 0 .. N, N \in Nat
    <3> HIDE DEF base
    <3> QED
      BY ONLY <3>1, Zenon
  <2>3. e[j] = IF Full(j + 1) THEN (d[j] + 1) % base ELSE d[j]
    <3>1. j \in 0 .. m - 1
      BY ONLY j \in Nat, j + 1 <= m, m \in 0 .. N, N \in Nat
    <3> QED
      BY <3>1 DEF CarriedDigit
  <2> HIDE DEF base, Full, Good
  <2>d. d \in Digits(base, N) /\ Evaluates(v, d, base, N) /\ j + 1 <= N
    <3>1. j + 1 <= N
      BY ONLY j \in Nat, j + 1 <= m, m \in 0 .. N, N \in Nat
    <3> QED
      BY <3>1 DEF base
  <2>e. e \in Digits(base, N) /\ Evaluates(w, e, base, N)
    BY DEF base
  <2>4. v[j] \in Nat /\ d[j] \in Nat /\ d[j] <= base - 1 /\ v[j + 1] = v[j] * base + d[j]
    BY ONLY <1>0, <2>d, NextDigit, N \in Nat, j \in Nat
  <2>5. w[j] \in Nat /\ w[j + 1] = w[j] * base + e[j]
    BY ONLY <1>0, <2>d, <2>e, NextDigit, N \in Nat, j \in Nat
  <2> DEFINE P == PowerOf2(b * j)
  <2>6. v[j] < P /\ P \in Nat
    <3>1. j \in 0 .. N /\ b * j \in Nat
      BY ONLY <2>d, j \in Nat, N \in Nat, b \in Nat
    <3> QED
      BY ONLY <2>d, <3>1, ValueBound, PowerRecursion, b \in Nat, N \in Nat, Zenon DEF base
  <2>7. PowerOf2(b * (j + 1)) = P * base
    <3>1. b * (j + 1) = b * j + b /\ b * j \in Nat
      BY ONLY b \in Nat, j \in Nat
    <3> QED
      BY ONLY <3>1, b \in Nat, PowerSum DEF base
  <2> HIDE DEF P
  <2>8. v[j] + 1 <= P /\ (v[j] + 1) * base <= P * base /\ (v[j] + 1) * base = v[j] * base + base
    BY ONLY <1>0, <2>4, <2>6
  <2>9. CASE ~Full(j + 1)
    BY ONLY <2>1, <2>2, <2>3, <2>4, <2>5, <2>9
  <2>10. CASE Full(j + 1) /\ d[j] = base - 1
    <3>1. e[j] = 0
      BY ONLY <1>0, <2>3, <2>10
    <3>2. v[j + 1] + 1 = (v[j] + 1) * base /\ w[j + 1] = w[j] * base
      BY ONLY <1>0, <2>4, <2>5, <2>8, <2>10, <3>1
    <3>3. w[j] = IF v[j] + 1 = P THEN 0 ELSE v[j] + 1
      BY ONLY <2>1, <2>2, <2>10 DEF OneMore, P
    <3>4. v[j] + 1 < P => (v[j] + 1) * base < P * base
      BY ONLY <1>0, <2>4, <2>6
    <3>5. w[j + 1] = IF v[j + 1] + 1 = P * base THEN 0 ELSE v[j + 1] + 1
      <4>1. CASE v[j] + 1 = P
        BY ONLY <1>0, <3>2, <3>3, <4>1
      <4>2. CASE v[j] + 1 < P
        BY ONLY <1>0, <2>4, <2>6, <3>2, <3>3, <3>4, <4>2
      <4> QED
        BY ONLY <2>4, <2>6, <2>8, <4>1, <4>2
    <3> QED
      BY ONLY <2>7, <2>10, <3>5 DEF OneMore
  <2>11. CASE Full(j + 1) /\ d[j] # base - 1
    <3>1. d[j] + 1 < base /\ e[j] = d[j] + 1
      BY ONLY <1>0, <2>3, <2>4, <2>11
    <3>2. w[j] = v[j]
      BY ONLY <2>1, <2>2, <2>11
    <3>3. w[j + 1] = v[j + 1] + 1
      BY ONLY <1>0, <2>4, <2>5, <3>1, <3>2
    <3>4. v[j + 1] + 1 < P * base
      BY ONLY <1>0, <2>4, <2>6, <2>8, <3>1
    <3>5. v[j + 1] + 1 # P * base
      BY ONLY <1>0, <2>4, <2>6, <3>4
    <3> QED
      BY ONLY <2>7, <2>11, <3>3, <3>5 DEF OneMore
  <2> QED
    BY <2>9, <2>10, <2>11
<1>3. Nat \subseteq Good
  <2>1. ASSUME NEW j \in Nat, j \in Good
        PROVE  j + 1 \in Good
    <3> HIDE DEF Good, Full, base
    <3>1. j + 1 <= m => w[j + 1] = IF Full(j + 1) THEN OneMore(v[j + 1], b * (j + 1)) ELSE v[j + 1]
      BY ONLY <1>2, <2>1, Zenon
    <3>2. j + 1 \in Nat
      BY ONLY <2>1
    <3> QED
      BY ONLY <3>1, <3>2, Zenon DEF Good
  <2> HIDE DEF Good
  <2> QED
    BY ONLY <1>1, <2>1, SetInduction
<1>4. Full(m) /\ m \in Nat /\ m <= m
  BY ONLY m \in 0 .. N, N \in Nat
<1> HIDE DEF Full
<1> QED
  BY ONLY <1>3, <1>4

\* Digits behind the first s that are the same shift a difference of the values.
LEMMA TailShifts ==
  ASSUME NEW b \in Nat, NEW N \in Nat,
         NEW d \in Digits(PowerOf2(b), N), NEW e \in Digits(PowerOf2(b), N), NEW v, NEW w,
         Evaluates(v, d, PowerOf2(b), N), Evaluates(w, e, PowerOf2(b), N), NEW s \in 0 .. N,
         \A j \in s .. N - 1 : e[j] = d[j], NEW x \in Int, w[s] = v[s] + x
  PROVE  w[N] = v[N] + x * PowerOf2(b * (N - s))
<1> DEFINE base == PowerOf2(b)
           Good == {i \in Nat : s + i <= N => w[s + i] = v[s + i] + x * PowerOf2(b * i)}
<1>0. base \in Nat
  BY PowerRecursion
<1>1. 0 \in Good
  <2>1. s + 0 = s /\ b * 0 = 0 /\ x * 1 = x
    OBVIOUS
  <2>2. x * PowerOf2(b * 0) = x
    BY ONLY <2>1, PowerRecursion
  <2> QED
    BY ONLY <2>1, <2>2, w[s] = v[s] + x
<1>2. ASSUME NEW i \in Nat, i \in Good, s + (i + 1) <= N
      PROVE  w[s + (i + 1)] = v[s + (i + 1)] + x * PowerOf2(b * (i + 1))
  <2> DEFINE j == s + i
             P == PowerOf2(b * i)
  <2>1. j \in Nat /\ j + 1 = s + (i + 1) /\ j + 1 <= N /\ j \in s .. N - 1
    BY ONLY <1>2, s \in 0 .. N, N \in Nat
  <2>2. w[j] = v[j] + x * P
    BY ONLY <1>2, <2>1, N \in Nat
  <2>3. e[j] = d[j]
    BY ONLY <2>1, \A k \in s .. N - 1 : e[k] = d[k]
  <2> HIDE DEF base, Good, j
  <2>d. d \in Digits(base, N) /\ Evaluates(v, d, base, N)
    BY DEF base
  <2>e. e \in Digits(base, N) /\ Evaluates(w, e, base, N)
    BY DEF base
  <2>4. v[j] \in Nat /\ d[j] \in Nat /\ v[j + 1] = v[j] * base + d[j]
    BY ONLY <1>0, <2>1, <2>d, NextDigit, N \in Nat
  <2>5. w[j] \in Nat /\ w[j + 1] = w[j] * base + e[j]
    BY ONLY <1>0, <2>1, <2>e, NextDigit, N \in Nat
  <2>6. PowerOf2(b * (i + 1)) = P * base /\ P \in Nat
    <3>1. b * (i + 1) = b * i + b /\ b * i \in Nat
      BY ONLY b \in Nat, i \in Nat
    <3> QED
      BY ONLY <3>1, b \in Nat, PowerSum, PowerRecursion, Zenon DEF base
  <2> HIDE DEF P
  <2>7. (v[j] + x * P) * base + d[j] = (v[j] * base + d[j]) + x * (P * base)
    BY ONLY <1>0, <2>4, <2>6, x \in Int
  <2>8. w[j + 1] = v[j + 1] + x * PowerOf2(b * (i + 1))
    BY ONLY <2>2, <2>3, <2>4, <2>5, <2>6, <2>7
  <2> QED
    BY ONLY <2>1, <2>8
<1>3. Nat \subseteq Good
  <2>1. \A i \in Nat : i \in Good => i + 1 \in Good
    BY ONLY <1>2
  <2> HIDE DEF Good
  <2> QED
    BY ONLY <1>1, <2>1, SetInduction
<1>4. N - s \in Nat /\ s + (N - s) = N
  BY ONLY s \in 0 .. N, N \in Nat
<1>5. s + (N - s) <= N => w[s + (N - s)] = v[s + (N - s)] + x * PowerOf2(b * (N - s))
  BY ONLY <1>3, <1>4, Zenon
<1> QED
  BY ONLY <1>4, <1>5, N \in Nat

\* The same digits have the same value.
LEMMA SameValue ==
  ASSUME NEW base \in Nat, NEW N \in Nat, NEW d \in Digits(base, N), NEW e \in Digits(base, N),
         NEW v, NEW w, Evaluates(v, d, base, N), Evaluates(w, e, base, N), NEW m \in 0 .. N,
         \A j \in 0 .. m - 1 : e[j] = d[j]
  PROVE  w[m] = v[m]
<1> DEFINE Same == {j \in Nat : j <= m => w[j] = v[j]}
<1>1. 0 \in Same
  BY DEF Evaluates
<1>2. ASSUME NEW j \in Nat, j \in Same, j + 1 <= m PROVE w[j + 1] = v[j + 1]
  <2>1. j <= m /\ j \in 0 .. m - 1 /\ j + 1 <= N
    BY ONLY <1>2, m \in 0 .. N, N \in Nat
  <2>2. w[j] = v[j] /\ e[j] = d[j]
    BY <1>2, <2>1
  <2>3. v[j + 1] = v[j] * base + d[j]
    BY ONLY <2>1, NextDigit, base \in Nat, N \in Nat, j \in Nat, d \in Digits(base, N), Evaluates(v, d, base, N)
  <2>4. w[j + 1] = w[j] * base + e[j]
    BY ONLY <2>1, NextDigit, base \in Nat, N \in Nat, j \in Nat, e \in Digits(base, N), Evaluates(w, e, base, N)
  <2> QED
    BY ONLY <2>2, <2>3, <2>4
<1>3. Nat \subseteq Same
  <2>1. \A j \in Nat : j \in Same => j + 1 \in Same
    BY ONLY <1>2
  <2> HIDE DEF Same
  <2> QED
    BY ONLY <1>1, <2>1, SetInduction
<1> QED
  BY ONLY <1>3, m \in 0 .. N, N \in Nat

-----------------------------------------------------------------------------
(***************************************************************************)
(* Addresses as numbers: inc adds one and incSubnet adds the size of the   *)
(* subnetwork, both modulo the size of the address space.                  *)
(***************************************************************************)
\* The addresses as numbers: Base is a power of two, an address is a sequence of
\* digits, and the sizes of the networks are the powers of two up to 2^Width.
LEMMA FreeConstants ==
  /\ ByteBits \in Nat \ {0} /\ IpBytes \in Nat \ {0} /\ Width \in Nat \ {0}
  /\ Base \in Nat \ {0} /\ Base = PowerOf2(ByteBits)
  /\ Ips = Digits(Base, IpBytes)
  /\ MinSubnetMaskSize \in 1 .. Width
<1>1. ByteBits \in Nat \ {0} /\ IpBytes \in Nat \ {0} /\ MinSubnetMaskSize \in 1 .. Width
  BY FreeAssumption
<1>2. Width \in Nat \ {0}
  BY ONLY <1>1 DEF Width
<1>3. Base \in Nat \ {0}
  BY ONLY <1>1, PowerRecursion DEF Base
<1> QED
  BY ONLY <1>1, <1>2, <1>3 DEF Base, Ips, Digits

\* The number of an address has Width bits, and no two addresses have the same one.
LEMMA AddressNumbers ==
  /\ \A ip \in Ips : Number(ip) \in Nat /\ Number(ip) < PowerOf2(Width)
  /\ \A ip, other \in Ips : Number(ip) = Number(other) => ip = other
<1>1. ASSUME NEW ip \in Ips PROVE Number(ip) \in Nat /\ Number(ip) < PowerOf2(Width)
  <2>1. ip \in Digits(PowerOf2(ByteBits), IpBytes) /\ PowerOf2(ByteBits) \in Nat
    BY FreeConstants
  <2>2. PICK v : /\ Evaluates(v, ip, PowerOf2(ByteBits), IpBytes)
                 /\ ValueOf(ip, PowerOf2(ByteBits), IpBytes) = v[IpBytes]
    BY ONLY <2>1, ValueUnfolds, FreeConstants
  <2>3. IpBytes \in 0 .. IpBytes /\ IpBytes \in Nat /\ ByteBits \in Nat
    BY FreeConstants
  <2>4. v[IpBytes] \in Nat /\ v[IpBytes] < PowerOf2(ByteBits * IpBytes)
    BY ONLY <2>1, <2>2, <2>3, ValueBound
  <2> QED
    BY ONLY <2>2, <2>4 DEF Number, Width, Base
<1>2. ASSUME NEW ip \in Ips, NEW other \in Ips, Number(ip) = Number(other) PROVE ip = other
  <2>1. ValueOf(ip, Base, IpBytes) = ValueOf(other, Base, IpBytes)
    BY <1>2 DEF Number
  <2> QED
    BY ONLY <2>1, ValueInjective, FreeConstants, ip \in Ips, other \in Ips
<1> QED
  BY ONLY <1>1, <1>2

\* inc goes to the next address, and from the last one to the first.
LEMMA IncAddsOne ==
  ASSUME NEW ip \in Ips
  PROVE  inc(ip) \in Ips /\ Number(inc(ip)) = OneMore(Number(ip), Width)
<1> DEFINE B == PowerOf2(ByteBits)
           e == inc(ip)
<1>0. B \in Nat \ {0} /\ IpBytes \in Nat \ {0} /\ ByteBits \in Nat /\ Ips = Digits(B, IpBytes) /\ B = Base
  BY FreeConstants
<1> HIDE DEF B
<1>1. DOMAIN ip = 0 .. IpBytes - 1 /\ \A j \in 0 .. IpBytes - 1 : ip[j] \in 0 .. B - 1
  BY ONLY <1>0, ip \in Ips DEF Digits
<1>2. /\ DOMAIN e = 0 .. IpBytes - 1 /\ e = [j \in 0 .. IpBytes - 1 |-> e[j]]
      /\ \A j \in 0 .. IpBytes - 1 : e[j] = CarriedDigit(ip, B, j, IpBytes)
  BY ONLY <1>0, <1>1 DEF inc, CarriedDigit
<1> HIDE DEF e
<1>3. \A j \in 0 .. IpBytes - 1 : e[j] \in 0 .. B - 1
  <2>1. \A x \in 0 .. B - 1 : (x + 1) % B \in 0 .. B - 1
    BY ONLY <1>0
  <2> QED
    BY ONLY <1>1, <1>2, <2>1, Zenon DEF CarriedDigit
<1>4. e \in Digits(B, IpBytes) /\ ip \in Digits(B, IpBytes)
  BY ONLY <1>0, <1>2, <1>3, ip \in Ips DEF Digits
<1>5. PICK v : Evaluates(v, ip, B, IpBytes) /\ ValueOf(ip, B, IpBytes) = v[IpBytes]
  BY ONLY <1>0, <1>4, ValueUnfolds
<1>6. PICK w : Evaluates(w, e, B, IpBytes) /\ ValueOf(e, B, IpBytes) = w[IpBytes]
  BY ONLY <1>0, <1>4, ValueUnfolds
<1>7. IpBytes \in 0 .. IpBytes
  BY ONLY <1>0
<1>8. w[IpBytes] = OneMore(v[IpBytes], ByteBits * IpBytes)
  BY ONLY <1>0, <1>2, <1>4, <1>5, <1>6, <1>7, CarryAddsOne DEF B
<1> QED
  BY ONLY <1>0, <1>4, <1>5, <1>6, <1>8 DEF Number, Width, e

\* The byte a mask ends in and what the last bit of the mask adds to it.
LastByte(mask) == (mask - 1) \div ByteBits
LastBit(mask) == PowerOf2(ByteBits - 1 - ((mask - 1) % ByteBits))

\* The last bit of a mask is smaller than Base, and counts the addresses of the
\* network at its place in the address.
LEMMA MaskBit ==
  ASSUME NEW mask \in 1 .. Width
  PROVE  /\ LastByte(mask) \in 0 .. IpBytes - 1
         /\ LastBit(mask) \in 1 .. Base - 1
         /\ LastBit(mask) * PowerOf2(ByteBits * (IpBytes - (LastByte(mask) + 1))) = SizeOf(mask)
<1> DEFINE b == ByteBits
           K == IpBytes
           s == LastByte(mask)
           r == (mask - 1) % b
<1>0. b \in Nat \ {0} /\ K \in Nat \ {0} /\ Width = b * K /\ Base = PowerOf2(b) /\ Base \in Nat \ {0}
  BY FreeConstants DEF Width
<1>1. mask - 1 \in Nat /\ mask - 1 < b * K
  BY <1>0
<1> HIDE DEF b, K
<1>2. s = (mask - 1) \div b
  BY DEF LastByte, b
<1>3. s \in Nat /\ r \in 0 .. b - 1 /\ mask - 1 = b * s + r
  BY ONLY <1>0, <1>1, <1>2
<1>4. LastBit(mask) = PowerOf2(b - 1 - r)
  BY DEF LastBit, b
<1> HIDE DEF s, r
<1>5. s < K
  <2>1. s >= K => b * s >= b * K
    BY ONLY <1>0, <1>3
  <2> QED
    BY ONLY <1>0, <1>1, <1>3, <2>1
<1>6. b - 1 - r \in Nat /\ r + 1 \in Nat /\ (b - 1 - r) + (r + 1) = b
  BY ONLY <1>0, <1>3
<1>7. LastBit(mask) \in Nat \ {0} /\ PowerOf2(r + 1) \in Nat /\ PowerOf2(r + 1) >= 2
  <2>1. PowerOf2(r) \in Nat \ {0} /\ PowerOf2(r + 1) = 2 * PowerOf2(r)
    BY ONLY <1>3, PowerRecursion, <1>0
  <2> QED
    BY ONLY <1>4, <1>6, <2>1, PowerRecursion
<1>8. Base = LastBit(mask) * PowerOf2(r + 1)
  BY ONLY <1>0, <1>4, <1>6, PowerSum
<1>9. LastBit(mask) \in 1 .. Base - 1
  <2>1. LastBit(mask) * PowerOf2(r + 1) >= LastBit(mask) * 2
    BY ONLY <1>7
  <2> QED
    BY ONLY <1>0, <1>7, <1>8, <2>1
<1>10. LastBit(mask) * PowerOf2(b * (K - (s + 1))) = PowerOf2(Width - mask)
  <2>1. b * (K - (s + 1)) \in Nat
    BY ONLY <1>0, <1>3, <1>5
  <2>2. (b - 1 - r) + b * (K - (s + 1)) = b * K - (b * s + r) - 1
    BY ONLY <1>0, <1>3
  <2>3. (b - 1 - r) + b * (K - (s + 1)) = Width - mask
    <3>1. mask \in Int
      OBVIOUS
    <3> QED
      BY ONLY <1>0, <1>3, <2>2, <3>1
  <2> QED
    BY ONLY <1>4, <1>6, <2>1, <2>3, PowerSum
<1> QED
  BY ONLY <1>0, <1>3, <1>5, <1>9, <1>10 DEF s, b, K, SizeOf

\* incSubnet adds the number of addresses of the subnetwork ("In general assuming
\* IPv4, the IP is increased by 2^(32-mask)"), whichever bytes the carry goes
\* through, and starts again behind the last address.
THEOREM IncSubnetAdds ==
  ASSUME NEW ip \in Ips, NEW mask \in 1 .. Width
  PROVE  /\ incSubnet(ip, mask) \in Ips
         /\ Number(incSubnet(ip, mask)) =
              IF Number(ip) + SizeOf(mask) < PowerOf2(Width) THEN Number(ip) + SizeOf(mask)
              ELSE Number(ip) + SizeOf(mask) - PowerOf2(Width)
<1> DEFINE B == PowerOf2(ByteBits)
           K == IpBytes
           e == incSubnet(ip, mask)
           s == LastByte(mask)
           add == LastBit(mask)
           sum == (ip[s] + add) % B
<1>0. B \in Nat \ {0} /\ K \in Nat \ {0} /\ ByteBits \in Nat /\ Ips = Digits(B, K) /\ B = Base
  BY FreeConstants
<1>1. s \in 0 .. K - 1 /\ add \in 1 .. B - 1 /\ add * PowerOf2(ByteBits * (K - (s + 1))) = SizeOf(mask)
  BY <1>0, MaskBit
<1> HIDE DEF B
<1>2. DOMAIN ip = 0 .. K - 1 /\ \A j \in 0 .. K - 1 : ip[j] \in 0 .. B - 1
  BY ONLY <1>0, ip \in Ips DEF Digits
<1> DEFINE carried(j) == j < s /\ sum < ip[s] /\ \A k \in j + 1 .. s - 1 : ip[k] = B - 1
           digit(j) == CASE j = s -> sum [] carried(j) -> (ip[j] + 1) % B [] OTHER -> ip[j]
<1>3. e = [j \in 0 .. K - 1 |-> digit(j)]
  <2>1. mask # 0
    OBVIOUS
  <2> QED
    BY ONLY <1>0, <1>2, <2>1 DEF incSubnet, LastByte, LastBit
<1> HIDE DEF e, s, add, K
<1>4. /\ e[s] = sum
      /\ \A j \in 0 .. s - 1 : e[j] = IF sum < ip[s] THEN CarriedDigit(ip, B, j, s) ELSE ip[j]
      /\ \A j \in s + 1 .. K - 1 : e[j] = ip[j]
  <2> HIDE DEF sum
  <2>1. \A j \in 0 .. s - 1 : j \in 0 .. K - 1 /\ j # s /\ j < s
    BY ONLY <1>0, <1>1
  <2>2. \A j \in s + 1 .. K - 1 : j \in 0 .. K - 1 /\ j # s /\ ~(j < s)
    BY ONLY <1>0, <1>1
  <2>3. e[s] = sum
    BY ONLY <1>1, <1>3
  <2>4. ASSUME NEW j \in 0 .. s - 1
        PROVE  e[j] = IF sum < ip[s] THEN CarriedDigit(ip, B, j, s) ELSE ip[j]
    <3>1. e[j] = digit(j)
      BY ONLY <1>3, <2>1, j \in 0 .. s - 1
    <3> QED
      BY ONLY <2>1, <3>1, j \in 0 .. s - 1 DEF CarriedDigit
  <2>5. ASSUME NEW j \in s + 1 .. K - 1 PROVE e[j] = ip[j]
    <3>1. e[j] = digit(j)
      BY ONLY <1>3, <2>2, j \in s + 1 .. K - 1
    <3> QED
      BY ONLY <2>2, <3>1, j \in s + 1 .. K - 1
  <2> QED
    BY ONLY <2>3, <2>4, <2>5
<1>5. /\ sum \in 0 .. B - 1 /\ ip[s] \in 0 .. B - 1
      /\ sum < ip[s] => sum = ip[s] + add - B
      /\ ~(sum < ip[s]) => sum = ip[s] + add
  <2>1. ip[s] \in 0 .. B - 1
    BY ONLY <1>1, <1>2
  <2>2. ip[s] + add < B => sum = ip[s] + add
    BY ONLY <1>0, <1>1, <2>1
  <2>3. ip[s] + add >= B => sum = ip[s] + add - B
    BY ONLY <1>0, <1>1, <2>1
  <2> HIDE DEF sum
  <2> QED
    BY ONLY <1>0, <1>1, <2>1, <2>2, <2>3
<1> HIDE DEF sum, digit
<1>6. e \in Digits(B, K) /\ ip \in Digits(B, K)
  <2>1. \A x \in 0 .. B - 1 : (x + 1) % B \in 0 .. B - 1
    BY ONLY <1>0
  <2>2. \A j \in 0 .. K - 1 : j \in 0 .. s - 1 \/ j = s \/ j \in s + 1 .. K - 1
    BY ONLY <1>0, <1>1
  <2>3. \A j \in 0 .. K - 1 : e[j] \in 0 .. B - 1
    BY ONLY <1>2, <1>4, <1>5, <2>1, <2>2, Zenon DEF CarriedDigit
  <2> QED
    BY ONLY <1>0, <1>3, <2>3, ip \in Ips DEF Digits
<1>7. PICK v : Evaluates(v, ip, B, K) /\ ValueOf(ip, B, K) = v[K]
  BY ONLY <1>0, <1>6, ValueUnfolds
<1>8. PICK w : Evaluates(w, e, B, K) /\ ValueOf(e, B, K) = w[K]
  BY ONLY <1>0, <1>6, ValueUnfolds
<1> DEFINE P == PowerOf2(ByteBits * s)
           Q == PowerOf2(ByteBits * (K - (s + 1)))
           x == IF v[s + 1] + add < P * B THEN add ELSE add - P * B
<1>9. s \in Nat /\ s \in 0 .. K /\ s + 1 \in 0 .. K /\ s + 1 <= K /\ K - (s + 1) \in Nat
  BY ONLY <1>0, <1>1
<1>10. w[s] = IF sum < ip[s] THEN OneMore(v[s], ByteBits * s) ELSE v[s]
  <2>1. CASE sum < ip[s]
    <3>1. \A j \in 0 .. s - 1 : e[j] = CarriedDigit(ip, B, j, s)
      BY ONLY <1>4, <2>1, Zenon
    <3> QED
      BY ONLY <1>0, <1>6, <1>7, <1>8, <1>9, <2>1, <3>1, CarryAddsOne DEF B
  <2>2. CASE ~(sum < ip[s])
    <3>1. \A j \in 0 .. s - 1 : e[j] = ip[j]
      BY ONLY <1>4, <2>2, Zenon
    <3> QED
      BY ONLY <1>0, <1>6, <1>7, <1>8, <1>9, <2>2, <3>1, SameValue
  <2> QED
    BY ONLY <2>1, <2>2
<1>11. P \in Nat \ {0} /\ Q \in Nat \ {0} /\ PowerOf2(Width) = P * B * Q
  <2>1. ByteBits * s \in Nat /\ ByteBits * (K - (s + 1)) \in Nat
    BY ONLY <1>0, <1>9
  <2>2. Width = (ByteBits * s + ByteBits) + ByteBits * (K - (s + 1)) /\ ByteBits * s + ByteBits \in Nat
    BY ONLY <1>0, <1>9, <2>1 DEF Width, K
  <2>3. PowerOf2(ByteBits * s + ByteBits) = P * B
    BY ONLY <1>0, <2>1, PowerSum DEF B
  <2> QED
    BY ONLY <2>1, <2>2, <2>3, PowerSum, PowerRecursion
<1>12. v[s] \in Nat /\ v[s] < P
  BY ONLY <1>0, <1>6, <1>7, <1>9, ValueBound DEF B
<1>13. v[s + 1] \in Nat /\ v[s + 1] = v[s] * B + ip[s]
  BY ONLY <1>0, <1>6, <1>7, <1>9, NextDigit
<1>14. w[s + 1] = w[s] * B + sum
  BY ONLY <1>0, <1>4, <1>6, <1>8, <1>9, NextDigit
<1>15. v[K] \in Nat /\ w[K] \in Nat /\ w[K] < PowerOf2(Width)
  <2>1. K \in 0 .. K
    BY ONLY <1>0
  <2> QED
    BY ONLY <1>0, <1>6, <1>7, <1>8, <2>1, ValueBound DEF B, Width, K
<1>16. w[s + 1] = v[s + 1] + x
  <2>0. OneMore(v[s], ByteBits * s) = IF v[s] + 1 = P THEN 0 ELSE v[s] + 1
    BY DEF OneMore
  <2> HIDE DEF P
  <2>1. (v[s] + 1) * B <= P * B /\ (v[s] + 1) * B = v[s] * B + B
    BY ONLY <1>0, <1>11, <1>12
  <2>2. CASE ~(sum < ip[s])
    BY ONLY <1>0, <1>1, <1>5, <1>10, <1>11, <1>12, <1>13, <1>14, <2>1, <2>2
  <2>3. CASE sum < ip[s] /\ v[s] + 1 = P
    <3>1. w[s + 1] = sum /\ P * B = v[s] * B + B
      BY ONLY <1>0, <1>5, <1>10, <1>14, <2>0, <2>1, <2>3
    <3> QED
      BY ONLY <1>0, <1>1, <1>5, <1>11, <1>12, <1>13, <2>3, <3>1
  <2>4. CASE sum < ip[s] /\ v[s] + 1 # P
    <3>1. w[s] = v[s] + 1 /\ w[s + 1] = v[s] * B + B + sum
      BY ONLY <1>10, <1>14, <2>0, <2>1, <2>4
    <3>2. v[s] + 2 <= P /\ (v[s] + 2) * B <= P * B /\ (v[s] + 2) * B = v[s] * B + B + B
      BY ONLY <1>0, <1>11, <1>12, <2>4
    <3>3. w[s + 1] = v[s + 1] + add /\ v[s + 1] + add < P * B
      <4>1. v[s] * B \in Nat /\ P * B \in Nat
        BY ONLY <1>0, <1>11, <1>12
      <4> DEFINE y == v[s] * B
                 z == P * B
      <4>2. y \in Nat /\ z \in Nat /\ y + B + B <= z /\ v[s + 1] = y + ip[s] /\ w[s + 1] = y + B + sum
        BY ONLY <1>13, <3>1, <3>2, <4>1
      <4> HIDE DEF x, y, z
      <4>3. w[s + 1] = v[s + 1] + add /\ v[s + 1] + add < z
        <5>1. add \in 1 .. B - 1 /\ B \in Nat /\ ip[s] \in 0 .. B - 1 /\ sum = ip[s] + add - B
          BY ONLY <1>0, <1>1, <1>5, <2>4
        <5> QED
          BY ONLY <4>2, <5>1
      <4> QED
        BY ONLY <4>3 DEF z
    <3> QED
      BY ONLY <3>3
  <2> QED
    BY ONLY <2>2, <2>3, <2>4
<1>17. w[K] = v[K] + x * Q
  <2>1. x \in Int
    BY ONLY <1>0, <1>1, <1>11
  <2> HIDE DEF x
  <2>2. \A j \in s + 1 .. K - 1 : e[j] = ip[j]
    BY ONLY <1>4
  <2>3. /\ ip \in Digits(PowerOf2(ByteBits), K) /\ Evaluates(v, ip, PowerOf2(ByteBits), K)
        /\ e \in Digits(PowerOf2(ByteBits), K) /\ Evaluates(w, e, PowerOf2(ByteBits), K)
    BY ONLY <1>6, <1>7, <1>8 DEF B
  <2>4. K \in Nat
    BY ONLY <1>0
  <2> DEFINE m == s + 1
  <2>5. m \in 0 .. K /\ (\A j \in m .. K - 1 : e[j] = ip[j]) /\ w[m] = v[m] + x
    BY ONLY <1>9, <1>16, <2>2
  <2> HIDE DEF m
  <2>6. w[K] = v[K] + x * PowerOf2(ByteBits * (K - m))
    BY ONLY <1>0, <2>1, <2>3, <2>4, <2>5, TailShifts
  <2> QED
    BY ONLY <2>6 DEF m
<1>18. Number(ip) = v[K] /\ Number(e) = w[K]
  BY ONLY <1>0, <1>7, <1>8 DEF Number, K
<1>19. x * Q = SizeOf(mask) \/ x * Q = SizeOf(mask) - PowerOf2(Width)
  <2> HIDE DEF P, Q
  <2>1. (add - P * B) * Q = add * Q - P * B * Q
    BY ONLY <1>0, <1>1, <1>11
  <2>2. add * Q = SizeOf(mask)
    BY ONLY <1>1 DEF Q
  <2> QED
    BY ONLY <1>11, <2>1, <2>2
<1>20. SizeOf(mask) \in Nat /\ PowerOf2(Width) \in Nat
  BY ONLY <1>0, <1>1, <1>11
<1> QED
  <2> HIDE DEF x, Q
  <2>1. Number(e) = IF Number(ip) + SizeOf(mask) < PowerOf2(Width) THEN Number(ip) + SizeOf(mask)
                    ELSE Number(ip) + SizeOf(mask) - PowerOf2(Width)
    BY ONLY <1>15, <1>17, <1>18, <1>19, <1>20
  <2> QED
    BY ONLY <1>0, <1>6, <2>1 DEF e

-----------------------------------------------------------------------------
(***************************************************************************)
(* Networks are intervals of numbers; one subnetwork after the other       *)
(* covers the interval of its network.                                     *)
(***************************************************************************)
\* The number of the first address of a network.
First(network) == (Number(network.ip) \div SizeOf(network.ones)) * SizeOf(network.ones)

\* The addresses of a network.
Members(network) == {a \in Ips : InNetwork(network, a)}

\* A network is an interval of numbers, and its size divides the address space.
LEMMA NetworkInterval ==
  ASSUME NEW network, network.ip \in Ips, network.ones \in 0 .. Width
  PROVE  /\ SizeOf(network.ones) \in Nat \ {0} /\ First(network) \in Nat
         /\ First(network) + SizeOf(network.ones) <= PowerOf2(Width)
         /\ network.ones > 0 /\ First(network) = 0 => SizeOf(network.ones) < PowerOf2(Width)
         /\ \A a \in Ips : InNetwork(network, a) <=>
              First(network) <= Number(a) /\ Number(a) < First(network) + SizeOf(network.ones)
         /\ Canonical(network) => Number(network.ip) = First(network)
<1> DEFINE S == SizeOf(network.ones)
           T == PowerOf2(network.ones)
           N == Number(network.ip)
           q == N \div S
<1>0. network.ones \in Nat /\ Width - network.ones \in Nat /\ (Width - network.ones) + network.ones = Width
  BY FreeConstants
<1>1. S \in Nat \ {0} /\ T \in Nat \ {0} /\ PowerOf2(Width) = S * T
  BY ONLY <1>0, PowerRecursion, PowerSum, Zenon DEF SizeOf
<1>2. network.ones > 0 => T >= 2
  <2> SUFFICES ASSUME network.ones > 0 PROVE T >= 2
    OBVIOUS
  <2>1. network.ones - 1 \in Nat /\ (network.ones - 1) + 1 = network.ones
    BY ONLY <1>0, network.ones > 0
  <2>2. T = 2 * PowerOf2(network.ones - 1) /\ PowerOf2(network.ones - 1) \in Nat \ {0}
    BY ONLY <2>1, PowerRecursion
  <2> QED
    BY ONLY <2>2
<1>3. N \in Nat /\ N < S * T
  BY <1>1, AddressNumbers
<1>4. Canonical(network) <=> N % S = 0
  BY DEF Canonical
<1>5. First(network) = q * S
  BY DEF First
<1>6. \A a \in Ips : Number(a) \in Nat /\ (InNetwork(network, a) <=> Number(a) \div S = q)
  BY AddressNumbers DEF InNetwork
<1> HIDE DEF S, T, N
<1>7. q \in Nat /\ q * S <= N /\ N < q * S + S /\ (N % S = 0 => N = q * S)
  BY ONLY <1>1, <1>3
<1> HIDE DEF q
<1>8. q * S \in Nat /\ q * S + S <= S * T
  <2>1. q >= T => q * S >= S * T
    BY ONLY <1>1, <1>7
  <2>2. q < T
    BY ONLY <1>1, <1>3, <1>7, <2>1
  <2>3. (q + 1) * S <= T * S
    BY ONLY <1>1, <1>7, <2>2
  <2> QED
    BY ONLY <1>1, <1>7, <2>3
<1>9. T >= 2 => S < S * T
  BY ONLY <1>1
<1>10. \A x \in Nat : x \div S = q <=> q * S <= x /\ x < q * S + S
  <2> SUFFICES ASSUME NEW x \in Nat PROVE x \div S = q <=> q * S <= x /\ x < q * S + S
    OBVIOUS
  <2> DEFINE p == x \div S
  <2>1. p \in Nat /\ p * S <= x /\ x < p * S + S
    BY ONLY <1>1, x \in Nat
  <2> HIDE DEF p
  <2>2. p < q => p * S + S <= q * S
    BY ONLY <1>1, <1>7, <2>1
  <2>3. q < p => q * S + S <= p * S
    BY ONLY <1>1, <1>7, <2>1
  <2>4. p = q <=> q * S <= x /\ x < q * S + S
    BY ONLY <1>1, <1>7, <1>8, <2>1, <2>2, <2>3, x \in Nat
  <2> QED
    BY ONLY <2>4 DEF p
<1>11. \A a \in Ips : InNetwork(network, a) <=> q * S <= Number(a) /\ Number(a) < q * S + S
  BY ONLY <1>6, <1>10, Zenon
<1>12. SizeOf(network.ones) = S
  BY DEF S
<1>13. Number(network.ip) = N
  BY DEF N
<1> QED
  BY ONLY <1>1, <1>2, <1>4, <1>5, <1>7, <1>8, <1>9, <1>11, <1>12, <1>13

\* The addresses a loop over inc goes through, from ip on.
Walks(g, ip, N) ==
  g \in [0 .. N -> Ips] /\ g[0] = ip /\ \A n \in 1 .. N : g[n] = inc(g[n - 1])

\* Those before the N-th, as a sequence, and the places of the ones to report.
Visited(g, N) == [n \in 1 .. N |-> g[n - 1]]
Unoccupied(t, subnet, occupied) ==
  {n \in DOMAIN t : InNetwork(subnet, t[n]) /\ t[n] \notin occupied}

\* FreeFrom goes from address to address and takes those that are not occupied.
LEMMA FreeFromUnfolds ==
  ASSUME NEW ip \in Ips, NEW subnet, SizeOf(subnet.ones) \in Nat, NEW occupied
  PROVE  \E g : /\ Walks(g, ip, SizeOf(subnet.ones))
                /\ FreeFrom(ip, subnet, occupied) =
                     Selected(Visited(g, SizeOf(subnet.ones)),
                              Unoccupied(Visited(g, SizeOf(subnet.ones)), subnet, occupied))
<1> DEFINE N == SizeOf(subnet.ones)
           body(g, n) == IF n = 0 THEN ip ELSE inc(g[n - 1])
           next == [n \in 1 .. N |-> [x \in Ips |-> inc(x)]]
           step == CHOOSE g : g = [n \in 0 .. N |-> body(g, n)]
<1>0. N \in Nat /\ \A x \in Ips : inc(x) \in Ips
  BY IncAddsOne
<1>1. next \in [1 .. N -> [Ips -> Ips]]
  BY ONLY <1>0
<1>2. \A n \in 1 .. N : \A x \in Ips : next[n][x] = inc(x)
  OBVIOUS
<1>x. FreeFrom(ip, subnet, occupied) =
        Selected(Visited(step, N), Unoccupied(Visited(step, N), subnet, occupied))
  BY DEF FreeFrom, Visited, Unoccupied
<1> HIDE DEF next, N
<1>a. PICK g : Iterates(g, N, Ips, ip, next)
  BY ONLY <1>0, <1>1, ip \in Ips, RecursiveFunction, Zenon
<1>3. g \in [0 .. N -> Ips] /\ g[0] = ip /\ \A n \in 1 .. N : g[n] = next[n][g[n - 1]]
  BY ONLY <1>a DEF Iterates
<1>4. \A n \in 1 .. N : n - 1 \in 0 .. N /\ n # 0
  BY ONLY <1>0
<1>5. \A n \in 0 .. N : g[n] = body(g, n)
  <2> TAKE n \in 0 .. N
  <2>1. CASE n = 0
    BY ONLY <1>3, <2>1
  <2>2. CASE n # 0
    <3>1. n \in 1 .. N
      BY ONLY <1>0, <2>2, n \in 0 .. N
    <3> QED
      BY ONLY <1>2, <1>3, <1>4, <2>2, <3>1
  <2> QED
    BY <2>1, <2>2
<1> HIDE DEF body
<1>6. g = [n \in 0 .. N |-> body(g, n)]
  BY ONLY <1>3, <1>5
<1>7. step = [n \in 0 .. N |-> body(step, n)]
  BY ONLY <1>6, Zenon
<1> HIDE DEF step
<1>9. step[0] = ip /\ \A n \in 1 .. N : step[n] = inc(step[n - 1])
  <2>1. 0 \in 0 .. N /\ \A n \in 1 .. N : n \in 0 .. N /\ n # 0
    BY ONLY <1>0
  <2>2. \A n \in 0 .. N : step[n] = body(step, n)
    BY ONLY <1>7, Zenon
  <2> QED
    BY ONLY <2>1, <2>2, Zenon DEF body
<1>10. \A n \in 0 .. N : step[n] \in Ips
  <2> DEFINE Inside == {n \in Nat : n <= N => step[n] \in Ips}
  <2>1. 0 \in Inside
    BY ONLY <1>9, ip \in Ips
  <2>2. ASSUME NEW n \in Nat, n \in Inside, n + 1 <= N PROVE step[n + 1] \in Ips
    <3>1. n + 1 \in 1 .. N /\ (n + 1) - 1 = n /\ step[n] \in Ips
      BY ONLY <1>0, <2>2
    <3> QED
      BY ONLY <1>0, <1>9, <3>1
  <2>3. \A n \in Nat : n \in Inside => n + 1 \in Inside
    BY ONLY <2>2
  <2>4. Nat \subseteq Inside
    <3> HIDE DEF Inside
    <3> QED
      BY ONLY <2>1, <2>3, SetInduction
  <2> QED
    BY ONLY <1>0, <2>4
<1>11. Walks(step, ip, N)
  BY ONLY <1>7, <1>9, <1>10 DEF Walks
<1> QED
  BY ONLY <1>x, <1>11 DEF N

\* The loop of scanSubNetwork lists the addresses of a subnetwork that are not
\* occupied: each of them, each once, and no other.
LEMMA FreeFromLists ==
  ASSUME NEW ip \in Ips, NEW ones \in 0 .. Width, NEW subnet, subnet = [ip |-> ip, ones |-> ones],
         Canonical(subnet), NEW occupied
  PROVE  /\ Unrepeated(FreeFrom(ip, subnet, occupied), Ips)
         /\ Range(FreeFrom(ip, subnet, occupied)) = Members(subnet) \ occupied
<1> DEFINE N == SizeOf(subnet.ones)
           free0 == Number(ip)
           list == FreeFrom(ip, subnet, occupied)
<1>0. subnet.ip = ip /\ subnet.ones = ones
  BY ONLY subnet = [ip |-> ip, ones |-> ones]
<1>1. /\ N \in Nat \ {0} /\ free0 \in Nat /\ free0 + N <= PowerOf2(Width)
      /\ \A a \in Ips : InNetwork(subnet, a) <=> free0 <= Number(a) /\ Number(a) < free0 + N
  <2>1. subnet.ip \in Ips /\ subnet.ones \in 0 .. Width
    BY ONLY <1>0, ip \in Ips, ones \in 0 .. Width
  <2>2. Number(subnet.ip) = free0
    BY ONLY <1>0
  <2> HIDE DEF N, free0
  <2>3. free0 = First(subnet)
    BY ONLY <2>1, <2>2, NetworkInterval, Canonical(subnet)
  <2> QED
    BY ONLY <2>1, <2>3, NetworkInterval DEF N
<1>2. PICK g : Walks(g, ip, N) /\ list = Selected(Visited(g, N), Unoccupied(Visited(g, N), subnet, occupied))
  <2>1. N \in Nat
    BY ONLY <1>1
  <2> QED
    BY ONLY <2>1, ip \in Ips, FreeFromUnfolds, Zenon
<1> HIDE DEF N, free0, list
<1>3. g \in [0 .. N -> Ips] /\ g[0] = ip /\ \A n \in 1 .. N : g[n] = inc(g[n - 1])
  BY ONLY <1>2 DEF Walks
<1>4. \A n \in 0 .. N - 1 : g[n] \in Ips /\ Number(g[n]) = free0 + n
  <2> DEFINE Good == {n \in Nat : n < N => g[n] \in Ips /\ Number(g[n]) = free0 + n}
  <2>1. 0 \in Good
    BY ONLY <1>1, <1>3, ip \in Ips DEF free0
  <2>2. ASSUME NEW n \in Nat, n \in Good, n + 1 < N PROVE g[n + 1] \in Ips /\ Number(g[n + 1]) = free0 + (n + 1)
    <3>1. n + 1 \in 1 .. N /\ (n + 1) - 1 = n /\ g[n] \in Ips /\ Number(g[n]) = free0 + n
      BY ONLY <1>1, <2>2
    <3>2. g[n + 1] = inc(g[n])
      BY ONLY <1>3, <3>1
    <3>3. g[n + 1] \in Ips /\ Number(g[n + 1]) = OneMore(free0 + n, Width)
      BY ONLY <3>1, <3>2, IncAddsOne
    <3>4. free0 + n + 1 < PowerOf2(Width) /\ PowerOf2(Width) \in Nat
      BY ONLY <1>1, <2>2, PowerRecursion, FreeConstants
    <3> QED
      BY ONLY <1>1, <3>3, <3>4, n \in Nat DEF OneMore
  <2>3. \A n \in Nat : n \in Good => n + 1 \in Good
    BY ONLY <2>2
  <2>4. Nat \subseteq Good
    <3> HIDE DEF Good
    <3> QED
      BY ONLY <2>1, <2>3, SetInduction
  <2> QED
    BY ONLY <1>1, <2>4
<1> DEFINE t == Visited(g, N)
           places == Unoccupied(t, subnet, occupied)
<1>5. t \in Seq(Ips) /\ Len(t) = N
  <2>1. \A n \in 1 .. N : n - 1 \in 0 .. N - 1
    BY ONLY <1>1
  <2> QED
    BY ONLY <1>1, <1>4, <2>1 DEF Visited
<1>6. \A n \in 1 .. N : t[n] \in Ips /\ Number(t[n]) = free0 + (n - 1) /\ InNetwork(subnet, t[n])
  <2>1. \A n \in 1 .. N : n - 1 \in 0 .. N - 1 /\ t[n] = g[n - 1]
    BY ONLY <1>1 DEF Visited
  <2> HIDE DEF t
  <2>2. \A n \in 1 .. N : t[n] \in Ips /\ Number(t[n]) = free0 + (n - 1)
    BY ONLY <1>4, <2>1, Zenon
  <2> QED
    BY ONLY <1>1, <2>2
<1>7. places = {n \in 1 .. N : t[n] \notin occupied}
  <2>1. DOMAIN t = 1 .. N /\ places = {n \in DOMAIN t : InNetwork(subnet, t[n]) /\ t[n] \notin occupied}
    BY Zenon DEF Visited, Unoccupied
  <2> HIDE DEF t, places
  <2>2. \A n \in DOMAIN t : InNetwork(subnet, t[n])
    BY ONLY <1>6, <2>1, Zenon
  <2> QED
    BY ONLY <2>1, <2>2
<1>8. list = Selected(t, places)
  BY <1>2
<1> HIDE DEF t, places
<1>9. /\ list \in Seq(Ips)
      /\ \A n \in 1 .. Len(list) : \E k \in places : list[n] = t[k]
      /\ \A k \in places : \E n \in 1 .. Len(list) : list[n] = t[k]
      /\ \A m, n \in 1 .. Len(list) : m < n => \E j, k \in places : j < k /\ list[m] = t[j] /\ list[n] = t[k]
  <2>1. places \subseteq 1 .. Len(t)
    BY ONLY <1>5, <1>7
  <2>2. t \in Seq(Ips)
    BY ONLY <1>5
  <2> DEFINE s == Selected(t, places)
  <2>3. /\ s \in Seq(Ips)
        /\ \A n \in 1 .. Len(s) : \E k \in places : s[n] = t[k]
        /\ \A k \in places : \E n \in 1 .. Len(s) : s[n] = t[k]
        /\ \A m, n \in 1 .. Len(s) : m < n => \E j, k \in places : j < k /\ s[m] = t[j] /\ s[n] = t[k]
    BY ONLY <2>1, <2>2, SelectedElements, Zenon
  <2>4. list = s
    BY ONLY <1>8
  <2> HIDE DEF s
  <2> QED
    BY ONLY <2>3, <2>4
<1>10. Unrepeated(list, Ips)
  <2>1. ASSUME NEW m \in 1 .. Len(list), NEW n \in 1 .. Len(list), m < n, list[m] = list[n] PROVE FALSE
    <3>1. PICK j \in places, k \in places : j < k /\ list[m] = t[j] /\ list[n] = t[k]
      BY ONLY <1>9, <2>1
    <3>2. j \in 1 .. N /\ k \in 1 .. N
      BY ONLY <1>7
    <3>3. Number(t[j]) = free0 + (j - 1) /\ Number(t[k]) = free0 + (k - 1) /\ t[j] = t[k]
      BY ONLY <1>6, <2>1, <3>1, <3>2, Zenon
    <3>4. free0 + (j - 1) = free0 + (k - 1)
      BY ONLY <3>3
    <3> QED
      BY ONLY <1>1, <3>1, <3>2, <3>4
  <2>2. Len(list) \in Nat /\ list \in Seq(Ips) /\ DOMAIN list = 1 .. Len(list)
    BY ONLY <1>9
  <2>3. \A m, n \in 1 .. Len(list) : list[m] = list[n] => m = n
    BY ONLY <2>1, <2>2
  <2> QED
    BY ONLY <2>2, <2>3 DEF Unrepeated, IsInjective
<1>11. Range(list) = Members(subnet) \ occupied
  <2>1. DOMAIN list = 1 .. Len(list)
    BY ONLY <1>9
  <2>2. ASSUME NEW i \in 1 .. Len(list) PROVE list[i] \in Members(subnet) /\ list[i] \notin occupied
    <3>1. PICK k \in places : list[i] = t[k]
      BY ONLY <1>9, i \in 1 .. Len(list)
    <3> QED
      BY ONLY <1>6, <1>7, <3>1 DEF Members
  <2>3. ASSUME NEW a \in Members(subnet), a \notin occupied PROVE \E i \in 1 .. Len(list) : list[i] = a
    <3>1. a \in Ips /\ InNetwork(subnet, a)
      BY DEF Members
    <3>2. Number(a) \in Nat /\ free0 <= Number(a) /\ Number(a) < free0 + N
      BY ONLY <1>1, <3>1, AddressNumbers
    <3> DEFINE k == Number(a) - free0 + 1
    <3>3. k \in 1 .. N /\ free0 + (k - 1) = Number(a)
      BY ONLY <1>1, <3>2
    <3> HIDE DEF k
    <3>4. t[k] = a
      BY ONLY <1>6, <3>1, <3>3, AddressNumbers
    <3>5. k \in places
      BY ONLY <1>7, <2>3, <3>3, <3>4
    <3> QED
      BY ONLY <1>9, <3>4, <3>5
  <2> QED
    BY ONLY <2>1, <2>2, <2>3 DEF Range
<1> QED
  BY ONLY <1>10, <1>11 DEF list

\* A number that a size divides, and the sizes that are multiples of it.
LEMMA Multiples ==
  ASSUME NEW s \in Nat \ {0}, NEW x \in Nat, x % s = 0, NEW k \in Nat
  PROVE  /\ (x + s) % s = 0
         /\ x < s * k => x + s <= s * k
<1> DEFINE q == x \div s
<1>1. q \in Nat /\ x = s * q
  OBVIOUS
<1> HIDE DEF q
<1>2. (x + s) % s = 0
  <2>1. x + s = (q + 1) * s + 0
    BY ONLY <1>1, s \in Nat \ {0}, x \in Nat
  <2> QED
    BY ONLY <1>1, <2>1, s \in Nat \ {0}, x \in Nat
<1>3. x < s * k => x + s <= s * k
  <2>1. q >= k => s * q >= s * k
    BY ONLY <1>1, s \in Nat \ {0}, k \in Nat
  <2>2. q + 1 <= k => s * (q + 1) <= s * k
    BY ONLY <1>1, s \in Nat \ {0}, k \in Nat
  <2>3. s * (q + 1) = s * q + s
    BY ONLY <1>1, s \in Nat \ {0}
  <2> QED
    BY ONLY <1>1, <2>1, <2>2, <2>3, s \in Nat \ {0}, k \in Nat
<1> QED
  BY ONLY <1>2, <1>3

\* The size of a network is a multiple of the sizes of its subnetworks.
LEMMA SizeDivides ==
  ASSUME NEW ones \in 0 .. Width, NEW mask \in 0 .. Width, ones <= mask
  PROVE  /\ SizeOf(mask) \in Nat \ {0} /\ PowerOf2(mask - ones) \in Nat \ {0}
         /\ SizeOf(ones) = SizeOf(mask) * PowerOf2(mask - ones)
<1>1. Width - mask \in Nat /\ mask - ones \in Nat /\ (Width - mask) + (mask - ones) = Width - ones
  BY FreeConstants
<1> QED
  BY ONLY <1>1, PowerRecursion, PowerSum DEF SizeOf

\* What one subnetwork adds to the part of a network that is scanned.  The next
\* address is that of a subnetwork again, and behind the last subnetwork it is
\* outside the network, unless that is the whole address space.
LEMMA ScanAdvances ==
  ASSUME NEW network, network.ip \in Ips, network.ones \in 0 .. Width,
         NEW mask \in 1 .. Width, network.ones <= mask,
         NEW ip \in Ips, InNetwork(network, ip), Number(ip) % SizeOf(mask) = 0,
         NEW subnet, subnet = [ip |-> ip, ones |-> mask]
  PROVE  /\ incSubnet(ip, mask) \in Ips
         /\ Number(incSubnet(ip, mask)) % SizeOf(mask) = 0
         /\ Canonical(subnet)
         /\ Members(subnet) \subseteq Members(network)
         /\ \A a \in Members(subnet) : ~(Number(a) < Number(ip))
         /\ network.ones > 0 => \A a \in Members(network) :
              (InNetwork(network, incSubnet(ip, mask)) => Number(a) < Number(incSubnet(ip, mask)))
                <=> Number(a) < Number(ip) \/ a \in Members(subnet)
<1> DEFINE s == SizeOf(mask)
           S == SizeOf(network.ones)
           T == PowerOf2(mask - network.ones)
           L == First(network)
           x == Number(ip)
           next == incSubnet(ip, mask)
           y == Number(next)
           top == PowerOf2(Width)
<1>0. subnet.ip = ip /\ subnet.ones = mask
  BY ONLY subnet = [ip |-> ip, ones |-> mask]
<1>1. s \in Nat \ {0} /\ T \in Nat \ {0} /\ S = s * T
  <2>1. mask \in 0 .. Width
    BY FreeConstants
  <2> QED
    BY <2>1, SizeDivides
<1>2. /\ S \in Nat \ {0} /\ L \in Nat /\ L + S <= top /\ (network.ones > 0 /\ L = 0 => S < top)
      /\ \A a \in Ips : InNetwork(network, a) <=> L <= Number(a) /\ Number(a) < L + S
  BY NetworkInterval
<1>3. x \in Nat /\ x % s = 0 /\ L <= x /\ x < L + S
  BY <1>2, AddressNumbers
<1>4. Canonical(subnet)
  BY <1>0 DEF Canonical
<1>5. \A a \in Ips : InNetwork(subnet, a) <=> x <= Number(a) /\ Number(a) < x + s
  <2>1. subnet.ip \in Ips /\ subnet.ones \in 0 .. Width
    BY <1>0, FreeConstants
  <2>2. Number(subnet.ip) = x /\ SizeOf(subnet.ones) = s
    BY <1>0
  <2> HIDE DEF x, s
  <2>3. x = First(subnet)
    BY ONLY <1>4, <2>1, <2>2, NetworkInterval
  <2>4. \A a \in Ips : InNetwork(subnet, a) <=> First(subnet) <= Number(a) /\ Number(a) < First(subnet) + SizeOf(subnet.ones)
    BY ONLY <2>1, NetworkInterval
  <2> QED
    BY ONLY <2>2, <2>3, <2>4
<1>6. next \in Ips /\ y = IF x + s < top THEN x + s ELSE x + s - top
  BY IncSubnetAdds
<1>7. L = s * (T * (x \div S)) /\ T * (x \div S) \in Nat
  <2>1. x \div S = Number(network.ip) \div S /\ L = (Number(network.ip) \div S) * S
    BY DEF InNetwork, First
  <2> DEFINE q == x \div S
  <2>2. q \in Nat /\ L = q * S
    BY ONLY <1>2, <1>3, <2>1
  <2> HIDE DEF q, S, s, T, L
  <2>3. q * (s * T) = s * (T * q) /\ T * q \in Nat
    BY ONLY <1>1, <2>2
  <2>4. L = s * (T * q)
    BY ONLY <1>1, <2>2, <2>3
  <2> QED
    BY ONLY <2>3, <2>4 DEF q
<1> DEFINE k == T * (x \div S) + T
<1>8. k \in Nat /\ L + S = s * k
  <2> DEFINE q == T * (x \div S)
  <2>1. q \in Nat /\ L = s * q
    BY ONLY <1>7
  <2> HIDE DEF q, S, s, T, L
  <2>2. q + T \in Nat /\ s * q + s * T = s * (q + T)
    BY ONLY <1>1, <2>1
  <2>3. L + S = s * (q + T)
    BY ONLY <1>1, <2>1, <2>2
  <2> QED
    BY ONLY <2>2, <2>3 DEF q
<1>9. \A a \in Ips : Number(a) \in Nat
  BY AddressNumbers
<1>10. top \in Nat
  BY PowerRecursion, FreeConstants
<1> HIDE DEF s, S, T, L, x, next, y, top, k
<1>11. (x + s) % s = 0 /\ x + s <= L + S
  BY ONLY <1>1, <1>3, <1>8, Multiples, Zenon
<1>12. y % s = 0
  <2>1. CASE x + s < top
    BY ONLY <1>6, <1>11, <2>1
  <2>2. CASE ~(x + s < top)
    <3>1. y = 0
      BY ONLY <1>1, <1>2, <1>3, <1>6, <1>10, <1>11, <2>2
    <3> QED
      BY ONLY <1>1, <3>1
  <2> QED
    BY ONLY <2>1, <2>2
<1>13. Members(subnet) \subseteq Members(network)
  <2>1. \A a \in Ips : InNetwork(subnet, a) => InNetwork(network, a)
    BY ONLY <1>1, <1>2, <1>3, <1>5, <1>9, <1>11
  <2> QED
    BY ONLY <2>1 DEF Members
<1>14. \A a \in Members(subnet) : ~(Number(a) < x)
  BY ONLY <1>3, <1>5, <1>9 DEF Members
<1>15. ASSUME network.ones > 0, NEW a \in Members(network)
       PROVE  (InNetwork(network, next) => Number(a) < y) <=> Number(a) < x \/ a \in Members(subnet)
  <2>1. a \in Ips /\ L <= Number(a) /\ Number(a) < L + S
    BY ONLY <1>2, a \in Members(network) DEF Members
  <2>2. a \in Members(subnet) <=> x <= Number(a) /\ Number(a) < x + s
    BY ONLY <1>5, <2>1 DEF Members
  <2>3. InNetwork(network, next) <=> L <= y /\ y < L + S
    BY ONLY <1>2, <1>6 DEF y
  <2> DEFINE n == Number(a)
  <2>4. n \in Nat
    BY ONLY <1>9, <2>1
  <2> HIDE DEF n
  <2>5. (L <= y /\ y < L + S => n < y) <=> n < x \/ (x <= n /\ n < x + s)
    <3>1. L <= n /\ n < L + S
      BY ONLY <2>1 DEF n
    <3>2. /\ L = 0 => S < top
          /\ s \in Nat \ {0} /\ S \in Nat /\ L \in Nat /\ top \in Nat /\ x \in Nat
          /\ L + S <= top /\ L <= x /\ x < L + S
      BY ONLY <1>1, <1>2, <1>3, <1>10, <1>15
    <3>3. CASE x + s < L + S
      <4>1. y = x + s
        BY ONLY <1>6, <3>2, <3>3
      <4> QED
        BY ONLY <2>4, <3>1, <3>2, <3>3, <4>1
    <3>4. CASE x + s = L + S
      <4>1. y = L + S \/ (y = 0 /\ L # 0)
        <5>1. CASE x + s < top
          BY ONLY <1>6, <3>4, <5>1
        <5>2. CASE ~(x + s < top)
          <6>1. y = x + s - top /\ x + s = top /\ L # 0
            BY ONLY <1>6, <3>2, <3>4, <5>2
          <6> QED
            BY ONLY <3>2, <6>1
        <5> QED
          BY ONLY <5>1, <5>2
      <4> QED
        BY ONLY <2>4, <3>1, <3>2, <3>4, <4>1
    <3> QED
      BY ONLY <1>11, <3>2, <3>3, <3>4
  <2> QED
    BY ONLY <2>2, <2>3, <2>5 DEF n
<1> QED
  BY ONLY <1>4, <1>6, <1>12, <1>13, <1>14, <1>15 DEF x, y, s, next

-----------------------------------------------------------------------------
(***************************************************************************)
(* The scan.  EveryAddressIsAccounted speaks of the end only.  While a     *)
(* network is scanned, what is listed of it and what was seen in use are   *)
(* together its addresses below the next subnetwork; that one is written   *)
(* with its own address, so that no subnetwork straddles the next.         *)
(***************************************************************************)
\* The scan alone.
FreeSpec == FreeInit /\ [][FreeNext]_freeVars

\* What is listed of a network and what was in use: no address twice, none in both,
\* none of another network; and all of them unless the limit is reached.
Sound(found, inUse, network) ==
  /\ Unrepeated(found, Ips)
  /\ Range(found) \cap inUse = {}
  /\ Range(found) \cup inUse \subseteq Members(network)
Complete(found, inUse, network) ==
  Len(found) < AddressLimit => Range(found) \cup inUse = Members(network)

\* The part of a network that is scanned when ip is the next subnetwork.
ScannedTo(network, ip) ==
  {a \in Members(network) : InNetwork(network, ip) => Number(a) < Number(ip)}

\* The type of the state; there is one list for each network that is begun.
FreeTypeInv ==
  /\ request \in FreeRequests
  /\ at \in Ips
  /\ free \in Seq(Seq(Ips)) /\ up \in Seq(SUBSET Ips)
  /\ Len(up) = Len(free) /\ Len(free) <= Len(request)
  /\ scan \in {"scanning", "ok", "failed"}
  /\ scan = "ok" => Len(free) = Len(request)

\* The inductive invariant.
FreeInv ==
  /\ FreeTypeInv
  /\ \A n \in 1 .. Len(free) : request[n].ones > 0 =>
       /\ Sound(free[n], up[n], request[n])
       /\ n < Len(free) \/ scan = "ok" => Complete(free[n], up[n], request[n])
  /\ Scanning =>
       /\ Number(at) % SizeOf(Mask) = 0
       /\ Network.ones > 0 => Range(free[Len(free)]) \cup up[Len(free)] = ScannedTo(Network, at)

\* The networks of a request.
LEMMA RequestedNetworks ==
  ASSUME NEW r \in FreeRequests
  PROVE  /\ Len(r) \in Nat /\ r \in Seq([ip : Ips, ones : 0 .. Width])
         /\ \A n \in 1 .. Len(r) : r[n].ip \in Ips /\ r[n].ones \in 0 .. Width
<1>1. r \in Seq([ip : Ips, ones : 0 .. Width])
  BY FreeAssumption, Zenon
<1> DEFINE R == [ip : Ips, ones : 0 .. Width]
<1>2. \A network \in R : network.ip \in Ips /\ network.ones \in 0 .. Width
  BY Zenon
<1> HIDE DEF R
<1>3. r \in Seq(R)
  BY ONLY <1>1 DEF R
<1>4. Len(r) \in Nat /\ \A n \in 1 .. Len(r) : r[n] \in R
  BY ONLY <1>3
<1> QED
  BY ONLY <1>1, <1>2, <1>4

\* Nothing is listed before the first network.
LEMMA FreeStart == FreeInit => FreeInv
<1> SUFFICES ASSUME FreeInit PROVE FreeInv
  OBVIOUS
<1>1. request \in FreeRequests /\ free = <<>> /\ up = <<>> /\ scan = "scanning"
  BY DEF FreeInit
<1>2. at \in Ips
  <2>1. CASE request = <<>>
    <3>1. [j \in 0 .. IpBytes - 1 |-> 0] \in Ips
      BY FreeConstants DEF Ips
    <3> QED
      BY <2>1, <3>1 DEF FreeInit
  <2>2. CASE request # <<>>
    <3>1. 1 \in 1 .. Len(request)
      BY ONLY <1>1, <2>2, RequestedNetworks
    <3> QED
      BY ONLY <1>1, <2>2, <3>1, RequestedNetworks, FreeInit DEF FreeInit
  <2> QED
    BY ONLY <2>1, <2>2
<1>3. FreeTypeInv
  <2>1. Len(request) \in Nat
    BY ONLY <1>1, RequestedNetworks
  <2> QED
    BY ONLY <1>1, <1>2, <2>1 DEF FreeTypeInv
<1>4. ~Scanning /\ Len(free) = 0
  BY ONLY <1>1 DEF Scanning
<1> QED
  BY ONLY <1>3, <1>4 DEF FreeInv

\* A network that is not scanned any further is complete.
LEMMA NothingMore ==
  ASSUME FreeInv, Scanning, ~MoreToScan, Network.ones > 0
  PROVE  Complete(free[Len(free)], up[Len(free)], Network)
<1> DEFINE found == free[Len(free)]
           inUse == up[Len(free)]
<1>1. Range(found) \cup inUse = ScannedTo(Network, at)
  BY DEF FreeInv
<1>2. ~InNetwork(Network, at) \/ ~(Len(found) < AddressLimit)
  BY DEF MoreToScan
<1> HIDE DEF found, inUse
<1>3. ~InNetwork(Network, at) => ScannedTo(Network, at) = Members(Network)
  BY Zenon DEF ScannedTo
<1>4. Complete(found, inUse, Network)
  BY ONLY <1>1, <1>2, <1>3, Zenon DEF Complete
<1> QED
  BY ONLY <1>4 DEF found, inUse

\* The end of the last network keeps the invariant.
LEMMA GetFreeAddressesStep == FreeInv /\ GetFreeAddresses => FreeInv'
<1> SUFFICES ASSUME FreeInv, GetFreeAddresses PROVE FreeInv'
  OBVIOUS
<1>1. /\ scan = "scanning" /\ Len(free) = Len(request) /\ (free # <<>> => ~MoreToScan)
      /\ scan' = "ok" /\ request' = request /\ at' = at /\ free' = free /\ up' = up
  BY Zenon DEF GetFreeAddresses
<1>2. FreeTypeInv
  BY DEF FreeInv
<1>3. FreeTypeInv'
  BY ONLY <1>1, <1>2 DEF FreeTypeInv
<1>4. ~Scanning'
  BY ONLY <1>1 DEF Scanning
<1>5. ASSUME NEW n \in 1 .. Len(free), request[n].ones > 0
      PROVE  Sound(free[n], up[n], request[n]) /\ Complete(free[n], up[n], request[n])
  <2>1. Sound(free[n], up[n], request[n]) /\ (n < Len(free) => Complete(free[n], up[n], request[n]))
    BY <1>5 DEF FreeInv
  <2>2. CASE n = Len(free)
    <3>1. Scanning /\ ~MoreToScan /\ Network = request[n]
      BY ONLY <1>1, <1>2, <2>2, n \in 1 .. Len(free) DEF Scanning, Network, FreeTypeInv
    <3>2. Network.ones > 0
      BY ONLY <1>5, <3>1
    <3>3. Complete(free[Len(free)], up[Len(free)], Network)
      BY ONLY <3>1, <3>2, FreeInv, NothingMore
    <3> QED
      BY ONLY <2>1, <2>2, <3>1, <3>3
  <2>3. CASE n # Len(free)
    <3>1. n < Len(free)
      BY ONLY <1>2, <2>3, n \in 1 .. Len(free) DEF FreeTypeInv
    <3> QED
      BY ONLY <2>1, <3>1
  <2> QED
    BY ONLY <2>2, <2>3
<1>6. \A n \in 1 .. Len(free') : request'[n].ones > 0 =>
         /\ Sound(free'[n], up'[n], request'[n])
         /\ Complete(free'[n], up'[n], request'[n])
  BY ONLY <1>1, <1>5
<1> QED
  BY ONLY <1>3, <1>4, <1>6 DEF FreeInv

\* The next network is started.
LEMMA scanNetworkStep == FreeInv /\ scanNetwork => FreeInv'
<1> SUFFICES ASSUME FreeInv, scanNetwork PROVE FreeInv'
  OBVIOUS
<1> DEFINE m == Len(free) + 1
           network == request[m]
<1>1. /\ scan = "scanning" /\ (free # <<>> => ~MoreToScan) /\ Len(free) < Len(request)
      /\ scan' = (IF Canonical(network) THEN "scanning" ELSE "failed")
      /\ at' = network.ip /\ free' = Append(free, <<>>) /\ up' = Append(up, {})
      /\ request' = request
  BY DEF scanNetwork
<1>2. FreeTypeInv
  BY DEF FreeInv
<1>3. /\ request \in FreeRequests /\ free \in Seq(Seq(Ips)) /\ up \in Seq(SUBSET Ips)
      /\ Len(up) = Len(free) /\ Len(free) \in Nat /\ Len(request) \in Nat
  <2>1. request \in FreeRequests /\ free \in Seq(Seq(Ips)) /\ up \in Seq(SUBSET Ips) /\ Len(up) = Len(free)
    BY ONLY <1>2 DEF FreeTypeInv
  <2>2. Len(request) \in Nat
    BY ONLY <2>1, RequestedNetworks
  <2> QED
    BY ONLY <2>1, <2>2
<1>4. m \in 1 .. Len(request) /\ network.ip \in Ips /\ network.ones \in 0 .. Width
  BY ONLY <1>1, <1>3, RequestedNetworks
<1>5. /\ free' \in Seq(Seq(Ips)) /\ Len(free') = m /\ free'[m] = <<>>
      /\ \A n \in 1 .. Len(free) : free'[n] = free[n]
  BY ONLY <1>1, <1>3
<1>6. /\ up' \in Seq(SUBSET Ips) /\ Len(up') = m /\ up'[m] = {}
      /\ \A n \in 1 .. Len(free) : up'[n] = up[n]
  BY ONLY <1>1, <1>3
<1> HIDE DEF network
<1>7. FreeTypeInv'
  <2>1. request' \in FreeRequests /\ at' \in Ips /\ scan' \in {"scanning", "failed"} /\ Len(free') <= Len(request')
    BY ONLY <1>1, <1>3, <1>4, <1>5
  <2> QED
    BY ONLY <1>5, <1>6, <2>1 DEF FreeTypeInv
<1>8. ASSUME NEW n \in 1 .. Len(free), request[n].ones > 0
      PROVE  Sound(free[n], up[n], request[n]) /\ Complete(free[n], up[n], request[n])
  <2>1. Sound(free[n], up[n], request[n]) /\ (n < Len(free) => Complete(free[n], up[n], request[n]))
    BY <1>8 DEF FreeInv
  <2>2. CASE n = Len(free)
    <3>1. Scanning /\ ~MoreToScan /\ Network = request[n]
      BY ONLY <1>1, <1>3, <2>2, n \in 1 .. Len(free) DEF Scanning, Network
    <3>2. Network.ones > 0
      BY ONLY <1>8, <3>1
    <3>3. Complete(free[Len(free)], up[Len(free)], Network)
      BY ONLY <3>1, <3>2, FreeInv, NothingMore
    <3> QED
      BY ONLY <2>1, <2>2, <3>1, <3>3
  <2>3. CASE n # Len(free)
    <3>1. n < Len(free)
      BY ONLY <1>3, <2>3, n \in 1 .. Len(free)
    <3> QED
      BY ONLY <2>1, <3>1
  <2> QED
    BY ONLY <2>2, <2>3
<1>9. Range(<<>>) = {} /\ Unrepeated(<<>>, Ips)
  <2>1. DOMAIN <<>> = {} /\ <<>> \in Seq(Ips)
    OBVIOUS
  <2> QED
    BY ONLY <2>1 DEF Range, Unrepeated, IsInjective
<1>10. Sound(free'[m], up'[m], request'[m])
  BY ONLY <1>5, <1>6, <1>9 DEF Sound
<1>11. \A n \in 1 .. Len(free') : request'[n].ones > 0 =>
          /\ Sound(free'[n], up'[n], request'[n])
          /\ n < Len(free') \/ scan' = "ok" => Complete(free'[n], up'[n], request'[n])
  <2> SUFFICES ASSUME NEW n \in 1 .. Len(free'), request'[n].ones > 0
               PROVE  /\ Sound(free'[n], up'[n], request'[n])
                      /\ n < Len(free') \/ scan' = "ok" => Complete(free'[n], up'[n], request'[n])
    OBVIOUS
  <2>1. CASE n \in 1 .. Len(free)
    <3>1. free'[n] = free[n] /\ up'[n] = up[n] /\ request'[n] = request[n]
      BY ONLY <1>1, <1>5, <1>6, <2>1
    <3> QED
      BY ONLY <1>1, <1>8, <2>1, <3>1, request'[n].ones > 0, Zenon
  <2>2. CASE n \notin 1 .. Len(free)
    <3>1. n = m /\ ~(n < Len(free'))
      BY ONLY <1>3, <1>5, <2>2, n \in 1 .. Len(free')
    <3>2. scan' # "ok"
      BY ONLY <1>1
    <3> QED
      BY ONLY <1>10, <3>1, <3>2
  <2> QED
    BY ONLY <2>1, <2>2
<1>12. ASSUME Scanning' PROVE /\ Number(at') % SizeOf(Mask') = 0
                              /\ Range(free'[Len(free')]) \cup up'[Len(free')] = ScannedTo(Network', at')
  <2>1. Canonical(network) /\ Network' = network /\ at' = network.ip
    BY ONLY <1>1, <1>5, <1>12 DEF Scanning, Network, network
  <2>2. Mask' \in 1 .. Width /\ network.ones <= Mask'
    <3>1. Mask' = IF network.ones < MinSubnetMaskSize THEN MinSubnetMaskSize ELSE network.ones
      BY ONLY <2>1 DEF Mask
    <3>2. MinSubnetMaskSize \in 1 .. Width /\ Width \in Nat
      BY FreeConstants
    <3> QED
      BY ONLY <1>4, <3>1, <3>2
  <2>3. /\ SizeOf(network.ones) = SizeOf(Mask') * PowerOf2(Mask' - network.ones)
        /\ SizeOf(Mask') \in Nat \ {0} /\ PowerOf2(Mask' - network.ones) \in Nat \ {0}
    <3>1. Mask' \in 0 .. Width
      BY ONLY <2>2, FreeConstants
    <3> QED
      BY ONLY <1>4, <2>2, <3>1, SizeDivides, Zenon
  <2>4. Number(network.ip) \in Nat /\ Number(network.ip) % SizeOf(network.ones) = 0
    BY ONLY <1>4, <2>1, AddressNumbers DEF Canonical
  <2>5. Number(network.ip) % SizeOf(Mask') = 0
    <3> DEFINE x == Number(network.ip)
               S == SizeOf(network.ones)
               s == SizeOf(Mask')
               T == PowerOf2(Mask' - network.ones)
               q == x \div S
    <3>1. x \in Nat /\ s \in Nat \ {0} /\ T \in Nat \ {0} /\ S = s * T /\ x % S = 0
      BY ONLY <2>3, <2>4
    <3> HIDE DEF x, S, s, T
    <3>2. S \in Nat \ {0}
      BY ONLY <3>1
    <3>3. q \in Nat /\ x = q * S
      BY ONLY <3>1, <3>2
    <3> HIDE DEF q
    <3> DEFINE p == q * T
    <3>4. x = p * s + 0 /\ p \in Nat /\ x \in Nat /\ s \in Nat \ {0}
      BY ONLY <3>1, <3>3
    <3> HIDE DEF p
    <3>5. x % s = 0
      BY ONLY <3>4
    <3> QED
      BY ONLY <3>5 DEF x, s
  <2>6. ScannedTo(network, network.ip) = {}
    <3>1. \A a \in Members(network) : ~(Number(a) < Number(network.ip))
      <4>1. Number(network.ip) = First(network)
        BY ONLY <1>4, <2>1, NetworkInterval
      <4>2. \A a \in Ips : Number(a) \in Nat /\ (InNetwork(network, a) => First(network) <= Number(a))
        BY ONLY <1>4, NetworkInterval, AddressNumbers
      <4> QED
        BY ONLY <2>4, <4>1, <4>2 DEF Members
    <3>2. InNetwork(network, network.ip)
      BY DEF InNetwork
    <3> QED
      BY ONLY <3>1, <3>2 DEF ScannedTo
  <2>7. Range(free'[Len(free')]) \cup up'[Len(free')] = {}
    BY ONLY <1>5, <1>6, <1>9
  <2> QED
    BY ONLY <2>1, <2>5, <2>6, <2>7
<1> QED
  BY ONLY <1>7, <1>11, <1>12 DEF FreeInv

\* A subnetwork is scanned.
LEMMA scanSubNetworkStep == FreeInv /\ scanSubNetwork => FreeInv'
<1> SUFFICES ASSUME FreeInv, scanSubNetwork PROVE FreeInv'
  OBVIOUS
<1> DEFINE m == Len(free)
           mask == Mask
           subnet == [ip |-> at, ones |-> mask]
<1>1. Scanning /\ MoreToScan /\ request' = request
  BY DEF scanSubNetwork
<1>2. FreeTypeInv
  BY DEF FreeInv
<1>3. /\ request \in FreeRequests /\ at \in Ips /\ free \in Seq(Seq(Ips)) /\ up \in Seq(SUBSET Ips)
      /\ Len(up) = m /\ m \in 1 .. Len(request) /\ scan = "scanning"
  <2>1. request \in FreeRequests /\ at \in Ips /\ free \in Seq(Seq(Ips)) /\ up \in Seq(SUBSET Ips)
    BY ONLY <1>2 DEF FreeTypeInv
  <2>2. Len(up) = m /\ m <= Len(request) /\ scan = "scanning" /\ free # <<>>
    BY ONLY <1>1, <1>2 DEF FreeTypeInv, Scanning
  <2>3. Len(request) \in Nat
    BY ONLY <2>1, RequestedNetworks
  <2>4. m \in Nat \ {0}
    BY ONLY <2>1, <2>2
  <2> QED
    BY ONLY <2>1, <2>2, <2>3, <2>4
<1>4. Network = request[m] /\ Network.ip \in Ips /\ Network.ones \in 0 .. Width
  <2>1. Network = request[m]
    BY DEF Network
  <2> QED
    BY ONLY <1>3, <2>1, RequestedNetworks
<1>5. mask \in 1 .. Width /\ Network.ones <= mask
  <2>1. MinSubnetMaskSize \in 1 .. Width /\ Width \in Nat
    BY FreeConstants
  <2> QED
    BY ONLY <1>4, <2>1 DEF Mask
<1>6. CASE scan' = "failed" /\ UNCHANGED <<at, free, up>>
  <2>1. /\ free' = free /\ up' = up /\ at' = at /\ scan' = "failed"
    BY <1>6
  <2>2. FreeTypeInv'
    BY ONLY <1>1, <1>2, <2>1 DEF FreeTypeInv
  <2>3. ~Scanning'
    BY ONLY <2>1 DEF Scanning
  <2>4. \A n \in 1 .. Len(free) : request[n].ones > 0 =>
          /\ Sound(free[n], up[n], request[n])
          /\ n < Len(free) => Complete(free[n], up[n], request[n])
    BY ONLY FreeInv DEF FreeInv
  <2>5. \A n \in 1 .. Len(free') : request'[n].ones > 0 =>
          /\ Sound(free'[n], up'[n], request'[n])
          /\ n < Len(free') \/ scan' = "ok" => Complete(free'[n], up'[n], request'[n])
    BY ONLY <1>1, <2>1, <2>4
  <2> QED
    BY ONLY <2>2, <2>3, <2>5 DEF FreeInv
<1>7. ASSUME NEW occupied \in SUBSET Members(subnet),
             free' = [free EXCEPT ![m] = @ \o FreeFrom(at, subnet, occupied)],
             up' = [up EXCEPT ![m] = @ \cup occupied],
             at' = incSubnet(at, mask), scan' = scan
      PROVE  FreeInv'
  <2> DEFINE list == FreeFrom(at, subnet, occupied)
  <2>0. InNetwork(Network, at) /\ Number(at) % SizeOf(mask) = 0
    BY <1>1 DEF FreeInv, MoreToScan
  <2>1. /\ at' \in Ips
        /\ Number(at') % SizeOf(mask) = 0
        /\ Canonical(subnet)
        /\ Members(subnet) \subseteq Members(Network)
        /\ \A a \in Members(subnet) : ~(Number(a) < Number(at))
        /\ Network.ones > 0 => \A a \in Members(Network) :
             (InNetwork(Network, at') => Number(a) < Number(at'))
               <=> Number(a) < Number(at) \/ a \in Members(subnet)
    <3> HIDE DEF mask
    <3>1. subnet = [ip |-> at, ones |-> mask]
      OBVIOUS
    <3> HIDE DEF subnet
    <3> QED
      BY ONLY <1>3, <1>4, <1>5, <1>7, <2>0, <3>1, ScanAdvances
  <2>2. Unrepeated(list, Ips) /\ Range(list) = Members(subnet) \ occupied
    <3> HIDE DEF mask
    <3>0. mask \in 0 .. Width
      BY ONLY <1>5, FreeConstants
    <3>1. subnet = [ip |-> at, ones |-> mask]
      OBVIOUS
    <3> HIDE DEF subnet
    <3> QED
      BY ONLY <1>3, <2>1, <3>0, <3>1, FreeFromLists
  <2> HIDE DEF subnet, mask, list
  <2>3. list \in Seq(Ips)
    BY ONLY <2>2 DEF Unrepeated
  <2>4. free[m] \in Seq(Ips) /\ up[m] \in SUBSET Ips
    BY ONLY <1>3
  <2>5. /\ free' \in Seq(Seq(Ips)) /\ Len(free') = m /\ free'[m] = free[m] \o list
        /\ \A n \in 1 .. m : n # m => free'[n] = free[n]
    <3>1. free[m] \o list \in Seq(Ips)
      BY ONLY <2>3, <2>4
    <3>2. free' = [free EXCEPT ![m] = free[m] \o list]
      BY ONLY <1>7 DEF list
    <3> DEFINE new == free[m] \o list
    <3> HIDE DEF new
    <3>3. new \in Seq(Ips) /\ free' = [free EXCEPT ![m] = new]
      BY ONLY <3>1, <3>2 DEF new
    <3>4. free' \in Seq(Seq(Ips)) /\ Len(free') = m /\ free'[m] = new /\ \A n \in 1 .. m : n # m => free'[n] = free[n]
      BY ONLY <1>3, <3>3
    <3> QED
      BY ONLY <3>4 DEF new
  <2>6. /\ up' \in Seq(SUBSET Ips) /\ Len(up') = m /\ up'[m] = up[m] \cup occupied
        /\ \A n \in 1 .. m : n # m => up'[n] = up[n]
    <3>1. occupied \in SUBSET Ips
      BY DEF Members
    <3> DEFINE new == up[m] \cup occupied
    <3>2. new \in SUBSET Ips /\ up' = [up EXCEPT ![m] = new]
      BY ONLY <1>7, <2>4, <3>1
    <3> HIDE DEF new
    <3>3. up' \in Seq(SUBSET Ips) /\ Len(up') = m /\ up'[m] = new /\ \A n \in 1 .. m : n # m => up'[n] = up[n]
      BY ONLY <1>3, <3>2
    <3> QED
      BY ONLY <3>3 DEF new
  <2>7. Network' = Network /\ Mask' = mask
    <3>1. Network' = Network
      BY ONLY <1>1, <2>5 DEF Network
    <3> QED
      BY ONLY <3>1 DEF Mask, mask
  <2>8. FreeTypeInv'
    <3>1. request' \in FreeRequests /\ scan' = "scanning" /\ Len(free') <= Len(request')
      <4>1. m <= Len(request) /\ m \in Nat
        BY ONLY <1>3, RequestedNetworks
      <4> QED
        BY ONLY <1>1, <1>3, <1>7, <2>5, <4>1
    <3> QED
      BY ONLY <2>1, <2>5, <2>6, <3>1 DEF FreeTypeInv
  <2>9. ASSUME Network.ones > 0
        PROVE  /\ Sound(free'[m], up'[m], Network)
               /\ Range(free'[m]) \cup up'[m] = ScannedTo(Network, at')
    <3> DEFINE scanned == ScannedTo(Network, at)
    <3>1. Sound(free[m], up[m], Network) /\ Range(free[m]) \cup up[m] = scanned
      <4>1. m \in 1 .. Len(free)
        BY ONLY <1>3
      <4> QED
        BY ONLY <1>1, <1>4, <2>9, <4>1, FreeInv DEF FreeInv
    <3>2. scanned = {a \in Members(Network) : Number(a) < Number(at)}
      BY ONLY <2>0 DEF ScannedTo
    <3>3. ScannedTo(Network, at') = scanned \cup Members(subnet)
      BY ONLY <2>1, <2>9, <3>2 DEF ScannedTo
    <3>4. scanned \cap Members(subnet) = {}
      BY ONLY <2>1, <3>2
    <3> HIDE DEF scanned
    <3>5. Unrepeated(free[m], Ips) /\ Apart(free[m], list)
      BY ONLY <2>2, <3>1, <3>4 DEF Sound, Apart
    <3>6. Unrepeated(free'[m], Ips) /\ Range(free'[m]) = Range(free[m]) \cup Range(list)
      <4>1. Unrepeated(free'[m], Ips) /\ HasAllOf(free'[m], free[m], list)
        BY ONLY <2>2, <2>5, <3>5, ConcatInjective, Zenon
      <4> QED
        BY ONLY <4>1 DEF HasAllOf
    <3>7. occupied \subseteq Members(subnet)
      OBVIOUS
    <3>8. Range(free'[m]) \cup up'[m] = scanned \cup Members(subnet)
      BY ONLY <2>2, <2>6, <3>1, <3>6, <3>7
    <3>9. Range(free'[m]) \cap up'[m] = {}
      <4>1. Range(free[m]) \cap up[m] = {}
        BY ONLY <3>1 DEF Sound
      <4> QED
        BY ONLY <2>2, <2>6, <3>1, <3>4, <3>6, <3>7, <4>1
    <3>10. scanned \subseteq Members(Network)
      BY ONLY <3>2
    <3> QED
      BY ONLY <2>1, <3>3, <3>6, <3>8, <3>9, <3>10 DEF Sound
  <2>10. ASSUME NEW n \in 1 .. Len(free'), request'[n].ones > 0
         PROVE  /\ Sound(free'[n], up'[n], request'[n])
                /\ n < Len(free') \/ scan' = "ok" => Complete(free'[n], up'[n], request'[n])
    <3>0. scan' # "ok" /\ n \in 1 .. m
      BY ONLY <1>3, <1>7, <2>5, <2>10
    <3>1. CASE n = m
      <4>1. request'[n] = Network /\ ~(n < Len(free'))
        BY ONLY <1>1, <1>3, <1>4, <2>5, <3>1
      <4> QED
        BY ONLY <2>9, <2>10, <3>0, <3>1, <4>1
    <3>2. CASE n # m
      <4>1. free'[n] = free[n] /\ up'[n] = up[n] /\ request'[n] = request[n] /\ Len(free') = Len(free)
        BY ONLY <1>1, <2>5, <2>6, <3>0, <3>2
      <4>2. /\ Sound(free[n], up[n], request[n])
            /\ n < Len(free) => Complete(free[n], up[n], request[n])
        BY ONLY <2>10, <3>0, <4>1, FreeInv DEF FreeInv
      <4> QED
        BY ONLY <3>0, <4>1, <4>2
    <3> QED
      BY ONLY <3>1, <3>2
  <2>11. /\ Number(at') % SizeOf(Mask') = 0
         /\ Network'.ones > 0 => Range(free'[Len(free')]) \cup up'[Len(free')] = ScannedTo(Network', at')
    BY ONLY <2>1, <2>5, <2>7, <2>9
  <2> QED
    BY ONLY <2>8, <2>10, <2>11 DEF FreeInv
<1> QED
  BY <1>6, <1>7, Zenon DEF scanSubNetwork, Members

\* The invariant of the scan holds in every reachable state.
THEOREM FreeInvariance == FreeSpec => []FreeInv
<1>1. FreeInv /\ [FreeNext]_freeVars => FreeInv'
  <2> SUFFICES ASSUME FreeInv, [FreeNext]_freeVars PROVE FreeInv'
    OBVIOUS
  <2>1. CASE scanNetwork
    BY ONLY <2>1, FreeInv, scanNetworkStep
  <2>2. CASE scanSubNetwork
    BY ONLY <2>2, FreeInv, scanSubNetworkStep
  <2>3. CASE GetFreeAddresses
    BY ONLY <2>3, FreeInv, GetFreeAddressesStep
  <2>4. CASE UNCHANGED freeVars
    <3>1. request' = request /\ at' = at /\ free' = free /\ up' = up /\ scan' = scan
      BY ONLY <2>4 DEF freeVars
    <3>2. FreeTypeInv' /\ (Scanning' <=> Scanning) /\ Network' = Network /\ Mask' = Mask
      BY ONLY <3>1, FreeInv DEF FreeInv, FreeTypeInv, Scanning, Network, Mask
    <3> QED
      BY ONLY <3>1, <3>2, FreeInv DEF FreeInv
  <2> QED
    BY <2>1, <2>2, <2>3, <2>4 DEF FreeNext
<1> QED
  BY <1>1, FreeStart, PTL DEF FreeSpec

\* Of every network that is reported, the whole address space apart, no address is
\* listed twice, none lies outside or was seen in use, and below the limit none is
\* missing: for bytes and addresses of any length, any limit and any request.
THEOREM AddressesAccounted == FreeSpec => []EveryAddressIsAccounted
<1>1. FreeInv => EveryAddressIsAccounted
  <2> SUFFICES ASSUME FreeInv, scan = "ok", NEW n \in DOMAIN request, request[n].ones > 0
               PROVE  /\ IsInjective(free[n])
                      /\ Range(free[n]) \cap up[n] = {} /\ Range(free[n]) \cup up[n] \subseteq Members(request[n])
                      /\ Len(free[n]) < AddressLimit => Range(free[n]) \cup up[n] = Members(request[n])
    BY Zenon DEF EveryAddressIsAccounted, Range, Members
  <2>1. n \in 1 .. Len(free)
    <3>1. request \in FreeRequests /\ Len(free) = Len(request)
      BY DEF FreeInv, FreeTypeInv
    <3>2. DOMAIN request = 1 .. Len(request)
      <4>1. request \in Seq([ip : Ips, ones : 0 .. Width])
        BY ONLY <3>1, RequestedNetworks, Zenon
      <4> QED
        BY ONLY <4>1
    <3> QED
      BY ONLY <3>1, <3>2, n \in DOMAIN request
  <2>2. Sound(free[n], up[n], request[n]) /\ Complete(free[n], up[n], request[n])
    BY ONLY <2>1, FreeInv, scan = "ok", request[n].ones > 0 DEF FreeInv
  <2> QED
    BY ONLY <2>2 DEF Sound, Complete, Unrepeated
<1> QED
  BY <1>1, FreeInvariance, PTL

\* scanSubNetwork is only ever asked for a subnetwork that is written with its own
\* address: its error "Requested CIDR %s is not equal to provided subNetwork" is dead.
THEOREM SubnetworksAligned ==
  FreeSpec => [](Scanning => Canonical([ip |-> at, ones |-> Mask]))
<1>1. FreeInv => (Scanning => Canonical([ip |-> at, ones |-> Mask]))
  BY DEF FreeInv, Canonical
<1> QED
  BY <1>1, FreeInvariance, PTL

\* The loop of scanNetwork goes forward: as long as it stays in a network other than
\* the whole address space, each subnetwork has a larger number than the one before.
THEOREM ScanGoesForward ==
  FreeSpec => [][scanSubNetwork /\ scan' = "scanning" /\ Network.ones > 0 /\ InNetwork(Network, at')
                   => Number(at) < Number(at')]_freeVars
<1>1. ASSUME FreeInv, scanSubNetwork, scan' = "scanning", Network.ones > 0, InNetwork(Network, at')
      PROVE  Number(at) < Number(at')
  <2> DEFINE mask == Mask
             subnet == [ip |-> at, ones |-> mask]
  <2>1. Scanning /\ InNetwork(Network, at) /\ at' = incSubnet(at, mask)
    BY <1>1 DEF scanSubNetwork, MoreToScan
  <2>2. at \in Ips /\ Number(at) % SizeOf(mask) = 0
    BY <1>1, <2>1 DEF FreeInv, FreeTypeInv
  <2>3. Network.ip \in Ips /\ Network.ones \in 0 .. Width
    <3>1. Len(free) \in 1 .. Len(request) /\ request \in FreeRequests
      <4>1. free \in Seq(Seq(Ips)) /\ free # <<>> /\ Len(free) <= Len(request) /\ request \in FreeRequests
        BY <1>1, <2>1 DEF FreeInv, FreeTypeInv, Scanning
      <4>2. Len(request) \in Nat
        BY ONLY <4>1, RequestedNetworks
      <4> QED
        BY ONLY <4>1, <4>2
    <3> QED
      BY ONLY <3>1, RequestedNetworks DEF Network
  <2>4. mask \in 1 .. Width /\ Network.ones <= mask
    <3>1. MinSubnetMaskSize \in 1 .. Width /\ Width \in Nat
      BY FreeConstants
    <3> QED
      BY ONLY <2>3, <3>1 DEF Mask
  <2> HIDE DEF mask
  <2>5. subnet = [ip |-> at, ones |-> mask] /\ at \in Members(subnet)
    BY <2>2 DEF Members, InNetwork
  <2>6. at \in Members(Network)
    BY ONLY <2>1, <2>2 DEF Members
  <2> HIDE DEF subnet
  <2>7. \A a \in Members(Network) :
           (InNetwork(Network, at') => Number(a) < Number(at')) <=> Number(a) < Number(at) \/ a \in Members(subnet)
    BY ONLY <1>1, <2>1, <2>2, <2>3, <2>4, <2>5, ScanAdvances
  <2> QED
    BY ONLY <1>1, <2>5, <2>6, <2>7
<1>2. FreeInv /\ [FreeNext]_freeVars =>
        [scanSubNetwork /\ scan' = "scanning" /\ Network.ones > 0 /\ InNetwork(Network, at')
           => Number(at) < Number(at')]_freeVars
  BY <1>1
<1> QED
  BY <1>2, FreeInvariance, PTL DEF FreeSpec
=============================================================================
