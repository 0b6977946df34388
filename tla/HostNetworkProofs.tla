------------------------- MODULE HostNetworkProofs --------------------------
(***************************************************************************)
(* The host on its network, for any host: the network inventory and the    *)
(* order of the connectivity report.  Both rest on what a sort may return, *)
(* so the sorting lemmas come first.                                       *)
(*                                                                         *)
(* No property is inductive as it stands.  Each section states the         *)
(* invariant its proof needs.                                              *)
(***************************************************************************)
EXTENDS HostNetwork, ConnectivityOrder, SequenceLemmas, FiniteSetTheorems
-----------------------------------------------------------------------------
(***************************************************************************)
(* Ranks: in a finite set that is totally ordered by R, the elements at or *)
(* below an element count its place.                                       *)
(***************************************************************************)
TotalOrder(R, S) ==
  /\ \A x \in S : <<x, x>> \in R
  /\ \A x, y \in S : <<x, y>> \in R \/ <<y, x>> \in R
  /\ \A x, y \in S : <<x, y>> \in R /\ <<y, x>> \in R => x = y
  /\ \A x, y, z \in S : <<x, y>> \in R /\ <<y, z>> \in R => <<x, z>> \in R

RankIn(R, S, x) == Cardinality({y \in S : <<y, x>> \in R})

\* A larger element has a larger rank.
LEMMA RankIncreases ==
  ASSUME NEW S, IsFiniteSet(S), NEW R, TotalOrder(R, S),
         NEW x \in S, NEW y \in S, <<x, y>> \in R, x # y
  PROVE  RankIn(R, S, x) < RankIn(R, S, y)
<1> DEFINE X == {z \in S : <<z, x>> \in R}
           Y == {z \in S : <<z, y>> \in R}
<1>1. X \subseteq Y /\ y \in Y /\ y \notin X
  BY DEF TotalOrder
<1>2. IsFiniteSet(Y)
  BY FS_Subset, Zenon
<1>3. /\ IsFiniteSet(X) /\ Cardinality(X) <= Cardinality(Y)
      /\ Cardinality(X) = Cardinality(Y) => X = Y
  BY ONLY <1>1, <1>2, FS_Subset, Zenon
<1>4. Cardinality(X) \in Nat /\ Cardinality(Y) \in Nat
  BY ONLY <1>2, <1>3, FS_CardinalityType
<1>5. Cardinality(X) < Cardinality(Y)
  BY ONLY <1>1, <1>3, <1>4
<1> QED
  BY <1>5 DEF RankIn

\* The ranks are the numbers from 1 to the size of the set, each once, in the order.
LEMMA RankBijection ==
  ASSUME NEW S, IsFiniteSet(S), NEW R, TotalOrder(R, S)
  PROVE  /\ Cardinality(S) \in Nat
         /\ \A x \in S : RankIn(R, S, x) \in 1 .. Cardinality(S)
         /\ \A x, y \in S : RankIn(R, S, x) <= RankIn(R, S, y) <=> <<x, y>> \in R
         /\ \A x, y \in S : RankIn(R, S, x) = RankIn(R, S, y) => x = y
         /\ \A n \in 1 .. Cardinality(S) : \E x \in S : RankIn(R, S, x) = n
<1>0. Cardinality(S) \in Nat
  BY FS_CardinalityType
<1>1. \A x \in S : RankIn(R, S, x) \in 1 .. Cardinality(S)
  <2> TAKE x \in S
  <2> DEFINE X == {z \in S : <<z, x>> \in R}
  <2>1. X \subseteq S /\ x \in X
    BY DEF TotalOrder
  <2>2. IsFiniteSet(X) /\ Cardinality(X) <= Cardinality(S)
    BY ONLY <2>1, FS_Subset, IsFiniteSet(S), Zenon
  <2>3. Cardinality(X) \in Nat /\ Cardinality(X) # 0
    BY ONLY <2>1, <2>2, FS_CardinalityType, FS_EmptySet
  <2>4. Cardinality(X) \in 1 .. Cardinality(S)
    BY ONLY <1>0, <2>2, <2>3
  <2> QED
    BY <2>4 DEF RankIn
<1>2. \A x, y \in S : x # y /\ <<x, y>> \in R => RankIn(R, S, x) < RankIn(R, S, y)
  BY RankIncreases
<1>3. \A x, y \in S : RankIn(R, S, x) = RankIn(R, S, y) => x = y
  <2> TAKE x, y \in S
  <2>1. <<x, y>> \in R \/ <<y, x>> \in R
    BY DEF TotalOrder
  <2>2. RankIn(R, S, x) \in Int /\ RankIn(R, S, y) \in Int
    BY <1>1
  <2> QED
    BY ONLY <1>2, <2>1, <2>2
<1>4. \A x, y \in S : RankIn(R, S, x) <= RankIn(R, S, y) <=> <<x, y>> \in R
  <2> TAKE x, y \in S
  <2>1. /\ <<x, y>> \in R \/ <<y, x>> \in R
        /\ x = y => <<x, y>> \in R
    BY DEF TotalOrder
  <2>2. RankIn(R, S, x) \in Int /\ RankIn(R, S, y) \in Int
    BY <1>1
  <2> QED
    BY ONLY <1>2, <2>1, <2>2
<1>5. \A n \in 1 .. Cardinality(S) : \E x \in S : RankIn(R, S, x) = n
  <2> DEFINE f == [x \in S |-> RankIn(R, S, x)]
             N == 1 .. Cardinality(S)
  <2>1. f \in Injection(S, N)
    BY <1>1, <1>3 DEF Injection, IsInjective
  <2>2. IsFiniteSet(N) /\ Cardinality(N) = Cardinality(S)
    BY <1>0, FS_Interval
  <2> HIDE DEF N
  <2>3. f \in Surjection(S, N)
    BY ONLY <2>1, <2>2, FS_Injection
  <2> QED
    BY <2>3, Zenon DEF Surjection, N
<1> QED
  BY <1>0, <1>1, <1>3, <1>4, <1>5

\* f lists the elements of S, all of them and each once, in the order R.
Lists(f, S, R) ==
  /\ f \in [1 .. Cardinality(S) -> S]
  /\ \A x \in S : \E n \in 1 .. Cardinality(S) : f[n] = x
  /\ \A m, n \in 1 .. Cardinality(S) : m < n => <<f[m], f[n]>> \in R /\ <<f[n], f[m]>> \notin R

\* The elements of a set in an order are all there, and in that order.
LEMMA RankedElements ==
  ASSUME NEW S, IsFiniteSet(S), NEW R, TotalOrder(R, S)
  PROVE  Cardinality(S) \in Nat /\ Lists(Ranked(S, R), S, R)
<1> DEFINE N == 1 .. Cardinality(S)
           rank(x) == RankIn(R, S, x)
           f == Ranked(S, R)
<1>1. /\ Cardinality(S) \in Nat
      /\ \A x \in S : rank(x) \in N
      /\ \A x, y \in S : rank(x) <= rank(y) <=> <<x, y>> \in R
      /\ \A x, y \in S : rank(x) = rank(y) => x = y
      /\ \A n \in N : \E x \in S : rank(x) = n
  BY RankBijection
<1>2. f = [n \in N |-> CHOOSE x \in S : rank(x) = n]
  BY Zenon DEF Ranked, RankIn
<1> HIDE DEF f, rank
<1>3. f \in [N -> S] /\ \A n \in N : rank(f[n]) = n
  BY ONLY <1>1, <1>2
<1>4. \A x \in S : \E n \in N : f[n] = x
  <2> TAKE x \in S
  <2>1. rank(x) \in N /\ f[rank(x)] \in S /\ rank(f[rank(x)]) = rank(x)
    BY ONLY <1>1, <1>3
  <2> QED
    BY ONLY <1>1, <2>1
<1>5. \A m, n \in N : m < n => <<f[m], f[n]>> \in R /\ <<f[n], f[m]>> \notin R
  <2> TAKE m, n \in N
  <2> HAVE m < n
  <2>1. f[m] \in S /\ f[n] \in S /\ rank(f[m]) = m /\ rank(f[n]) = n
    BY ONLY <1>3
  <2>2. m <= n /\ ~(n <= m)
    BY ONLY <1>1, m < n
  <2> QED
    BY ONLY <1>1, <2>1, <2>2
<1> QED
  BY <1>1, <1>3, <1>4, <1>5 DEF f, Lists
\* A comparison that sort.SliceStable may be given, on the positions in D.
WeakOrder(less, D) ==
  /\ \A i, j \in D : ~(<<i, j>> \in less /\ <<j, i>> \in less)
  /\ \A i, j, k \in D : <<i, j>> \in less /\ <<j, k>> \in less => <<i, k>> \in less
  /\ \A i, j, k \in D : <<i, k>> \in less => <<i, j>> \in less \/ <<j, k>> \in less

\* Comparing numbers is such a comparison.
LEMMA KeyOrder ==
  ASSUME NEW D, NEW key \in [D -> Int], NEW less,
         \A i, j \in D : <<i, j>> \in less <=> key[i] < key[j]
  PROVE  WeakOrder(less, D)
<1>1. ASSUME NEW i \in D, NEW j \in D PROVE ~(<<i, j>> \in less /\ <<j, i>> \in less)
  OBVIOUS
<1>2. ASSUME NEW i \in D, NEW j \in D, NEW k \in D
      PROVE  /\ <<i, j>> \in less /\ <<j, k>> \in less => <<i, k>> \in less
             /\ <<i, k>> \in less => <<i, j>> \in less \/ <<j, k>> \in less
  <2>1. key[i] \in Int /\ key[j] \in Int /\ key[k] \in Int
    OBVIOUS
  <2> QED
    BY <2>1
<1> QED
  BY <1>1, <1>2 DEF WeakOrder

\* Positions are ordered by the comparison, and by themselves where it does not tell.
LEMMA StableOrder ==
  ASSUME NEW D, D \subseteq Nat, NEW less, WeakOrder(less, D), NEW R,
         \A i, j \in D : <<i, j>> \in R <=> (<<i, j>> \in less \/ (<<j, i>> \notin less /\ i <= j))
  PROVE  TotalOrder(R, D)
<1>0. \A i \in D : i \in Nat
  OBVIOUS
<1>1. ASSUME NEW x \in D, NEW y \in D PROVE <<x, y>> \in R \/ <<y, x>> \in R
  <2>1. x \in Nat /\ y \in Nat
    BY <1>0
  <2> QED
    BY <2>1 DEF WeakOrder
<1>2. \A x, y \in D : <<x, y>> \in R /\ <<y, x>> \in R => x = y
  BY <1>0 DEF WeakOrder
<1>3. \A x, y, z \in D : <<x, y>> \in R /\ <<y, z>> \in R => <<x, z>> \in R
  <2> TAKE x, y, z \in D
  <2> HAVE <<x, y>> \in R /\ <<y, z>> \in R
  <2>1. x \in Nat /\ y \in Nat /\ z \in Nat
    BY <1>0
  <2>2. CASE <<x, z>> \in less
    BY <2>2, Zenon
  <2>3. CASE <<x, z>> \notin less
    <3>1. <<y, x>> \in less \/ <<x, y>> \notin less \/ <<y, z>> \notin less
      BY <2>3 DEF WeakOrder
    <3>2. <<z, x>> \in less => <<z, y>> \in less \/ <<y, x>> \in less
      BY DEF WeakOrder
    <3>3. (<<x, y>> \in less => <<x, z>> \in less \/ <<z, y>> \in less)
          /\ (<<y, z>> \in less => <<y, x>> \in less \/ <<x, z>> \in less)
      BY DEF WeakOrder
    <3>4. /\ ~(<<x, y>> \in less /\ <<y, x>> \in less)
          /\ ~(<<y, z>> \in less /\ <<z, y>> \in less)
      BY DEF WeakOrder
    <3> QED
      BY <2>1, <2>3, <3>1, <3>2, <3>3, <3>4
  <2> QED
    BY <2>2, <2>3
<1> QED
  BY <1>1, <1>2, <1>3 DEF TotalOrder

\* A sorted sequence is a permutation of the original in which no element is less
\* than one before it, and in which equal elements keep their order.
Sorts(f, t, s, less) ==
  LET D == 1 .. Len(s)
  IN /\ f \in [D -> D]
     /\ \A n \in D : t[n] = s[f[n]]
     /\ \A k \in D : \E n \in D : f[n] = k
     /\ \A m, n \in D :
          m < n => <<f[n], f[m]>> \notin less /\ (<<f[m], f[n]>> \in less \/ f[m] < f[n])

\* StableSort lists every element once, in the order of less, equal ones as before.
LEMMA SortedPositions ==
  ASSUME NEW S, NEW s \in Seq(S), NEW less, WeakOrder(less, 1 .. Len(s))
  PROVE  /\ StableSort(s, less) \in Seq(S) /\ Len(StableSort(s, less)) = Len(s)
         /\ \E f : Sorts(f, StableSort(s, less), s, less)
<1> DEFINE D == DOMAIN s
           R == {p \in D \X D : p \in less \/ (<<p[2], p[1]>> \notin less /\ p[1] <= p[2])}
           f == Ranked(D, R)
<1>0. Len(s) \in Nat /\ D = 1 .. Len(s)
  OBVIOUS
<1>1. IsFiniteSet(D) /\ Cardinality(D) = Len(s)
  BY <1>0, FS_Interval
<1>2. \A i, j \in D : <<i, j>> \in R <=> (<<i, j>> \in less \/ (<<j, i>> \notin less /\ i <= j))
  OBVIOUS
<1>3. StableSort(s, less) = [n \in D |-> s[f[n]]]
  BY DEF StableSort, Pairs
<1> HIDE DEF R, D
<1>4. TotalOrder(R, D)
  <2>1. D \subseteq Nat
    BY <1>0
  <2> QED
    BY <1>0, <1>2, <2>1, StableOrder
<1>a. Lists(f, D, R)
  BY <1>1, <1>4, RankedElements
<1> HIDE DEF f
<1>5. /\ f \in [D -> D]
      /\ \A k \in D : \E n \in D : f[n] = k
      /\ \A m, n \in D : m < n => <<f[m], f[n]>> \in R /\ <<f[n], f[m]>> \notin R
  BY ONLY <1>0, <1>1, <1>a DEF Lists
<1>6. ASSUME NEW m \in D, NEW n \in D, m < n
      PROVE  <<f[n], f[m]>> \notin less /\ (<<f[m], f[n]>> \in less \/ f[m] < f[n])
  <2>1. f[m] \in D /\ f[n] \in D /\ <<f[m], f[n]>> \in R /\ <<f[n], f[m]>> \notin R
    BY ONLY <1>5, <1>6
  <2>2. f[m] \in Nat /\ f[n] \in Nat
    BY <1>0, <2>1
  <2> QED
    BY ONLY <1>2, <2>1, <2>2
<1>7. \A n \in D : s[f[n]] \in S
  <2>1. \A k \in D : s[k] \in S
    BY ONLY <1>0, s \in Seq(S)
  <2>2. \A n \in D : f[n] \in D
    BY ONLY <1>5
  <2> QED
    BY ONLY <2>1, <2>2
<1>8. StableSort(s, less) \in Seq(S) /\ Len(StableSort(s, less)) = Len(s)
  BY ONLY <1>0, <1>3, <1>7
<1>9. \A n \in D : StableSort(s, less)[n] = s[f[n]]
  BY ONLY <1>3
<1>10. Sorts(f, StableSort(s, less), s, less)
  BY ONLY <1>0, <1>5, <1>6, <1>9 DEF Sorts
<1> QED
  BY ONLY <1>8, <1>10
\* The first of a sorted sequence is one that none is less than.
LEMMA FirstSorted ==
  ASSUME NEW S, NEW s \in Seq(S), s # <<>>, NEW less, WeakOrder(less, 1 .. Len(s))
  PROVE  \E k \in 1 .. Len(s) : /\ Head(StableSort(s, less)) = s[k]
                                /\ \A j \in 1 .. Len(s) : <<j, k>> \notin less
<1> DEFINE D == 1 .. Len(s)
           t == StableSort(s, less)
<1>1. t \in Seq(S) /\ Len(t) = Len(s) /\ \E f : Sorts(f, t, s, less)
  BY SortedPositions
<1>2. PICK f : Sorts(f, t, s, less)
  BY <1>1
<1>3. /\ f \in [D -> D]
      /\ \A n \in D : t[n] = s[f[n]]
      /\ \A k \in D : \E n \in D : f[n] = k
      /\ \A m, n \in D : m < n => <<f[n], f[m]>> \notin less
  BY ONLY <1>2, Zenon DEF Sorts
<1>4. Len(s) \in Nat /\ 1 \in D
  OBVIOUS
<1>5. Head(t) = t[1]
  <2> HIDE DEF t
  <2> QED
    BY ONLY <1>1, <1>4
<1> HIDE DEF t
<1>6. f[1] \in D /\ Head(t) = s[f[1]]
  BY ONLY <1>3, <1>4, <1>5
<1>7. ASSUME NEW j \in D PROVE <<j, f[1]>> \notin less
  <2>1. PICK n \in D : f[n] = j
    BY <1>3
  <2>2. CASE n = 1
    BY <1>6, <2>1, <2>2 DEF WeakOrder
  <2>3. CASE n # 1
    <3>1. 1 < n
      BY ONLY <1>4, <2>3, n \in D
    <3> QED
      BY ONLY <1>3, <1>4, <2>1, <3>1, n \in D
  <2> QED
    BY <2>2, <2>3
<1> QED
  BY <1>6, <1>7 DEF t

-----------------------------------------------------------------------------
(***************************************************************************)
(* The network.  An interface that joins a bond takes the address of       *)
(* another and keeps its own beside it: the set of the addresses the       *)
(* interfaces had at the start never changes, every address a bond shows   *)
(* is that of a member, and names differ.  The host id is a function of    *)
(* that set, so bonding does not change it; neither the id nor the name    *)
(* depends on the order of the kernel's list.                              *)
(***************************************************************************)
NetworkSpec == NetworkInit /\ [][NetworkNext]_networkVars

NicRecord ==
  [name : Nat, type : {"physical", "bond"}, mac : Nat, perm : Nat, member : BOOLEAN,
   linked : BOOLEAN, addrs : Seq(Addresses)]

\* Every interface has a MAC address, and a member of a bond its own one besides.
Nics == {nic \in NicRecord : /\ nic.mac # NoMac
                             /\ nic.member => nic.perm # NoMac /\ nic.type = "physical"}

OwnMac(nic) == IF nic.member THEN nic.perm ELSE nic.mac
OwnMacs(listed) == {OwnMac(listed[n]) : n \in DOMAIN listed}

\* The addresses of the interfaces that are reported, and the identity they give.
Typed(listed) == {n \in DOMAIN listed : HasType(listed[n])}
ReportedMacs(listed) == {getPermMacAddress(listed[n]) : n \in Typed(listed)}
IdFrom(macs, firmware) ==
  IF firmware.serial \notin UnknownSerials THEN md5GenerateUUID(firmware.serial)
  ELSE IF firmware.uuid \notin UnknownUUIDs THEN <<"system", firmware.uuid>>
  ELSE IF macs \ {NoMac} = {} THEN FailureUUID ELSE md5GenerateUUID(Min(macs \ {NoMac}))

\* Addresses and names are numbers.
LEMMA MacIsNatural ==
  ASSUME NEW nic \in Nics
  PROVE  getPermMacAddress(nic) \in Nat /\ nic.name \in Nat
  BY NetworkAssumption DEF Nics, NicRecord, getPermMacAddress

\* What is reported of an interface: its own address and its name.
LEMMA RecordFields ==
  ASSUME NEW nic, NEW known
  PROVE  /\ InterfaceRecord(nic, known).mac = getPermMacAddress(nic)
         /\ InterfaceRecord(nic, known).name = nic.name
         /\ InterfaceRecord(nic, known).type = nic.type
  BY DEF InterfaceRecord

Records(known) == {InterfaceRecord(nic, known) : nic \in Nics}

\* So are those of the inventory.
LEMMA RecordsAreTyped ==
  ASSUME NEW known, NEW r \in Records(known)
  PROVE  r.mac \in Nat /\ r.name \in Nat
<1>1. PICK nic \in Nics : r = InterfaceRecord(nic, known)
  BY DEF Records
<1> QED
  BY <1>1, MacIsNatural, RecordFields

\* The interfaces reported are those of the host that have a type.
Reports(interfaces, listed, known) ==
  /\ interfaces \in Seq(Records(known))
  /\ \A i \in 1 .. Len(interfaces) : \E n \in Typed(listed) : interfaces[i] = InterfaceRecord(listed[n], known)
  /\ \A n \in Typed(listed) : \E i \in 1 .. Len(interfaces) : interfaces[i] = InterfaceRecord(listed[n], known)

\* getInterfaces reports each interface of a known type, and no other.
LEMMA GetInterfaces ==
  ASSUME NEW listed \in Seq(Nics), NEW known
  PROVE  Reports(getInterfaces(listed, known), listed, known)
<1> DEFINE s == [n \in DOMAIN listed |-> InterfaceRecord(listed[n], known)]
           K == Typed(listed)
<1>1. Len(listed) \in Nat /\ DOMAIN listed = 1 .. Len(listed) /\ \A n \in 1 .. Len(listed) : listed[n] \in Nics
  OBVIOUS
<1>2. \A n \in 1 .. Len(listed) : s[n] = InterfaceRecord(listed[n], known) /\ s[n] \in Records(known)
  BY ONLY <1>1 DEF Records
<1>3. s \in Seq(Records(known)) /\ Len(s) = Len(listed)
  BY ONLY <1>1, <1>2
<1>4. K \subseteq 1 .. Len(s)
  BY ONLY <1>1, <1>3 DEF Typed
<1>5. getInterfaces(listed, known) = Selected(s, K)
  BY DEF getInterfaces, Typed
<1> HIDE DEF s, K
<1> DEFINE t == Selected(s, K)
<1>6. /\ t \in Seq(Records(known))
      /\ \A n \in 1 .. Len(t) : \E k \in K : t[n] = s[k]
      /\ \A k \in K : \E n \in 1 .. Len(t) : t[n] = s[k]
  BY ONLY <1>3, <1>4, SelectedElements, Zenon
<1> HIDE DEF t
<1>7. \A k \in K : s[k] = InterfaceRecord(listed[k], known)
  BY ONLY <1>2, <1>3, <1>4
<1>8. Reports(t, listed, known)
  BY ONLY <1>6, <1>7 DEF Reports, K
<1> QED
  BY ONLY <1>5, <1>8 DEF t

\* Sorting by a number is sorting by a weak order.
LEMMA ByMacOrders ==
  ASSUME NEW S, \A x \in S : x.mac \in Nat, NEW s \in Seq(S)
  PROVE  /\ \A i, j \in 1 .. Len(s) : <<i, j>> \in ByMac(s) <=> s[i].mac < s[j].mac
         /\ WeakOrder(ByMac(s), 1 .. Len(s))
<1>1. \A i \in 1 .. Len(s) : s[i].mac \in Nat
  OBVIOUS
<1>2. \A i, j \in 1 .. Len(s) : <<i, j>> \in ByMac(s) <=> s[i].mac < s[j].mac
  BY DEF ByMac, Pairs
<1>3. WeakOrder(ByMac(s), 1 .. Len(s))
  <2> DEFINE key == [i \in 1 .. Len(s) |-> s[i].mac]
  <2>1. key \in [1 .. Len(s) -> Int]
    BY ONLY <1>1
  <2>2. \A i, j \in 1 .. Len(s) : <<i, j>> \in ByMac(s) <=> key[i] < key[j]
    BY ONLY <1>2
  <2> HIDE DEF key
  <2> QED
    BY ONLY <2>1, <2>2, KeyOrder, Zenon
<1> QED
  BY <1>2, <1>3

\* findUsableNIC orders the interfaces by their names.
LEMMA ByNameOrders ==
  ASSUME NEW S, \A x \in S : x.name \in Nat, NEW s \in Seq(S)
  PROVE  /\ \A i, j \in 1 .. Len(s) : <<i, j>> \in ByName(s) <=> s[i].name < s[j].name
         /\ WeakOrder(ByName(s), 1 .. Len(s))
<1>1. \A i \in 1 .. Len(s) : s[i].name \in Nat
  OBVIOUS
<1>2. \A i, j \in 1 .. Len(s) : <<i, j>> \in ByName(s) <=> s[i].name < s[j].name
  BY DEF ByName, Pairs
<1>3. WeakOrder(ByName(s), 1 .. Len(s))
  <2> DEFINE key == [i \in 1 .. Len(s) |-> s[i].name]
  <2>1. key \in [1 .. Len(s) -> Int]
    BY ONLY <1>1
  <2>2. \A i, j \in 1 .. Len(s) : <<i, j>> \in ByName(s) <=> key[i] < key[j]
    BY ONLY <1>2
  <2> HIDE DEF key
  <2> QED
    BY ONLY <2>1, <2>2, KeyOrder, Zenon
<1> QED
  BY <1>2, <1>3

\* The identity is that of the least address, in whatever order the interfaces are.
LEMMA SmallestMac ==
  ASSUME NEW S, \A x \in S : x.mac \in Nat, NEW interfaces \in Seq(S),
         NEW M, M = {interfaces[i].mac : i \in 1 .. Len(interfaces)} \ {NoMac}
  PROVE  uuidFromNetworkInterfaces(interfaces)
           = IF M = {} THEN FailureUUID ELSE md5GenerateUUID(Min(M))
<1> DEFINE K == {i \in DOMAIN interfaces : interfaces[i].mac # NoMac}
           named == Selected(interfaces, K)
<1>1. uuidFromNetworkInterfaces(interfaces)
        = IF named = <<>> THEN FailureUUID
          ELSE md5GenerateUUID(Head(StableSort(named, ByMac(named))).mac)
  BY DEF uuidFromNetworkInterfaces
<1>2. K \subseteq 1 .. Len(interfaces) /\ M = {interfaces[k].mac : k \in K}
  OBVIOUS
<1>3. M \subseteq Nat
  OBVIOUS
<1> HIDE DEF K
<1>4. /\ named \in Seq(S)
      /\ \A n \in 1 .. Len(named) : \E k \in K : named[n] = interfaces[k]
      /\ \A k \in K : \E n \in 1 .. Len(named) : named[n] = interfaces[k]
      /\ named = <<>> <=> K = {}
  BY ONLY <1>2, SelectedElements, interfaces \in Seq(S), ZenonT(20)
<1> HIDE DEF named
<1>5. M = {} <=> K = {}
  BY ONLY <1>2, Zenon
<1>6. CASE K = {}
  BY ONLY <1>1, <1>4, <1>5, <1>6
<1>7. CASE K # {}
  <2>1. named # <<>> /\ M # {}
    BY ONLY <1>4, <1>5, <1>7
  <2>2. /\ \A i, j \in 1 .. Len(named) : <<i, j>> \in ByMac(named) <=> named[i].mac < named[j].mac
        /\ WeakOrder(ByMac(named), 1 .. Len(named))
    BY <1>4, ByMacOrders
  <2> DEFINE first == Head(StableSort(named, ByMac(named)))
  <2>3. PICK k \in 1 .. Len(named) : /\ first = named[k]
                                     /\ \A j \in 1 .. Len(named) : <<j, k>> \notin ByMac(named)
    BY ONLY <1>4, <2>1, <2>2, FirstSorted
  <2> HIDE DEF first
  <2>4. \A j \in 1 .. Len(named) : named[j].mac \in M
    BY ONLY <1>2, <1>4, Zenon
  <2>5. first.mac \in M
    BY ONLY <2>3, <2>4
  <2>6. ASSUME NEW m \in M PROVE first.mac <= m
    <3>1. PICK i \in K : m = interfaces[i].mac
      BY ONLY <1>2, m \in M, Zenon
    <3>2. PICK j \in 1 .. Len(named) : named[j] = interfaces[i]
      BY ONLY <1>4
    <3>3. ~(named[j].mac < named[k].mac)
      BY ONLY <2>2, <2>3, Zenon
    <3>4. named[j].mac = m /\ named[k].mac = first.mac /\ m \in Nat /\ first.mac \in Nat
      BY ONLY <1>3, <2>3, <2>5, <3>1, <3>2, m \in M, Zenon
    <3> QED
      BY ONLY <3>3, <3>4
  <2>7. Min(M) = first.mac
    BY ONLY <1>3, <2>5, <2>6, MinIs, Zenon
  <2> QED
    BY ONLY <1>1, <2>1, <2>7 DEF first
<1> QED
  BY <1>6, <1>7, Zenon

\* The identity depends on the addresses that are reported, and on the firmware.
LEMMA IdFromMacs ==
  ASSUME NEW listed \in Seq(Nics), NEW known, NEW firmware
  PROVE  IdOf(listed, known, firmware) = IdFrom(ReportedMacs(listed), firmware)
<1> DEFINE t == getInterfaces(listed, known)
<1>1. Reports(t, listed, known)
  BY GetInterfaces
<1> HIDE DEF t
<1>2. {t[i].mac : i \in 1 .. Len(t)} = ReportedMacs(listed)
  <2>1. ASSUME NEW i \in 1 .. Len(t) PROVE t[i].mac \in ReportedMacs(listed)
    <3>1. PICK n \in Typed(listed) : t[i] = InterfaceRecord(listed[n], known)
      BY ONLY <1>1, i \in 1 .. Len(t) DEF Reports
    <3> QED
      BY <3>1, RecordFields DEF ReportedMacs
  <2>2. ASSUME NEW n \in Typed(listed)
        PROVE  \E i \in 1 .. Len(t) : t[i].mac = getPermMacAddress(listed[n])
    <3>1. PICK i \in 1 .. Len(t) : t[i] = InterfaceRecord(listed[n], known)
      BY ONLY <1>1, n \in Typed(listed) DEF Reports
    <3> QED
      BY <3>1, RecordFields
  <2> QED
    BY ONLY <2>1, <2>2 DEF ReportedMacs
<1>3. t \in Seq(Records(known)) /\ \A x \in Records(known) : x.mac \in Nat
  BY <1>1, RecordsAreTyped DEF Reports
<1> DEFINE M == ReportedMacs(listed) \ {NoMac}
<1>4. uuidFromNetworkInterfaces(t) = IF M = {} THEN FailureUUID ELSE md5GenerateUUID(Min(M))
  BY ONLY <1>2, <1>3, SmallestMac, Zenon
<1> QED
  BY ONLY <1>4 DEF IdOf, ReadId, IdFrom, t

\* The interface a name is taken from: one that may be used, with the least name.
LeastUsable(first, interfaces) ==
  /\ \E i \in 1 .. Len(interfaces) : first = interfaces[i]
  /\ Usable(first)
  /\ \A i \in 1 .. Len(interfaces) : Usable(interfaces[i]) => first.name <= interfaces[i].name

\* findUsableNIC finds the usable interface of the least name, if one is usable.
LEMMA FindUsable ==
  ASSUME NEW S, \A x \in S : x.name \in Nat, NEW interfaces \in Seq(S)
  PROVE  /\ findUsableNIC(interfaces) = <<>> <=>
              \A i \in 1 .. Len(interfaces) : ~Usable(interfaces[i])
         /\ findUsableNIC(interfaces) # <<>> => LeastUsable(Head(findUsableNIC(interfaces)), interfaces)
<1> DEFINE D == 1 .. Len(interfaces)
           less == ByName(interfaces)
           sorted == StableSort(interfaces, less)
           U == {i \in DOMAIN sorted : Usable(sorted[i])}
           listed == Selected(sorted, U)
<1>1. findUsableNIC(interfaces) = listed
  BY DEF findUsableNIC
<1>2. /\ \A i, j \in D : <<i, j>> \in less <=> interfaces[i].name < interfaces[j].name
      /\ WeakOrder(less, D)
  BY ByNameOrders
<1>3. \A i \in D : interfaces[i] \in S /\ interfaces[i].name \in Nat
  OBVIOUS
<1> HIDE DEF less
<1>4. sorted \in Seq(S) /\ Len(sorted) = Len(interfaces) /\ \E f : Sorts(f, sorted, interfaces, less)
  BY ONLY <1>2, SortedPositions, interfaces \in Seq(S)
<1>5. PICK f : Sorts(f, sorted, interfaces, less)
  BY ONLY <1>4
<1>6. /\ f \in [D -> D]
      /\ \A n \in D : sorted[n] = interfaces[f[n]]
      /\ \A k \in D : \E n \in D : f[n] = k
      /\ \A m, n \in D : m < n => <<f[n], f[m]>> \notin less
  BY ONLY <1>5, Zenon DEF Sorts
<1> HIDE DEF sorted
<1>7. /\ DOMAIN sorted = D /\ U \subseteq 1 .. Len(sorted) /\ D \subseteq Nat
      /\ \A n \in D : n \in U <=> Usable(sorted[n])
  BY ONLY <1>4, interfaces \in Seq(S)
<1> HIDE DEF U
<1>8. /\ listed = <<>> <=> U = {}
      /\ U # {} => Min(U) \in U /\ Head(listed) = sorted[Min(U)]
  BY ONLY <1>4, <1>7, SelectedElements, Zenon
<1> HIDE DEF listed
<1>9. U = {} <=> \A i \in D : ~Usable(interfaces[i])
  <2>1. ASSUME NEW n \in U PROVE \E i \in D : Usable(interfaces[i])
    BY ONLY <1>4, <1>6, <1>7, <2>1, Zenon
  <2>2. ASSUME NEW i \in D, Usable(interfaces[i]) PROVE U # {}
    BY ONLY <1>6, <1>7, <2>2
  <2> QED
    BY ONLY <2>1, <2>2
<1>10. ASSUME U # {} PROVE LeastUsable(Head(listed), interfaces)
  <2> DEFINE m == Min(U)
  <2>1. m \in U /\ \A n \in U : m <= n
    <3>1. U \in SUBSET Nat
      BY ONLY <1>4, <1>7
    <3> QED
      BY ONLY <1>10, <3>1, MinOfNaturals
  <2>2. m \in D /\ Head(listed) = sorted[m]
    BY ONLY <1>4, <1>7, <1>8, <1>10, <2>1, Zenon
  <2> HIDE DEF m
  <2>3. f[m] \in D /\ sorted[m] = interfaces[f[m]] /\ Usable(sorted[m])
    BY ONLY <1>6, <1>7, <2>1, <2>2, Zenon
  <2>4. ASSUME NEW i \in D, Usable(interfaces[i]) PROVE interfaces[f[m]].name <= interfaces[i].name
    <3>1. PICK n \in D : f[n] = i
      BY ONLY <1>6, i \in D
    <3>2. n \in U
      BY ONLY <1>6, <1>7, <2>4, <3>1, Zenon
    <3>3. n \in Nat /\ m \in Nat /\ m <= n
      BY ONLY <1>7, <2>1, <2>2, <3>2, n \in D
    <3>4. CASE n = m
      BY ONLY <1>3, <3>1, <3>4, i \in D
    <3>5. CASE n # m
      <4>1. m < n
        BY ONLY <3>3, <3>5
      <4>2. <<i, f[m]>> \notin less
        BY ONLY <1>6, <2>2, <3>1, <4>1, n \in D
      <4> QED
        BY ONLY <1>2, <1>3, <2>3, <4>2, i \in D
    <3> QED
      BY <3>4, <3>5
  <2> QED
    BY ONLY <2>2, <2>3, <2>4 DEF LeastUsable
<1> QED
  BY ONLY <1>1, <1>8, <1>9, <1>10

\* Names tell the interfaces apart.
NamesDiffer(listed) == \A m, n \in DOMAIN listed : listed[m].name = listed[n].name => m = n

\* Two lists of the same interfaces give the host the same name.
LEMMA NameFromSet ==
  ASSUME NEW a \in Seq(Nics), NEW b \in Seq(Nics), NEW known, NEW name, NamesDiffer(a),
         \A n \in DOMAIN a : \E m \in DOMAIN b : b[m] = a[n],
         \A m \in DOMAIN b : \E n \in DOMAIN a : a[n] = b[m]
  PROVE  NameOf(a, known, name) = NameOf(b, known, name)
<1> DEFINE x == getInterfaces(a, known)
           y == getInterfaces(b, known)
           fx == findUsableNIC(x)
           fy == findUsableNIC(y)
<1>1. Reports(x, a, known) /\ Reports(y, b, known)
  BY GetInterfaces
<1>2. /\ NameOf(a, known, name) = processInventory(name, x)
      /\ NameOf(b, known, name) = processInventory(name, y)
  BY DEF NameOf
<1> HIDE DEF x, y
<1>3. \A i \in 1 .. Len(x) : \E j \in 1 .. Len(y) : y[j] = x[i]
  <2> TAKE i \in 1 .. Len(x)
  <2>1. PICK n \in Typed(a) : x[i] = InterfaceRecord(a[n], known)
    BY ONLY <1>1, i \in 1 .. Len(x), Zenon DEF Reports
  <2>2. PICK m \in DOMAIN b : b[m] = a[n]
    BY <2>1 DEF Typed
  <2>3. m \in Typed(b)
    BY ONLY <2>2, n \in Typed(a), m \in DOMAIN b DEF Typed
  <2> QED
    BY ONLY <1>1, <2>1, <2>2, <2>3, SMTT(20) DEF Reports
<1>4. \A j \in 1 .. Len(y) : \E i \in 1 .. Len(x) : x[i] = y[j]
  <2> TAKE j \in 1 .. Len(y)
  <2>1. PICK m \in Typed(b) : y[j] = InterfaceRecord(b[m], known)
    BY ONLY <1>1, j \in 1 .. Len(y) DEF Reports
  <2>2. PICK n \in DOMAIN a : a[n] = b[m]
    BY <2>1 DEF Typed
  <2>3. n \in Typed(a)
    BY ONLY <2>2, m \in Typed(b), n \in DOMAIN a DEF Typed
  <2> QED
    BY ONLY <1>1, <2>1, <2>2, <2>3, SMTT(20) DEF Reports
<1>5. \A i, j \in 1 .. Len(x) : x[i].name = x[j].name => x[i] = x[j]
  <2> TAKE i, j \in 1 .. Len(x)
  <2>1. PICK m \in Typed(a) : x[i] = InterfaceRecord(a[m], known)
    BY ONLY <1>1, i \in 1 .. Len(x) DEF Reports
  <2>2. PICK n \in Typed(a) : x[j] = InterfaceRecord(a[n], known)
    BY ONLY <1>1, j \in 1 .. Len(x) DEF Reports
  <2>3. x[i].name = a[m].name /\ x[j].name = a[n].name
    BY ONLY <2>1, <2>2, RecordFields
  <2>4. a[m].name = a[n].name => m = n
    BY DEF NamesDiffer, Typed
  <2> QED
    BY ONLY <2>1, <2>2, <2>3, <2>4
<1>6. /\ x \in Seq(Records(known)) /\ y \in Seq(Records(known))
      /\ \A r \in Records(known) : r.name \in Nat
  BY <1>1, RecordsAreTyped DEF Reports
<1>7. /\ fx = <<>> <=> \A i \in 1 .. Len(x) : ~Usable(x[i])
      /\ fx # <<>> => LeastUsable(Head(fx), x)
  BY ONLY <1>6, FindUsable
<1>8. /\ fy = <<>> <=> \A i \in 1 .. Len(y) : ~Usable(y[i])
      /\ fy # <<>> => LeastUsable(Head(fy), y)
  BY ONLY <1>6, FindUsable
<1>9. fx = <<>> <=> fy = <<>>
  BY ONLY <1>3, <1>4, <1>7, <1>8
<1> HIDE DEF fx, fy
<1>10. ASSUME fx # <<>> PROVE Head(fx) = Head(fy)
  <2>1. PICK i \in 1 .. Len(x) : Head(fx) = x[i]
    BY ONLY <1>7, <1>10 DEF LeastUsable
  <2>2. PICK j \in 1 .. Len(y) : Head(fy) = y[j]
    BY ONLY <1>8, <1>9, <1>10 DEF LeastUsable
  <2>3. PICK k \in 1 .. Len(x) : x[k] = y[j]
    BY ONLY <1>4
  <2>4. PICK l \in 1 .. Len(y) : y[l] = x[i]
    BY ONLY <1>3
  <2>5. Usable(x[i]) /\ Usable(y[j])
    BY ONLY <1>7, <1>8, <1>9, <1>10, <2>1, <2>2, Zenon DEF LeastUsable
  <2>6. x[i].name <= x[k].name /\ y[j].name <= y[l].name
    BY ONLY <1>7, <1>8, <1>9, <1>10, <2>1, <2>2, <2>3, <2>4, <2>5, Zenon DEF LeastUsable
  <2>7. x[i].name \in Nat /\ x[k].name \in Nat
    BY ONLY <1>6
  <2>8. x[i].name = x[k].name
    BY ONLY <2>3, <2>4, <2>6, <2>7
  <2> QED
    BY ONLY <1>5, <2>1, <2>2, <2>3, <2>8
<1> QED
  BY ONLY <1>2, <1>9, <1>10 DEF processInventory, fx, fy

-----------------------------------------------------------------------------
\* The address of a bond is that of an interface.
Bonded(listed) ==
  \A n \in DOMAIN listed : listed[n].type = "bond" =>
    \E m \in DOMAIN listed : listed[m].type = "physical" /\ OwnMac(listed[m]) = OwnMac(listed[n])

NetworkInv ==
  nics \in Seq(Nics) /\ routes \in Routes6 /\ NamesDiffer(nics) /\ Bonded(nics)

Same(x, y) == x.type = y.type /\ x.name = y.name /\ OwnMac(x) = OwnMac(y)

\* Interfaces that keep their own addresses have the same set of them.
LEMMA SameMacs ==
  ASSUME NEW a \in Seq(Nics), NEW b \in Seq(Nics), Bonded(a),
         \A n \in DOMAIN b : \E k \in DOMAIN a : Same(b[n], a[k]),
         \A k \in DOMAIN a : a[k].type = "physical" => \E n \in DOMAIN b : Same(b[n], a[k])
  PROVE  Bonded(b) /\ OwnMacs(b) = OwnMacs(a)
<1>0. \A k \in DOMAIN a : a[k].type = "physical" \/ a[k].type = "bond"
  BY DEF Nics, NicRecord
<1>1. ASSUME NEW k \in DOMAIN a
      PROVE  \E n \in DOMAIN b : b[n].type = "physical" /\ OwnMac(b[n]) = OwnMac(a[k])
  <2>1. PICK m \in DOMAIN a : a[m].type = "physical" /\ OwnMac(a[m]) = OwnMac(a[k])
    BY <1>0 DEF Bonded
  <2>2. PICK n \in DOMAIN b : Same(b[n], a[m])
    BY <2>1
  <2> QED
    BY ONLY <2>1, <2>2 DEF Same
<1>2. Bonded(b)
  <2> SUFFICES ASSUME NEW n \in DOMAIN b
               PROVE  \E m \in DOMAIN b : b[m].type = "physical" /\ OwnMac(b[m]) = OwnMac(b[n])
    BY DEF Bonded
  <2>1. PICK k \in DOMAIN a : Same(b[n], a[k])
    OBVIOUS
  <2> QED
    BY ONLY <1>1, <2>1 DEF Same
<1>3. OwnMacs(b) \subseteq OwnMacs(a)
  BY DEF OwnMacs, Same
<1>4. OwnMacs(a) \subseteq OwnMacs(b)
  BY ONLY <1>1 DEF OwnMacs
<1> QED
  BY ONLY <1>2, <1>3, <1>4, Zenon

\* Interfaces are changed, but neither their names nor their own addresses.
LEMMA Changes ==
  ASSUME NEW a \in Seq(Nics), NEW b \in Seq(Nics), Bonded(a), NamesDiffer(a),
         DOMAIN b = DOMAIN a, \A m \in DOMAIN a : Same(b[m], a[m])
  PROVE  NamesDiffer(b) /\ Bonded(b) /\ OwnMacs(b) = OwnMacs(a)
<1>1. NamesDiffer(b)
  BY DEF NamesDiffer, Same
<1> QED
  BY <1>1, SameMacs

Kept == nics' \in Seq(Nics) /\ NamesDiffer(nics') /\ Bonded(nics') /\ OwnMacs(nics') = OwnMacs(nics)

\* An address is acquired: the interfaces stay what they are.
LEMMA AcquireKeeps ==
  ASSUME NetworkInv, NEW n \in DOMAIN nics, NEW address \in Addresses, Acquire(n, address)
  PROVE  Kept
<1> DEFINE nic == [nics[n] EXCEPT !.addrs = <<address>>]
<1>1. nics' = [nics EXCEPT ![n] = nic]
  BY DEF Acquire
<1>2. nics[n] \in Nics /\ <<address>> \in Seq(Addresses)
  BY DEF NetworkInv
<1>3. nic \in Nics /\ Same(nic, nics[n])
  BY ONLY <1>2, Zenon DEF Nics, NicRecord, Same, OwnMac
<1> HIDE DEF nic
<1>4. nics' \in Seq(Nics) /\ DOMAIN nics' = DOMAIN nics
  BY ONLY <1>1, <1>3, NetworkInv, n \in DOMAIN nics DEF NetworkInv
<1>5. \A m \in DOMAIN nics : Same(nics'[m], nics[m])
  BY ONLY <1>1, <1>3, NetworkInv, n \in DOMAIN nics DEF NetworkInv, Same
<1> QED
  BY ONLY <1>4, <1>5, NetworkInv, Changes DEF NetworkInv, Kept

\* A link is found or lost: the interfaces stay what they are.
LEMMA LookUpKeeps ==
  ASSUME NetworkInv, NEW n \in DOMAIN nics, LookUp(n)
  PROVE  Kept
<1> DEFINE nic == [nics[n] EXCEPT !.linked = ~nics[n].linked]
<1>1. nics' = [nics EXCEPT ![n] = nic]
  BY DEF LookUp
<1>2. nics[n] \in Nics
  BY DEF NetworkInv
<1>3. nic \in Nics /\ Same(nic, nics[n])
  BY ONLY <1>2, Zenon DEF Nics, NicRecord, Same, OwnMac
<1> HIDE DEF nic
<1>4. nics' \in Seq(Nics) /\ DOMAIN nics' = DOMAIN nics
  BY ONLY <1>1, <1>3, NetworkInv, n \in DOMAIN nics DEF NetworkInv
<1>5. \A m \in DOMAIN nics : Same(nics'[m], nics[m])
  BY ONLY <1>1, <1>3, NetworkInv, n \in DOMAIN nics DEF NetworkInv, Same
<1> QED
  BY ONLY <1>4, <1>5, NetworkInv, Changes DEF NetworkInv, Kept

\* The kernel lists the interfaces in another order.
LEMMA EnumerateKeeps ==
  ASSUME NetworkInv, NEW i \in DOMAIN nics, NEW j \in DOMAIN nics, Enumerate(i, j)
  PROVE  Kept /\ \A m \in DOMAIN nics : \E n \in DOMAIN nics : nics'[m] = nics[n]
<1> DEFINE other(m) == IF m = i THEN j ELSE IF m = j THEN i ELSE m
<1>1. nics' = [nics EXCEPT ![i] = nics[j], ![j] = nics[i]] /\ i # j
  BY DEF Enumerate, NetworkInv
<1>2. nics' \in Seq(Nics) /\ DOMAIN nics' = DOMAIN nics
  BY <1>1 DEF NetworkInv
<1>3. \A m \in DOMAIN nics : other(m) \in DOMAIN nics /\ nics'[m] = nics[other(m)] /\ other(other(m)) = m
  BY <1>1 DEF NetworkInv
<1>4. NamesDiffer(nics')
  BY <1>2, <1>3, Zenon DEF NamesDiffer, NetworkInv
<1>5. \A m \in DOMAIN nics : Same(nics'[m], nics[other(m)]) /\ Same(nics'[other(m)], nics[m])
  BY ONLY <1>3 DEF Same
<1> HIDE DEF other
<1>6. Bonded(nics') /\ OwnMacs(nics') = OwnMacs(nics)
  BY ONLY <1>2, <1>3, <1>5, NetworkInv, SameMacs DEF NetworkInv
<1> QED
  BY ONLY <1>2, <1>3, <1>4, <1>6 DEF Kept

\* Interfaces join a bond: each keeps its own address beside that of the bond.
LEMMA JoinKeeps ==
  ASSUME NetworkInv, NEW bond \in Bonds, Join(bond)
  PROVE  Kept
<1>1. PICK joined \in SUBSET DOMAIN nics, i \in DOMAIN nics :
        LET mac == nics[i].mac
            member(n) == [nics[n] EXCEPT !.perm = nics[n].mac, !.mac = mac, !.member = TRUE, !.addrs = <<>>]
        IN /\ i \in joined
           /\ \A n \in joined : nics[n].type = "physical" /\ ~nics[n].member /\ nics[n].linked
           /\ \A n \in DOMAIN nics : nics[n].name # bond
           /\ nics' = Append([n \in DOMAIN nics |-> IF n \in joined THEN member(n) ELSE nics[n]],
                             [Card([name |-> bond, mac |-> mac]) EXCEPT !.type = "bond"])
  BY Zenon DEF Join
<1> DEFINE mac == nics[i].mac
           member(n) == [nics[n] EXCEPT !.perm = nics[n].mac, !.mac = mac, !.member = TRUE, !.addrs = <<>>]
           c == [n \in DOMAIN nics |-> IF n \in joined THEN member(n) ELSE nics[n]]
           new == [Card([name |-> bond, mac |-> mac]) EXCEPT !.type = "bond"]
<1>2. /\ i \in joined
      /\ \A n \in joined : nics[n].type = "physical" /\ ~nics[n].member
      /\ \A n \in DOMAIN nics : nics[n].name # bond
      /\ nics' = Append(c, new)
  BY ONLY <1>1, Zenon
<1>3. /\ nics \in Seq(Nics) /\ NamesDiffer(nics) /\ Bonded(nics) /\ i \in DOMAIN nics
      /\ \A n \in DOMAIN nics : nics[n] \in Nics
  BY DEF NetworkInv
<1>4. mac \in Nat /\ mac # NoMac
  BY ONLY <1>3 DEF Nics, NicRecord
<1> DEFINE base == Card([name |-> bond, mac |-> mac])
<1> HIDE DEF mac
<1>5. base \in NicRecord /\ base.name = bond /\ base.mac = mac /\ base.member = FALSE
  <2>1. bond \in Nat /\ NoMac \in Nat /\ <<>> \in Seq(Addresses)
    BY NetworkAssumption
  <2> QED
    BY ONLY <1>4, <2>1 DEF Card, NicRecord
<1> HIDE DEF base
<1>6. new \in Nics /\ new.name = bond /\ new.type = "bond" /\ OwnMac(new) = mac
  <2>1. new = [base EXCEPT !.type = "bond"]
    BY DEF base
  <2> HIDE DEF new
  <2> QED
    BY ONLY <1>4, <1>5, <2>1 DEF Nics, NicRecord, OwnMac
<1> HIDE DEF new
<1>7. ASSUME NEW n \in joined PROVE member(n) \in Nics /\ Same(member(n), nics[n])
  <2>1. nics[n] \in Nics /\ nics[n].type = "physical" /\ ~nics[n].member
    <3>1. n \in DOMAIN nics
      BY ONLY joined \in SUBSET DOMAIN nics
    <3>2. nics[n] \in Nics
      BY ONLY <1>3, <3>1
    <3>3. nics[n].type = "physical" /\ ~nics[n].member
      BY ONLY <1>2, Zenon
    <3> QED
      BY ONLY <3>2, <3>3
  <2>2. <<>> \in Seq(Addresses)
    BY ONLY TRUE
  <2> QED
    BY ONLY <1>4, <2>1, <2>2, Zenon DEF Nics, NicRecord, Same, OwnMac
<1>8. \A n \in DOMAIN nics : c[n] = IF n \in joined THEN member(n) ELSE nics[n]
  OBVIOUS
<1> HIDE DEF member
<1>9. \A n \in DOMAIN nics : c[n] \in Nics /\ Same(c[n], nics[n])
  BY ONLY <1>3, <1>7, <1>8 DEF Same
<1>10. c \in Seq(Nics) /\ DOMAIN c = DOMAIN nics
  BY ONLY <1>3, <1>9
<1> HIDE DEF c
<1>11. NamesDiffer(c) /\ Bonded(c) /\ OwnMacs(c) = OwnMacs(nics)
  BY ONLY <1>3, <1>9, <1>10, Changes
<1> DEFINE L == Len(c)
<1>12. /\ L \in Nat /\ DOMAIN c = 1 .. L /\ nics' \in Seq(Nics) /\ DOMAIN nics' = 1 .. L + 1
       /\ nics'[L + 1] = new /\ \A n \in 1 .. L : nics'[n] = c[n]
  BY ONLY <1>2, <1>6, <1>10
<1>13. /\ DOMAIN nics' = DOMAIN c \cup {L + 1} /\ L + 1 \notin DOMAIN c
  BY ONLY <1>12
<1>14. NamesDiffer(nics')
  <2>1. \A n \in DOMAIN c : c[n].name # bond
    BY ONLY <1>2, <1>9, <1>10 DEF Same
  <2> QED
    BY ONLY <1>6, <1>11, <1>12, <1>13, <2>1 DEF NamesDiffer
<1>15. /\ i \in DOMAIN c /\ c[i].type = "physical" /\ OwnMac(c[i]) = mac
  BY ONLY <1>2, <1>3, <1>9, <1>10 DEF Same, OwnMac, mac
<1>16. Bonded(nics')
  BY ONLY <1>6, <1>11, <1>12, <1>13, <1>15 DEF Bonded
<1>17. OwnMacs(nics') = OwnMacs(c)
  BY ONLY <1>6, <1>12, <1>13, <1>15 DEF OwnMacs
<1> QED
  BY ONLY <1>11, <1>12, <1>14, <1>16, <1>17 DEF Kept

\* The bonds are dissolved: each member has its own address back.
LEMMA ReleaseKeeps ==
  ASSUME NetworkInv, Release
  PROVE  Kept
<1> DEFINE K == {n \in DOMAIN nics : nics[n].type # "bond"}
           kept == Selected(nics, K)
           back(nic) == IF nic.member
                        THEN [nic EXCEPT !.mac = nic.perm, !.perm = NoMac, !.member = FALSE]
                        ELSE nic
<1>1. nics' = [n \in DOMAIN kept |-> back(kept[n])]
  BY Zenon DEF Release
<1>2. /\ nics \in Seq(Nics) /\ NamesDiffer(nics) /\ Bonded(nics)
      /\ DOMAIN nics = 1 .. Len(nics) /\ \A n \in DOMAIN nics : nics[n] \in Nics
      /\ K \subseteq 1 .. Len(nics)
  BY DEF NetworkInv
<1>3. \A n \in DOMAIN nics : nics[n].type = "physical" => n \in K
  OBVIOUS
<1> HIDE DEF K
<1>4. /\ kept \in Seq(Nics)
      /\ \A n \in 1 .. Len(kept) : \E k \in K : kept[n] = nics[k]
      /\ \A k \in K : \E n \in 1 .. Len(kept) : kept[n] = nics[k]
      /\ \A m, n \in 1 .. Len(kept) : m < n => \E j, k \in K : j < k /\ kept[m] = nics[j] /\ kept[n] = nics[k]
  BY ONLY <1>2, SelectedElements, Zenon
<1> HIDE DEF kept
<1>5. /\ Len(kept) \in Nat /\ DOMAIN kept = 1 .. Len(kept) /\ DOMAIN nics' = 1 .. Len(kept)
      /\ \A n \in 1 .. Len(kept) : nics'[n] = back(kept[n]) /\ kept[n] \in Nics
  <2>1. /\ Len(kept) \in Nat /\ DOMAIN kept = 1 .. Len(kept)
        /\ \A n \in 1 .. Len(kept) : kept[n] \in Nics
    BY ONLY <1>4
  <2> HIDE DEF back
  <2> QED
    BY ONLY <1>1, <2>1
<1>6. ASSUME NEW nic \in Nics PROVE back(nic) \in Nics /\ Same(back(nic), nic)
  <2>1. CASE nic.member
    BY <2>1, NetworkAssumption, Zenon DEF Nics, NicRecord, Same, OwnMac
  <2>2. CASE ~nic.member
    BY <2>2 DEF Same
  <2> QED
    BY <2>1, <2>2
<1> HIDE DEF back
<1>7. nics' \in Seq(Nics) /\ \A n \in 1 .. Len(kept) : nics'[n] \in Nics /\ Same(nics'[n], kept[n])
  <2>1. \A n \in 1 .. Len(kept) : nics'[n] \in Nics /\ Same(nics'[n], kept[n])
    BY ONLY <1>5, <1>6
  <2>2. nics' = [n \in 1 .. Len(kept) |-> nics'[n]]
    BY ONLY <1>1, <1>5
  <2> QED
    BY ONLY <1>5, <2>1, <2>2
<1>8. ASSUME NEW m \in 1 .. Len(kept), NEW n \in 1 .. Len(kept), m < n
      PROVE  nics'[m].name # nics'[n].name
  <2>1. PICK j \in K, k \in K : j < k /\ kept[m] = nics[j] /\ kept[n] = nics[k]
    BY ONLY <1>4, <1>8
  <2>2. j \in DOMAIN nics /\ k \in DOMAIN nics /\ j # k
    BY ONLY <1>2, <2>1, j \in K, k \in K
  <2>3. nics[j].name # nics[k].name
    BY ONLY <1>2, <2>2 DEF NamesDiffer
  <2> QED
    BY ONLY <1>7, <2>1, <2>3 DEF Same
<1>9. NamesDiffer(nics')
  BY ONLY <1>5, <1>8 DEF NamesDiffer
<1>10. \A n \in DOMAIN nics' : \E k \in DOMAIN nics : Same(nics'[n], nics[k])
  BY ONLY <1>2, <1>4, <1>5, <1>7, Zenon
<1>11. \A k \in DOMAIN nics : nics[k].type = "physical" => \E n \in DOMAIN nics' : Same(nics'[n], nics[k])
  BY ONLY <1>3, <1>4, <1>5, <1>7, Zenon
<1>12. Bonded(nics') /\ OwnMacs(nics') = OwnMacs(nics)
  BY ONLY <1>2, <1>7, <1>10, <1>11, SameMacs
<1> QED
  BY ONLY <1>7, <1>9, <1>12 DEF Kept

\* The cards of a host, before anything is done to them.
LEMMA NetworkStart == NetworkInit => NetworkInv
<1> SUFFICES ASSUME NetworkInit PROVE NetworkInv
  OBVIOUS
<1>1. PICK cards \in Cards : nics = [i \in DOMAIN cards |-> Card(cards[i])]
  BY DEF NetworkInit
<1>2. /\ cards \in Seq([name : Nat, mac : Nat]) /\ NoMac \in Nat
      /\ \A i \in DOMAIN cards : cards[i].mac # NoMac
      /\ \A i, j \in DOMAIN cards : cards[i].name = cards[j].name => i = j
  BY NetworkAssumption
<1>3. ASSUME NEW c \in [name : Nat, mac : Nat], c.mac # NoMac
      PROVE  /\ Card(c) \in Nics /\ Card(c).name = c.name /\ Card(c).type = "physical"
  <2>1. <<>> \in Seq(Addresses)
    BY ONLY TRUE
  <2> QED
    BY ONLY <1>2, <1>3, <2>1 DEF Card, Nics, NicRecord
<1>4. \A i \in DOMAIN cards : cards[i] \in [name : Nat, mac : Nat]
  <2> DEFINE R == [name : Nat, mac : Nat]
  <2>1. cards \in Seq(R)
    BY ONLY <1>2
  <2> HIDE DEF R
  <2>2. \A i \in DOMAIN cards : cards[i] \in R
    BY ONLY <2>1
  <2> QED
    BY ONLY <2>2 DEF R
<1>5. \A i \in DOMAIN cards : /\ Card(cards[i]) \in Nics /\ Card(cards[i]).name = cards[i].name
                              /\ Card(cards[i]).type = "physical"
  BY ONLY <1>2, <1>3, <1>4
<1>6. nics \in Seq(Nics) /\ DOMAIN nics = DOMAIN cards /\ \A i \in DOMAIN cards : nics[i] = Card(cards[i])
  BY ONLY <1>1, <1>2, <1>5
<1>7. NamesDiffer(nics) /\ Bonded(nics)
  BY ONLY <1>2, <1>5, <1>6 DEF NamesDiffer, Bonded
<1> QED
  BY <1>6, <1>7 DEF NetworkInit, NetworkInv

\* No step of the host changes the addresses its cards were made with.
LEMMA NetworkSteps ==
  ASSUME NetworkInv, NetworkNext
  PROVE  Kept /\ Others
<1>1. CASE \E bond \in Bonds : Join(bond)
  BY <1>1, JoinKeeps, Zenon DEF Join
<1>2. CASE Release
  BY <1>2, ReleaseKeeps, Zenon DEF Release
<1>3. CASE \E n \in DOMAIN nics, address \in Addresses : Acquire(n, address)
  BY <1>3, AcquireKeeps, Zenon DEF Acquire
<1>4. CASE \E i, j \in DOMAIN nics : Enumerate(i, j)
  BY <1>4, EnumerateKeeps, Zenon DEF Enumerate
<1>5. CASE \E n \in DOMAIN nics : LookUp(n)
  BY <1>5, LookUpKeeps, Zenon DEF LookUp
<1> QED
  BY <1>1, <1>2, <1>3, <1>4, <1>5 DEF NetworkNext

\* The same as one implication.
LEMMA NetworkInductive == NetworkInv /\ [NetworkNext]_networkVars => NetworkInv'
<1>1. CASE NetworkInv /\ NetworkNext
  BY <1>1, NetworkSteps DEF Kept, Others, NetworkInv
<1>2. CASE NetworkInv /\ UNCHANGED networkVars
  BY <1>2 DEF networkVars, NetworkInv, NamesDiffer, Bonded
<1> QED
  BY <1>1, <1>2

\* The interfaces of a host keep their types and names, and bonds their members.
THEOREM NetworkInvariant == NetworkSpec => []NetworkInv
  BY NetworkStart, NetworkInductive, PTL DEF NetworkSpec

\* Interfaces whose links can all be looked up are reported with their own addresses.
LEMMA LinkedMacs ==
  ASSUME NEW listed \in Seq(Nics), \A n \in DOMAIN listed : listed[n].linked
  PROVE  ReportedMacs(listed) = OwnMacs(listed)
<1>1. ASSUME NEW n \in DOMAIN listed
      PROVE  n \in Typed(listed) /\ getPermMacAddress(listed[n]) = OwnMac(listed[n])
  <2>1. listed[n] \in Nics /\ listed[n].linked
    OBVIOUS
  <2> QED
    BY <2>1 DEF Nics, NicRecord, Typed, HasType, getPermMacAddress, OwnMac
<1>2. Typed(listed) = DOMAIN listed
  BY <1>1, Zenon DEF Typed
<1> QED
  BY ONLY <1>1, <1>2 DEF ReportedMacs, OwnMacs

\* IdIsStable for every host: the identity is a function of the firmware and of
\* the addresses the cards were made with (ReadId, getPermMacAddress).
THEOREM IdStable == NetworkSpec => IdIsStable
<1> DEFINE Stable == AllLinked /\ AllLinked' => NextId = Id
<1>1. ASSUME NetworkInv, NetworkNext PROVE Stable
  <2> SUFFICES ASSUME AllLinked, AllLinked' PROVE NextId = Id
    OBVIOUS
  <2>1. Kept /\ board' = board /\ nics \in Seq(Nics) /\ nics' \in Seq(Nics)
    BY <1>1, NetworkSteps DEF Others, Kept, NetworkInv
  <2>2. ReportedMacs(nics) = OwnMacs(nics)
    BY <2>1, LinkedMacs DEF AllLinked
  <2>3. ReportedMacs(nics') = OwnMacs(nics')
    BY <2>1, LinkedMacs DEF AllLinked
  <2>4. OwnMacs(nics') = OwnMacs(nics)
    BY ONLY <2>1 DEF Kept
  <2>5. Id = IdFrom(ReportedMacs(nics), board)
    BY <2>1, IdFromMacs DEF Id
  <2>6. NextId = IdFrom(ReportedMacs(nics'), board')
    BY <2>1, IdFromMacs DEF NextId
  <2> QED
    BY ONLY <2>1, <2>2, <2>3, <2>4, <2>5, <2>6
<1>2. ASSUME UNCHANGED networkVars PROVE Stable
  BY <1>2 DEF networkVars, NextId, Id
<1>3. NetworkInv /\ [NetworkNext]_networkVars => [Stable]_networkVars
  BY ONLY <1>1, <1>2
<1> QED
  BY <1>3, NetworkInvariant, PTL DEF NetworkSpec, IdIsStable

\* OrderDoesNotMatter for every host: two lists of the same interfaces give the
\* same identity and the same name (findUsableNIC, uuidFromNetworkInterfaces).
THEOREM OrderIrrelevant == NetworkSpec => OrderDoesNotMatter
<1> DEFINE Regardless == Listed' = Listed /\ Others => NextName = Name /\ NextId = Id
<1>1. ASSUME NetworkInv, NetworkNext PROVE Regardless
  <2> SUFFICES ASSUME Listed' = Listed, Others PROVE NextName = Name /\ NextId = Id
    OBVIOUS
  <2>1. /\ nics \in Seq(Nics) /\ nics' \in Seq(Nics) /\ NamesDiffer(nics)
        /\ board' = board /\ routes' = routes /\ hostname' = hostname
    BY <1>1, NetworkSteps DEF Others, Kept, NetworkInv
  <2>2. /\ \A n \in DOMAIN nics : \E m \in DOMAIN nics' : nics'[m] = nics[n]
        /\ \A m \in DOMAIN nics' : \E n \in DOMAIN nics : nics[n] = nics'[m]
    BY Listed' = Listed DEF Listed
  <2>3. NameOf(nics, routes, hostname) = NameOf(nics', routes, hostname)
    BY ONLY <2>1, <2>2, NameFromSet
  <2>4. ReportedMacs(nics') = ReportedMacs(nics)
    <3>1. \A n \in Typed(nics) : \E m \in Typed(nics') : nics'[m] = nics[n]
      BY ONLY <2>2 DEF Typed
    <3>2. \A m \in Typed(nics') : \E n \in Typed(nics) : nics[n] = nics'[m]
      BY ONLY <2>2 DEF Typed
    <3> QED
      BY ONLY <3>1, <3>2 DEF ReportedMacs
  <2>5. Id = IdFrom(ReportedMacs(nics), board) /\ NextId = IdFrom(ReportedMacs(nics'), board')
    BY <2>1, IdFromMacs DEF Id, NextId
  <2>6. NextName = Name
    BY ONLY <2>1, <2>3 DEF NextName, Name
  <2> QED
    BY ONLY <2>1, <2>4, <2>5, <2>6
<1>2. ASSUME UNCHANGED networkVars PROVE Regardless
  BY <1>2 DEF networkVars, NextId, Id, NextName, Name
<1>3. NetworkInv /\ [NetworkNext]_networkVars => [Regardless]_networkVars
  BY ONLY <1>1, <1>2
<1> QED
  BY <1>3, NetworkInvariant, PTL DEF NetworkSpec, OrderDoesNotMatter

\* The address a route covers keeps its number and takes the prefix of the route.
LEMMA PrefixOfRoute ==
  ASSUME NEW a \in Addresses, NEW known \in Routes6,
         NEW covering,
         covering = {r \in DOMAIN known : isUsableIPv6Route(known[r]) /\ SetV6Prefix(a, known).ip \in known[r].ips}
  PROVE  /\ covering = {} => SetV6Prefix(a, known).prefix = 128
         /\ covering # {} => \E r \in covering : SetV6Prefix(a, known).prefix = known[r].prefix
<1> DEFINE containing == {r \in DOMAIN known : isUsableIPv6Route(known[r]) /\ a.ip \in known[r].ips}
<1>1. a = [v4 |-> a.v4, scope |-> a.scope, ip |-> a.ip, prefix |-> 128] /\ a.prefix = 128
  BY DEF Addresses, Address
<1>2. containing \subseteq Nat
  BY NetworkAssumption
<1>3. CASE containing = {}
  <2>1. SetV6Prefix(a, known) = a
    BY <1>3 DEF SetV6Prefix
  <2>2. covering = {}
    BY <1>3, <2>1
  <2> QED
    BY ONLY <1>1, <2>1, <2>2
<1>4. CASE containing # {}
  <2> DEFINE r == Min(containing)
  <2>1. SetV6Prefix(a, known) = [a EXCEPT !.prefix = known[r].prefix]
    BY <1>4 DEF SetV6Prefix
  <2>2. r \in containing
    <3> HIDE DEF containing
    <3> QED
      BY ONLY <1>2, <1>4, MinOfNaturals
  <2> HIDE DEF r
  <2>3. SetV6Prefix(a, known).ip = a.ip /\ SetV6Prefix(a, known).prefix = known[r].prefix
    BY ONLY <1>1, <2>1
  <2>4. covering = containing
    BY ONLY <2>3, covering = {q \in DOMAIN known : /\ isUsableIPv6Route(known[q])
                                                   /\ SetV6Prefix(a, known).ip \in known[q].ips}
  <2> HIDE DEF containing
  <2> QED
    BY ONLY <1>4, <2>2, <2>3, <2>4
<1> QED
  BY ONLY <1>3, <1>4

\* PrefixIsAdvertised for every host, every list of routes and every address
\* (SetV6PrefixesForAddress).
THEOREM PrefixAdvertised == NetworkSpec => []PrefixIsAdvertised
<1>1. ASSUME NetworkInv PROVE PrefixIsAdvertised
  <2> SUFFICES ASSUME NEW n \in DOMAIN Interfaces, NEW a \in DOMAIN Interfaces[n].ipv6, AllLinked
               PROVE  LET address == Interfaces[n].ipv6[a]
                          covering == {r \in DOMAIN routes :
                                         isUsableIPv6Route(routes[r]) /\ address.ip \in routes[r].ips}
                      IN IF covering # {} THEN \E r \in covering : address.prefix = routes[r].prefix
                         ELSE address.prefix = 128
    BY DEF PrefixIsAdvertised
  <2>1. nics \in Seq(Nics) /\ routes \in Routes6
    BY <1>1 DEF NetworkInv
  <2>2. Reports(Interfaces, nics, routes)
    BY ONLY <2>1, GetInterfaces DEF Interfaces
  <2>3. PICK m \in Typed(nics) : Interfaces[n] = InterfaceRecord(nics[m], routes)
    <3>1. n \in 1 .. Len(Interfaces)
      BY ONLY <2>2, n \in DOMAIN Interfaces DEF Reports
    <3> QED
      BY ONLY <2>2, <3>1 DEF Reports
  <2> DEFINE nic == nics[m]
             K == {i \in DOMAIN nic.addrs : nic.addrs[i].v4 = FALSE /\ nic.addrs[i].scope # "link-local"}
             v6 == Selected(nic.addrs, K)
  <2>4. nic \in Nics /\ nic.linked /\ nic.addrs \in Seq(Addresses)
    BY <2>1 DEF AllLinked, Typed, Nics, NicRecord
  <2>5. Interfaces[n].ipv6 = [i \in DOMAIN v6 |-> SetV6Prefix(v6[i], routes)]
    <3>1. InterfaceRecord(nic, routes).ipv6 = [i \in DOMAIN v6 |-> SetV6Prefix(v6[i], routes)]
      BY ONLY <2>4 DEF InterfaceRecord
    <3> QED
      BY ONLY <2>3, <3>1, Zenon
  <2>6. K \subseteq 1 .. Len(nic.addrs)
    BY <2>4
  <2> HIDE DEF K
  <2>7. v6 \in Seq(Addresses)
    BY ONLY <2>4, <2>6, SelectedElements, Zenon
  <2> HIDE DEF v6
  <2>8. Interfaces[n].ipv6[a] = SetV6Prefix(v6[a], routes) /\ a \in DOMAIN v6
    BY ONLY <2>5, a \in DOMAIN Interfaces[n].ipv6
  <2>9. v6[a] \in Addresses
    BY ONLY <2>7, <2>8
  <2> DEFINE address == Interfaces[n].ipv6[a]
             covering == {r \in DOMAIN routes : isUsableIPv6Route(routes[r]) /\ address.ip \in routes[r].ips}
  <2>10. covering = {r \in DOMAIN routes :
                       isUsableIPv6Route(routes[r]) /\ SetV6Prefix(v6[a], routes).ip \in routes[r].ips}
    BY ONLY <2>8
  <2>11. /\ covering = {} => SetV6Prefix(v6[a], routes).prefix = 128
         /\ covering # {} => \E r \in covering : SetV6Prefix(v6[a], routes).prefix = routes[r].prefix
    <3> HIDE DEF covering
    <3> QED
      BY ONLY <2>1, <2>9, <2>10, PrefixOfRoute
  <2> QED
    BY ONLY <2>8, <2>11
<1> QED
  BY <1>1, NetworkInvariant, PTL
-----------------------------------------------------------------------------
(***************************************************************************)
(* The order of the connectivity report.                                   *)
(***************************************************************************)
\* x, and x and y at different places, are among the elements of the first n slices.
OnePlace(seqs, n, x) == \E a \in 1 .. n : \E i \in 1 .. Len(seqs[a]) : x = seqs[a][i]
TwoPlaces(seqs, n, x, y) ==
  \E a, b \in 1 .. n : \E i \in 1 .. Len(seqs[a]) : \E j \in 1 .. Len(seqs[b]) :
    x = seqs[a][i] /\ y = seqs[b][j] /\ (a # b \/ i # j)

\* Slices that are joined keep their elements apart: two places of the result come
\* from two places of the slices.
LEMMA JoinedPlaces ==
  ASSUME NEW S, NEW seqs \in Seq(Seq(S))
  PROVE  \A p, q \in 1 .. Len(Joined(seqs)) :
           p # q => TwoPlaces(seqs, Len(seqs), Joined(seqs)[p], Joined(seqs)[q])
<1> DEFINE N == Len(seqs)
<1>0. N \in Nat /\ \A i \in 1 .. N : seqs[i] \in Seq(S)
  OBVIOUS
<1>a. PICK h : Concats(h, seqs, S) /\ Joined(seqs) = h[N]
  BY JoinedUnfolds
<1>1. /\ h \in [0 .. N -> Seq(S)] /\ h[0] = <<>>
      /\ \A i \in 1 .. N : h[i] = h[i - 1] \o seqs[i]
  BY ONLY <1>a, Zenon DEF Concats
<1> HIDE DEF N
<1> DEFINE One(k) == \A p \in 1 .. Len(h[k]) : OnePlace(seqs, k, h[k][p])
           Two(k) == \A p, q \in 1 .. Len(h[k]) : p # q => TwoPlaces(seqs, k, h[k][p], h[k][q])
           Holds(k) == One(k) /\ Two(k)
           P == {k \in Nat : k <= N => Holds(k)}
<1>2. 0 \in P
  <2>1. Len(h[0]) = 0
    BY ONLY <1>1
  <2>2. 1 .. Len(h[0]) = {}
    BY ONLY <2>1
  <2> QED
    BY ONLY <2>2
<1>3. ASSUME NEW k \in Nat, k \in P, k + 1 <= N PROVE Holds(k + 1)
  <2> DEFINE a == h[k]
             b == seqs[k + 1]
             t == h[k + 1]
  <2>0. k <= N /\ k + 1 \in 1 .. N /\ k \in 0 .. N /\ (k + 1) - 1 = k
    BY ONLY <1>0, <1>3
  <2>1. a \in Seq(S) /\ b \in Seq(S) /\ t = a \o b
    BY ONLY <1>0, <1>1, <2>0, Zenon
  <2>2. One(k) /\ Two(k)
    <3>1. Holds(k)
      <4> HIDE DEF Holds
      <4> QED
        BY ONLY <1>3, <2>0
    <3> QED
      BY ONLY <3>1
  <2> HIDE DEF t
  <2>3. /\ \A n \in 1 .. Len(t) : n \in 1 .. Len(a) => t[n] = a[n]
        /\ \A n \in 1 .. Len(t) : n \notin 1 .. Len(a) =>
             n - Len(a) \in 1 .. Len(b) /\ t[n] = b[n - Len(a)]
    <3>1. Joins(t, a, b)
      BY ONLY <2>1, ConcatElements, Zenon
    <3> QED
      BY ONLY <3>1, Zenon DEF Joins
  <2>4. k + 1 \in 1 .. k + 1 /\ \A i \in 1 .. k : i \in 1 .. k + 1 /\ i # k + 1
    BY ONLY k \in Nat
  <2>5. \A x : OnePlace(seqs, k, x) => OnePlace(seqs, k + 1, x)
    BY ONLY <2>4, Zenon DEF OnePlace
  <2>6. \A x, y : TwoPlaces(seqs, k, x, y) => TwoPlaces(seqs, k + 1, x, y)
    BY ONLY <2>4, Zenon DEF TwoPlaces
  <2>7. \A m \in 1 .. Len(b) : OnePlace(seqs, k + 1, b[m])
    BY ONLY <2>4, Zenon DEF OnePlace
  <2>8. \A x : \A m \in 1 .. Len(b) : OnePlace(seqs, k, x) => /\ TwoPlaces(seqs, k + 1, x, b[m])
                                                              /\ TwoPlaces(seqs, k + 1, b[m], x)
    BY ONLY <2>4, Zenon DEF OnePlace, TwoPlaces
  <2>9. \A m, n \in 1 .. Len(b) : m # n => TwoPlaces(seqs, k + 1, b[m], b[n])
    BY ONLY <2>4, Zenon DEF TwoPlaces
  <2> HIDE DEF a, b
  <2>10. One(k + 1)
    BY ONLY <2>2, <2>3, <2>5, <2>7, Zenon DEF a, t
  <2>11. Two(k + 1)
    <3> SUFFICES ASSUME NEW p \in 1 .. Len(t), NEW q \in 1 .. Len(t), p # q
                 PROVE  TwoPlaces(seqs, k + 1, t[p], t[q])
      BY Zenon DEF t
    <3>1. \A n \in 1 .. Len(a) : OnePlace(seqs, k, a[n])
      BY ONLY <2>2 DEF a
    <3>2. CASE p \in 1 .. Len(a) /\ q \in 1 .. Len(a)
      BY ONLY <2>2, <2>3, <2>6, <3>2, p \in 1 .. Len(t), q \in 1 .. Len(t), p # q, Zenon DEF a
    <3>3. CASE p \in 1 .. Len(a) /\ q \notin 1 .. Len(a)
      BY ONLY <2>3, <2>8, <3>1, <3>3, p \in 1 .. Len(t), q \in 1 .. Len(t), Zenon
    <3>4. CASE p \notin 1 .. Len(a) /\ q \in 1 .. Len(a)
      BY ONLY <2>3, <2>8, <3>1, <3>4, p \in 1 .. Len(t), q \in 1 .. Len(t), Zenon
    <3>5. CASE p \notin 1 .. Len(a) /\ q \notin 1 .. Len(a)
      <4>1. p - Len(a) # q - Len(a)
        <5>1. Len(a) \in Nat /\ p \in Int /\ q \in Int
          BY ONLY <2>1, p \in 1 .. Len(t), q \in 1 .. Len(t)
        <5> QED
          BY ONLY <5>1, p # q
      <4> QED
        BY ONLY <2>3, <2>9, <3>5, <4>1, p \in 1 .. Len(t), q \in 1 .. Len(t), Zenon
    <3> QED
      BY ONLY <3>2, <3>3, <3>4, <3>5
  <2> QED
    BY ONLY <2>10, <2>11
<1>4. Holds(N)
  <2> HIDE DEF Holds
  <2>1. \A k \in Nat : k \in P => k + 1 \in P
    BY ONLY <1>0, <1>3
  <2>2. N \in P
    <3> HIDE DEF P
    <3> QED
      BY ONLY <1>0, <1>2, <2>1, SetInduction, Zenon
  <2> QED
    BY ONLY <1>0, <2>2
<1> QED
  BY ONLY <1>4, <1>a, Zenon DEF N

\* less compares the positions of s as R compares the elements.
Compares(less, s, R) ==
  \A m, n \in 1 .. Len(s) : <<m, n>> \in less <=> <<s[m], s[n]>> \in R

\* R tells any two elements of s apart.
ToldApart(s, R) ==
  \A m, n \in 1 .. Len(s) : m # n => <<s[m], s[n]>> \in R \/ <<s[n], s[m]>> \in R

\* A comparison of elements is one of the positions of a list of them.
LEMMA WeakPositions ==
  ASSUME NEW S, NEW s \in Seq(S), NEW R, WeakOrder(R, S), NEW less, Compares(less, s, R)
  PROVE  WeakOrder(less, 1 .. Len(s))
<1>1. \A m \in 1 .. Len(s) : s[m] \in S
  OBVIOUS
<1> QED
  BY ONLY <1>1, WeakOrder(R, S), Compares(less, s, R), Zenon DEF WeakOrder, Compares

\* A sorted list is in order, and increases if no two elements are alike.
LEMMA SortedInOrder ==
  ASSUME NEW S, NEW s \in Seq(S), NEW R, WeakOrder(R, S), NEW less, Compares(less, s, R),
         NEW t, t = StableSort(s, less), NEW after, Compares(after, t, R)
  PROVE  /\ t \in Seq(S) /\ Len(t) = Len(s)
         /\ InOrder(t, after)
         /\ ToldApart(s, R) => Increases(t, after)
<1>2. WeakOrder(less, 1 .. Len(s))
  BY WeakPositions, Zenon
<1>3. /\ t \in Seq(S) /\ Len(t) = Len(s)
      /\ \E f : Sorts(f, t, s, less)
  BY <1>2, SortedPositions, Zenon
<1>4. PICK f : Sorts(f, t, s, less)
  BY <1>3
<1>5. /\ \A n \in 1 .. Len(s) : f[n] \in 1 .. Len(s) /\ t[n] = s[f[n]]
      /\ \A m, n \in 1 .. Len(s) :
           m < n => <<f[n], f[m]>> \notin less /\ (<<f[m], f[n]>> \in less \/ f[m] < f[n])
  BY ONLY <1>4, Zenon DEF Sorts
<1>6. ASSUME NEW m \in 1 .. Len(t), NEW n \in 1 .. Len(t), m < n
      PROVE  /\ <<n, m>> \notin after
             /\ ToldApart(s, R) => <<m, n>> \in after
  <2>1. m \in 1 .. Len(s) /\ n \in 1 .. Len(s)
    BY ONLY <1>3, <1>6
  <2>2. f[m] \in 1 .. Len(s) /\ f[n] \in 1 .. Len(s) /\ t[m] = s[f[m]] /\ t[n] = s[f[n]]
    BY ONLY <1>5, <2>1
  <2>3. <<f[n], f[m]>> \notin less /\ (<<f[m], f[n]>> \in less \/ f[m] < f[n])
    BY ONLY <1>5, <2>1, m < n, Zenon
  <2>4. <<n, m>> \notin after
    BY ONLY <1>6, <2>2, <2>3, Compares(less, s, R), Compares(after, t, R), Zenon DEF Compares
  <2>5. ASSUME ToldApart(s, R) PROVE <<m, n>> \in after
    <3>1. CASE <<f[m], f[n]>> \in less
      BY ONLY <1>6, <2>2, <3>1, Compares(less, s, R), Compares(after, t, R), Zenon DEF Compares
    <3>2. CASE f[m] < f[n]
      <4>1. f[m] # f[n]
        BY ONLY <2>2, <3>2
      <4>2. <<s[f[m]], s[f[n]]>> \in R
        BY ONLY <2>2, <2>3, <2>5, <4>1, Compares(less, s, R), Zenon DEF Compares, ToldApart
      <4> QED
        BY ONLY <1>6, <2>2, <4>2, Compares(after, t, R), Zenon DEF Compares
    <3> QED
      BY ONLY <2>3, <3>1, <3>2
  <2> QED
    BY ONLY <2>4, <2>5
<1> QED
  BY ONLY <1>3, <1>6, Zenon DEF InOrder, Increases

\* The entries and the reporters of a real run.
Entries == [nic : Nat, ip : Nat, mac : Nat, ok : BOOLEAN]
Reporters == [list : {"none", "L2", "L3", "MTU"}, entries : Seq(Entries)]

\* The comparisons of the Finalize methods, between entries.
IpOrder == {p \in Entries \X Entries : p[1].ip < p[2].ip}
IpMacOrder ==
  {p \in Entries \X Entries :
     p[1].ip < p[2].ip \/ (p[1].ip = p[2].ip /\ p[1].mac < p[2].mac)}

\* They are comparisons a sort may be given.
LEMMA EntryOrders == WeakOrder(IpOrder, Entries) /\ WeakOrder(IpMacOrder, Entries)
<1>1. \A e \in Entries : e.ip \in Nat /\ e.mac \in Nat
  BY DEF Entries
<1>2. /\ \A d, e \in Entries : <<d, e>> \in IpOrder <=> d.ip < e.ip
      /\ \A d, e \in Entries : <<d, e>> \in IpMacOrder <=>
           d.ip < e.ip \/ (d.ip = e.ip /\ d.mac < e.mac)
  BY DEF IpOrder, IpMacOrder
<1>3. WeakOrder(IpOrder, Entries)
  <2>1. ASSUME NEW i \in Entries, NEW j \in Entries PROVE ~(i.ip < j.ip /\ j.ip < i.ip)
    BY ONLY <1>1, <2>1
  <2>2. ASSUME NEW i \in Entries, NEW j \in Entries, NEW k \in Entries
        PROVE  /\ i.ip < j.ip /\ j.ip < k.ip => i.ip < k.ip
               /\ i.ip < k.ip => i.ip < j.ip \/ j.ip < k.ip
    BY ONLY <1>1, <2>2
  <2> QED
    BY ONLY <1>2, <2>1, <2>2, Zenon DEF WeakOrder
<1>4. WeakOrder(IpMacOrder, Entries)
  <2> DEFINE Less(d, e) == d.ip < e.ip \/ (d.ip = e.ip /\ d.mac < e.mac)
  <2>1. ASSUME NEW i \in Entries, NEW j \in Entries PROVE ~(Less(i, j) /\ Less(j, i))
    BY ONLY <1>1, <2>1
  <2>2. ASSUME NEW i \in Entries, NEW j \in Entries, NEW k \in Entries
        PROVE  /\ Less(i, j) /\ Less(j, k) => Less(i, k)
               /\ Less(i, k) => Less(i, j) \/ Less(j, k)
    BY ONLY <1>1, <2>2
  <2>3. \A d, e \in Entries : <<d, e>> \in IpMacOrder <=> Less(d, e)
    BY ONLY <1>2
  <2> HIDE DEF Less
  <2> QED
    BY ONLY <2>1, <2>2, <2>3, Zenon DEF WeakOrder
<1> QED
  BY ONLY <1>3, <1>4

\* ByIP and ByIPAndMac compare positions so.
LEMMA EntryCompares ==
  ASSUME NEW s \in Seq(Entries)
  PROVE  Compares(ByIP(s), s, IpOrder) /\ Compares(ByIPAndMac(s), s, IpMacOrder)
<1>1. DOMAIN s = 1 .. Len(s) /\ \A m \in 1 .. Len(s) : s[m] \in Entries
  OBVIOUS
<1>2. ASSUME NEW m \in 1 .. Len(s), NEW n \in 1 .. Len(s)
      PROVE  /\ <<m, n>> \in ByIP(s) <=> s[m].ip < s[n].ip
             /\ <<m, n>> \in ByIPAndMac(s) <=>
                  s[m].ip < s[n].ip \/ (s[m].ip = s[n].ip /\ s[m].mac < s[n].mac)
  BY ONLY <1>1, <1>2 DEF ByIP, ByIPAndMac, Pairs
<1>3. ASSUME NEW m \in 1 .. Len(s), NEW n \in 1 .. Len(s)
      PROVE  /\ <<s[m], s[n]>> \in IpOrder <=> s[m].ip < s[n].ip
             /\ <<s[m], s[n]>> \in IpMacOrder <=>
                  s[m].ip < s[n].ip \/ (s[m].ip = s[n].ip /\ s[m].mac < s[n].mac)
  BY ONLY <1>1, <1>3 DEF IpOrder, IpMacOrder
<1> QED
  BY ONLY <1>2, <1>3, Zenon DEF Compares

\* Reporters of ping have one entry, and no two are about the same address.
PingsApart(rs) ==
  /\ \A a \in 1 .. Len(rs) : rs[a].list = "L3" => Len(rs[a].entries) = 1
  /\ \A a, b \in 1 .. Len(rs) :
       a # b /\ rs[a].list = "L3" /\ rs[b].list = "L3"
       => rs[a].entries[1].ip # rs[b].entries[1].ip

OrderedReport(r) ==
  /\ InOrder(r.L3, ByIP(r.L3)) /\ InOrder(r.MTU, ByIP(r.MTU))
  /\ InOrder(r.L2, ByIPAndMac(r.L2))

\* The lists of a host are in order, whatever order its reporters arrived in.
LEMMA ReportInOrder ==
  ASSUME NEW rs \in Seq(Reporters), NEW dry, ~dry, NEW r, r = HostReport(dry, rs)
  PROVE  /\ OrderedReport(r)
         /\ PingsApart(rs) => Increases(r.L3, ByIP(r.L3))
<1> DEFINE slices(list) == [n \in DOMAIN rs |-> IF rs[n].list = list THEN rs[n].entries ELSE <<>>]
           of(list) == Joined(slices(list))
<1>1. DOMAIN rs = 1 .. Len(rs) /\ Len(rs) \in Nat /\ \A n \in 1 .. Len(rs) : rs[n] \in Reporters
  OBVIOUS
<1>2. ASSUME NEW list
      PROVE  /\ slices(list) \in Seq(Seq(Entries)) /\ Len(slices(list)) = Len(rs)
             /\ of(list) \in Seq(Entries)
  <2>1. \A n \in 1 .. Len(rs) : rs[n].entries \in Seq(Entries)
    BY ONLY <1>1 DEF Reporters
  <2>2. slices(list) \in Seq(Seq(Entries)) /\ Len(slices(list)) = Len(rs)
    BY ONLY <1>1, <2>1
  <2> HIDE DEF slices
  <2> QED
    BY ONLY <2>2, JoinedElements
<1>3. /\ r.L2 = StableSort(of("L2"), ByIPAndMac(of("L2")))
      /\ r.L3 = StableSort(of("L3"), ByIP(of("L3")))
      /\ r.MTU = StableSort(of("MTU"), ByIP(of("MTU")))
  BY Zenon DEF HostReport, Finalize, Reported
<1> HIDE DEF of
<1>4. ASSUME NEW s \in Seq(Entries), NEW t, t = StableSort(s, ByIP(s))
      PROVE  InOrder(t, ByIP(t)) /\ (ToldApart(s, IpOrder) => Increases(t, ByIP(t)))
  <2>1. WeakOrder(IpOrder, Entries) /\ Compares(ByIP(s), s, IpOrder)
    BY EntryOrders, EntryCompares, <1>4
  <2>2. t \in Seq(Entries)
    <3>1. WeakOrder(ByIP(s), 1 .. Len(s))
      BY <2>1, WeakPositions, <1>4
    <3> QED
      BY ONLY <1>4, <3>1, SortedPositions
  <2>3. Compares(ByIP(t), t, IpOrder)
    BY ONLY <2>2, EntryCompares
  <2> QED
    BY ONLY <1>4, <2>1, <2>3, SortedInOrder
<1>5. ASSUME NEW s \in Seq(Entries), NEW t, t = StableSort(s, ByIPAndMac(s))
      PROVE  InOrder(t, ByIPAndMac(t))
  <2>1. WeakOrder(IpMacOrder, Entries) /\ Compares(ByIPAndMac(s), s, IpMacOrder)
    BY EntryOrders, EntryCompares, <1>5
  <2>2. t \in Seq(Entries)
    <3>1. WeakOrder(ByIPAndMac(s), 1 .. Len(s))
      BY <2>1, WeakPositions, <1>5
    <3> QED
      BY ONLY <1>5, <3>1, SortedPositions
  <2>3. Compares(ByIPAndMac(t), t, IpMacOrder)
    BY ONLY <2>2, EntryCompares
  <2> QED
    BY ONLY <1>5, <2>1, <2>3, SortedInOrder
<1>6. ASSUME PingsApart(rs) PROVE ToldApart(of("L3"), IpOrder)
  <2> DEFINE seqs == slices("L3")
             s == of("L3")
  <2>1. seqs \in Seq(Seq(Entries)) /\ Len(seqs) = Len(rs) /\ s \in Seq(Entries) /\ s = Joined(seqs)
    BY <1>2, Zenon DEF of
  <2>2. ASSUME NEW a \in 1 .. Len(rs), NEW i \in 1 .. Len(seqs[a])
        PROVE  rs[a].list = "L3" /\ i = 1 /\ seqs[a][i] = rs[a].entries[1]
    <3>1. seqs[a] = IF rs[a].list = "L3" THEN rs[a].entries ELSE <<>>
      BY ONLY <1>1, <2>2
    <3> HIDE DEF seqs
    <3>2. CASE rs[a].list = "L3"
      <4>1. seqs[a] = rs[a].entries /\ Len(rs[a].entries) = 1
        BY ONLY <1>6, <2>2, <3>1, <3>2, Zenon DEF PingsApart
      <4>2. i = 1
        BY ONLY <2>2, <4>1
      <4> QED
        BY ONLY <3>2, <4>1, <4>2
    <3>3. CASE rs[a].list # "L3"
      BY ONLY <2>2, <3>1, <3>3
    <3> QED
      BY ONLY <3>2, <3>3
  <2> HIDE DEF seqs, s
  <2>3. \A p, q \in 1 .. Len(s) : p # q => TwoPlaces(seqs, Len(rs), s[p], s[q])
    BY ONLY <2>1, JoinedPlaces
  <2>4. ASSUME NEW p \in 1 .. Len(s), NEW q \in 1 .. Len(s), p # q
        PROVE  <<s[p], s[q]>> \in IpOrder \/ <<s[q], s[p]>> \in IpOrder
    <3>1. PICK a \in 1 .. Len(rs), b \in 1 .. Len(rs) :
            \E i \in 1 .. Len(seqs[a]) : \E j \in 1 .. Len(seqs[b]) :
              s[p] = seqs[a][i] /\ s[q] = seqs[b][j] /\ (a # b \/ i # j)
      BY ONLY <2>3, <2>4, Zenon DEF TwoPlaces
    <3>2. PICK i \in 1 .. Len(seqs[a]), j \in 1 .. Len(seqs[b]) :
            s[p] = seqs[a][i] /\ s[q] = seqs[b][j] /\ (a # b \/ i # j)
      BY ONLY <3>1, Zenon
    <3>3. /\ rs[a].list = "L3" /\ i = 1 /\ s[p] = rs[a].entries[1]
          /\ rs[b].list = "L3" /\ j = 1 /\ s[q] = rs[b].entries[1]
      BY ONLY <2>2, <3>2, Zenon
    <3>4. s[p].ip # s[q].ip
      BY ONLY <1>6, <3>2, <3>3, Zenon DEF PingsApart
    <3>5. s[p] \in Entries /\ s[q] \in Entries
      BY ONLY <2>1, <2>4
    <3>6. s[p].ip < s[q].ip \/ s[q].ip < s[p].ip
      BY ONLY <3>4, <3>5 DEF Entries
    <3> QED
      BY ONLY <3>5, <3>6 DEF IpOrder
  <2> QED
    BY ONLY <2>4, Zenon DEF ToldApart, s
<1> HIDE DEF slices
<1>7. OrderedReport(r)
  BY ONLY <1>2, <1>3, <1>4, <1>5, Zenon DEF OrderedReport
<1>8. ASSUME PingsApart(rs) PROVE Increases(r.L3, ByIP(r.L3))
  BY ONLY <1>2, <1>3, <1>4, <1>6, <1>8, Zenon
<1> QED
  BY ONLY <1>7, <1>8

\* The jobs of a real run.
RealJob(job) ==
  job.checker \in {"ping", "arping", "nmap", "mtu"} /\ job.ip \in Nat /\ job.nic.name \in Nat

\* What a check returns: entries about its own address, and for ping exactly one.
LEMMA ChecksReport ==
  ASSUME NEW job, RealJob(job), NEW reporter \in CheckJob(job)
  PROVE  /\ reporter \in Reporters
         /\ reporter.list = "L3" => /\ job.checker = "ping" /\ Len(reporter.entries) = 1
                                    /\ reporter.entries[1].ip = job.ip
<1>1. \A mac \in Nat : \A ok \in BOOLEAN :
        Entry(job, mac, ok) \in Entries /\ Entry(job, mac, ok).ip = job.ip
  BY DEF RealJob, Entry, Entries
<1>2. ASSUME NEW list \in {"L2", "L3", "MTU"}, NEW entries \in Seq(Entries)
      PROVE  /\ Reporter(list, entries) \in Reporters
             /\ Reporter(list, entries).list = list /\ Reporter(list, entries).entries = entries
  BY DEF Reporter, Reporters
<1>3. ASSUME NEW mac \in Nat, NEW ok \in BOOLEAN
      PROVE  LET entries == <<Entry(job, mac, ok)>>
             IN entries \in Seq(Entries) /\ Len(entries) = 1 /\ entries[1].ip = job.ip
  <2> DEFINE e == Entry(job, mac, ok)
  <2>1. e \in Entries /\ e.ip = job.ip
    BY ONLY <1>1, <1>3
  <2> HIDE DEF e
  <2>2. <<e>> \in Seq(Entries) /\ Len(<<e>>) = 1 /\ <<e>>[1] = e
    BY ONLY <2>1
  <2> QED
    BY ONLY <2>1, <2>2 DEF e
<1>4. NilReporter \in Reporters /\ NilReporter.list = "none"
  BY DEF NilReporter, Reporters
<1>5. 0 \in Nat /\ Macs \subseteq Nat
  BY AddressesAssumption
<1>6. \A mac : (mac \in job.macs) \in BOOLEAN
  OBVIOUS
<1>7. CASE job.checker = "ping"
  <2>1. CheckJob(job) = ping(job)
    BY ONLY <1>7 DEF CheckJob
  <2>2. PICK ok \in BOOLEAN : reporter = Reporter("L3", <<Entry(job, 0, ok)>>)
    BY ONLY <2>1, reporter \in CheckJob(job) DEF ping
  <2> DEFINE entries == <<Entry(job, 0, ok)>>
  <2>3. entries \in Seq(Entries) /\ Len(entries) = 1 /\ entries[1].ip = job.ip
    BY ONLY <1>3, <1>5, <2>2, Zenon
  <2>4. reporter = Reporter("L3", entries)
    BY ONLY <2>2
  <2> HIDE DEF entries
  <2>5. reporter \in Reporters /\ reporter.entries = entries
    BY ONLY <1>2, <2>3, <2>4, Zenon
  <2> QED
    BY ONLY <1>7, <2>3, <2>5
<1>8. CASE job.checker = "arping"
  <2>1. CheckJob(job) = arping(job)
    BY ONLY <1>8 DEF CheckJob
  <2>2. CASE reporter = NilReporter
    BY ONLY <1>4, <2>2
  <2>3. CASE reporter # NilReporter
    <3>1. PICK replies \in SUBSET Macs : \E order \in Orders(replies) :
            reporter = Reporter("L2", [n \in DOMAIN order |-> Entry(job, order[n], order[n] \in job.macs)])
      BY ONLY <2>1, <2>3, reporter \in CheckJob(job), Zenon DEF arping
    <3>2. PICK order \in Orders(replies) :
            reporter = Reporter("L2", [n \in DOMAIN order |-> Entry(job, order[n], order[n] \in job.macs)])
      BY ONLY <3>1, Zenon
    <3>3. Cardinality(replies) \in Nat
      BY AddressesAssumption, FS_Subset, FS_CardinalityType, Zenon
    <3>4. order \in [1 .. Cardinality(replies) -> replies]
      BY ONLY <3>2, Zenon DEF Orders
    <3> DEFINE entries == [n \in DOMAIN order |-> Entry(job, order[n], order[n] \in job.macs)]
               N == Cardinality(replies)
    <3>5. \A n \in 1 .. N : Entry(job, order[n], order[n] \in job.macs) \in Entries
      <4>1. \A n \in 1 .. N : order[n] \in Nat
        BY ONLY <1>5, <3>1, <3>4, Zenon
      <4> HIDE DEF N
      <4> QED
        BY ONLY <1>1, <1>6, <4>1, Zenon
    <3>6. entries \in Seq(Entries)
      <4>1. entries \in [1 .. N -> Entries]
        BY ONLY <3>4, <3>5, Zenon
      <4> HIDE DEF entries
      <4> QED
        BY ONLY <3>3, <4>1
    <3> HIDE DEF entries
    <3>7. reporter = Reporter("L2", entries)
      BY ONLY <3>2 DEF entries
    <3> QED
      BY ONLY <1>2, <3>6, <3>7
  <2> QED
    BY ONLY <2>2, <2>3
<1>9. CASE job.checker = "nmap"
  <2>1. CheckJob(job) = nmap(job)
    BY ONLY <1>9 DEF CheckJob
  <2>2. CASE reporter = NilReporter
    BY ONLY <1>4, <2>2
  <2>3. CASE reporter # NilReporter
    <3>1. PICK mac \in Macs : reporter = Reporter("L2", <<Entry(job, mac, mac \in job.macs)>>)
      BY ONLY <2>1, <2>3, reporter \in CheckJob(job), Zenon DEF nmap
    <3>2. <<Entry(job, mac, mac \in job.macs)>> \in Seq(Entries)
      BY ONLY <1>3, <1>5, <1>6, <3>1, Zenon
    <3> QED
      BY ONLY <1>2, <3>1, <3>2
  <2> QED
    BY ONLY <2>2, <2>3
<1>10. CASE job.checker = "mtu"
  <2>1. CheckJob(job) = mtu(job)
    BY ONLY <1>10 DEF CheckJob
  <2>2. CASE reporter = NilReporter
    BY ONLY <1>4, <2>2
  <2>3. CASE reporter # NilReporter
    <3> DEFINE result(ok) == Reporter("MTU", <<Entry(job, 0, ok)>>)
               broken == {i \in DOMAIN job.nic.addrs : ~job.nic.addrs[i].isIPNet}
               pings == \E i \in DOMAIN job.nic.addrs : /\ \A b \in broken : i < b
                                                        /\ job.nic.addrs[i].v4 = (job.ip \in V4)
               good == result(broken = {})
               bad == result(FALSE)
    <3>a. reporter = bad \/ reporter = good
      <4>1. mtu(job) = IF job.ip \notin V4 \cup V6 THEN {bad}
                       ELSE IF job.nic.mtu = defaultMTUThreshold THEN {NilReporter}
                       ELSE {good} \cup (IF pings THEN {NilReporter, bad} ELSE {})
        BY ONLY Zenon DEF mtu
      <4> HIDE DEF pings, broken, good, bad
      <4> QED
        BY ONLY <2>1, <2>3, <4>1, reporter \in CheckJob(job)
    <3> HIDE DEF broken
    <3>1. PICK ok \in BOOLEAN : reporter = Reporter("MTU", <<Entry(job, 0, ok)>>)
      BY ONLY <3>a, Zenon
    <3>2. <<Entry(job, 0, ok)>> \in Seq(Entries)
      BY ONLY <1>3, <1>5, <3>1, Zenon
    <3> QED
      BY ONLY <1>2, <3>1, <3>2, Zenon
  <2> QED
    BY ONLY <2>2, <2>3
<1> QED
  BY <1>7, <1>8, <1>9, <1>10 DEF RealJob

\* What is found of a check is what the check may return.
FoundInv ==
  /\ request \in Requests
  /\ DOMAIN found = Hosts(request)
  /\ \A h \in Hosts(request) :
       /\ DOMAIN found[h] = Checks(request, h)
       /\ \A i \in Checks(request, h) :
            found[h][i] # Pending => found[h][i] \in Check(request.jobs[h][i])

\* The checks of a request.
LEMMA RequestJobs ==
  ASSUME NEW r \in Requests, ~r.dry
  PROVE  /\ Len(r.jobs) \in Nat /\ Hosts(r) = 1 .. Len(r.jobs)
         /\ \A h \in Hosts(r) : Len(r.jobs[h]) \in Nat /\ r.ids[h] \in Nat
         /\ \A h \in Hosts(r) : \A i \in Checks(r, h) : RealJob(r.jobs[h][i])
<1>1. /\ Len(r.jobs) \in Nat /\ Hosts(r) = 1 .. Len(r.jobs)
      /\ \A h \in Hosts(r) : Len(r.jobs[h]) \in Nat
  BY RequestsAssumption, Zenon
<1>2. \A h \in Hosts(r) :
        /\ r.ids[h] \in Nat
        /\ \A i \in Checks(r, h) :
             /\ \E k \in DOMAIN checkers(r.dry) : r.jobs[h][i].checker = checkers(r.dry)[k]
             /\ r.jobs[h][i].ip \in Nat /\ r.jobs[h][i].nic.name \in Nat
  BY JobsAssumption, Zenon
<1>3. \A k \in DOMAIN checkers(r.dry) : checkers(r.dry)[k] \in {"ping", "arping", "nmap", "mtu"}
  BY DEF checkers
<1> QED
  BY ONLY <1>1, <1>2, <1>3, Zenon DEF RealJob

\* The reporters of a host, in the order of arrival.
LEMMA ArrivedReporters ==
  ASSUME RealChecks, FoundInv, ~request.dry, NEW h \in Hosts(request),
         NEW order \in Orders(Reporting(request, found, h)),
         NEW rs, rs = [n \in DOMAIN order |-> found[h][order[n]]]
  PROVE  /\ rs \in Seq(Reporters)
         /\ PingsDiffer(request) => PingsApart(rs)
<1> DEFINE R == Reporting(request, found, h)
           N == Cardinality(R)
           job(n) == request.jobs[h][order[n]]
<1>1. /\ Len(request.jobs[h]) \in Nat
      /\ \A i \in Checks(request, h) : RealJob(request.jobs[h][i])
  BY RequestJobs DEF FoundInv
<1>2. N \in Nat
  <2>1. R \subseteq 1 .. Len(request.jobs[h])
    BY DEF Reporting, Checks
  <2>2. IsFiniteSet(1 .. Len(request.jobs[h]))
    BY ONLY <1>1, FS_Interval
  <2> QED
    BY ONLY <2>1, <2>2, FS_Subset, FS_CardinalityType, Zenon
<1>3. /\ order \in [1 .. N -> R]
      /\ \A m, n \in 1 .. N : m # n => order[m] # order[n]
  BY Zenon DEF Orders
<1>4. \A n \in 1 .. N : /\ order[n] \in Checks(request, h) /\ rs[n] = found[h][order[n]]
                        /\ rs[n] \in CheckJob(job(n))
  <2>1. \A i \in R : i \in Checks(request, h) /\ found[h][i] # Pending
    BY ONLY Zenon DEF Reporting
  <2> HIDE DEF R, N
  <2>2. \A n \in 1 .. N : order[n] \in R /\ rs[n] = found[h][order[n]]
    BY ONLY <1>3, rs = [n \in DOMAIN order |-> found[h][order[n]]]
  <2>3. \A i \in Checks(request, h) :
          found[h][i] # Pending => found[h][i] \in CheckJob(request.jobs[h][i])
    BY Zenon DEF FoundInv, RealChecks
  <2> QED
    BY ONLY <2>1, <2>2, <2>3, Zenon
<1>5. DOMAIN rs = 1 .. N
  <2> HIDE DEF R, N
  <2> QED
    BY ONLY <1>3, rs = [n \in DOMAIN order |-> found[h][order[n]]]
<1> HIDE DEF R, N
<1>6. ASSUME NEW n \in 1 .. N
      PROVE  /\ rs[n] \in Reporters
             /\ rs[n].list = "L3" => /\ job(n).checker = "ping" /\ Len(rs[n].entries) = 1
                                     /\ rs[n].entries[1].ip = job(n).ip
  <2>1. RealJob(job(n)) /\ rs[n] \in CheckJob(job(n))
    BY ONLY <1>1, <1>4, <1>6, Zenon
  <2> HIDE DEF job
  <2> QED
    BY ONLY <2>1, ChecksReport, Zenon
<1>7. rs \in Seq(Reporters) /\ Len(rs) = N
  <2>1. rs = [n \in 1 .. N |-> rs[n]]
    BY ONLY <1>5, rs = [n \in DOMAIN order |-> found[h][order[n]]], Zenon
  <2>2. \A n \in 1 .. N : rs[n] \in Reporters
    BY ONLY <1>6
  <2>3. rs \in [1 .. N -> Reporters]
    BY ONLY <2>1, <2>2
  <2> QED
    BY ONLY <1>2, <2>3
<1>8. ASSUME PingsDiffer(request), NEW a \in 1 .. N, NEW b \in 1 .. N, a # b,
             rs[a].list = "L3", rs[b].list = "L3"
      PROVE  rs[a].entries[1].ip # rs[b].entries[1].ip
  <2>1. /\ job(a).checker = "ping" /\ rs[a].entries[1].ip = job(a).ip
        /\ job(b).checker = "ping" /\ rs[b].entries[1].ip = job(b).ip
    BY ONLY <1>6, <1>8, Zenon
  <2>2. order[a] \in Checks(request, h) /\ order[b] \in Checks(request, h) /\ order[a] # order[b]
    BY ONLY <1>3, <1>4, <1>8, Zenon
  <2>3. job(a).ip # job(b).ip
    BY ONLY <1>8, <2>1, <2>2, h \in Hosts(request), Zenon DEF PingsDiffer
  <2> QED
    BY ONLY <2>1, <2>3
<1> QED
  BY ONLY <1>6, <1>7, <1>8, Zenon DEF PingsApart

\* Hosts as they were collected, and the reply made of them.
HostList(hosts, collected) ==
  /\ hosts = [n \in DOMAIN collected |-> hosts[n]]
  /\ \A n \in DOMAIN collected : hosts[n].id = request.ids[collected[n]]
OrderedHosts(t, hosts) ==
  /\ InOrder(t, ById(t))
  /\ IdsDiffer(request) => Increases(t, ById(t))
  /\ \A n \in 1 .. Len(t) : \E m \in DOMAIN hosts : t[n] = hosts[m]

\* The reply lists the hosts in the order of their ids.
LEMMA HostsInOrder ==
  ASSUME FoundInv, ~request.dry, NEW collected \in Orders(Hosts(request)),
         NEW hosts, HostList(hosts, collected), NEW t, t = SortedById(hosts)
  PROVE  OrderedHosts(t, hosts)
<1> DEFINE S == {hosts[n] : n \in DOMAIN collected}
           R == {p \in S \X S : p[1].id < p[2].id}
           H == Hosts(request)
           N == Cardinality(H)
<1>1. \A h \in H : request.ids[h] \in Nat
  BY RequestJobs, Zenon DEF FoundInv
<1>2. N \in Nat
  <2>1. Len(request.jobs) \in Nat /\ H = 1 .. Len(request.jobs)
    BY RequestJobs DEF FoundInv
  <2> HIDE DEF H
  <2>2. IsFiniteSet(H)
    BY ONLY <2>1, FS_Interval
  <2> QED
    BY ONLY <2>2, FS_CardinalityType, Zenon
<1>3. /\ collected \in [1 .. N -> H]
      /\ \A m, n \in 1 .. N : m # n => collected[m] # collected[n]
  BY Zenon DEF Orders
<1> HIDE DEF H, N
<1>4. DOMAIN collected = 1 .. N /\ \A n \in 1 .. N : collected[n] \in H
  BY ONLY <1>3
<1>5. \A n \in 1 .. N : hosts[n] \in S /\ hosts[n].id = request.ids[collected[n]]
  BY ONLY <1>4, HostList(hosts, collected), Zenon DEF HostList
<1>6. hosts \in Seq(S) /\ Len(hosts) = N
  <2>1. hosts = [n \in 1 .. N |-> hosts[n]] /\ \A n \in 1 .. N : hosts[n] \in S
    BY ONLY <1>4, <1>5, HostList(hosts, collected), Zenon DEF HostList
  <2> HIDE DEF S
  <2> QED
    BY ONLY <1>2, <2>1
<1>7. \A x \in S : x.id \in Nat
  <2>1. \A n \in 1 .. N : hosts[n].id \in Nat
    BY ONLY <1>1, <1>4, <1>5
  <2> QED
    BY ONLY <1>4, <2>1, Zenon
<1>8. \A x, y \in S : <<x, y>> \in R <=> x.id < y.id
  <2> HIDE DEF S
  <2> QED
    OBVIOUS
<1> HIDE DEF R
<1>9. WeakOrder(R, S)
  <2> DEFINE key == [x \in S |-> x.id]
  <2> HIDE DEF S
  <2>1. key \in [S -> Int]
    BY ONLY <1>7
  <2>2. \A x, y \in S : <<x, y>> \in R <=> key[x] < key[y]
    BY ONLY <1>8
  <2> HIDE DEF key
  <2> QED
    BY ONLY <2>1, <2>2, KeyOrder, Zenon
<1>10. ASSUME NEW s \in Seq(S) PROVE Compares(ById(s), s, R)
  <2> HIDE DEF S
  <2>1. DOMAIN s = 1 .. Len(s) /\ \A m \in 1 .. Len(s) : s[m] \in S
    BY ONLY <1>10
  <2>2. \A m, n \in 1 .. Len(s) : <<m, n>> \in ById(s) <=> s[m].id < s[n].id
    BY ONLY <2>1 DEF ById, Pairs
  <2> QED
    BY ONLY <1>8, <2>1, <2>2, Zenon DEF Compares
<1>11. t \in Seq(S) /\ t = StableSort(hosts, ById(hosts))
  <2> HIDE DEF S
  <2>1. t = StableSort(hosts, ById(hosts))
    BY DEF SortedById
  <2>2. WeakOrder(ById(hosts), 1 .. Len(hosts))
    BY ONLY <1>6, <1>9, <1>10, WeakPositions, Zenon
  <2> QED
    BY ONLY <1>6, <2>1, <2>2, SortedPositions
<1>12. InOrder(t, ById(t)) /\ (ToldApart(hosts, R) => Increases(t, ById(t)))
  <2> HIDE DEF S
  <2>1. Compares(ById(hosts), hosts, R) /\ Compares(ById(t), t, R)
    BY ONLY <1>6, <1>10, <1>11
  <2> QED
    BY ONLY <1>6, <1>9, <1>11, <2>1, SortedInOrder, Zenon
<1>13. ASSUME IdsDiffer(request) PROVE ToldApart(hosts, R)
  <2>1. ASSUME NEW m \in 1 .. N, NEW n \in 1 .. N, m # n
        PROVE  <<hosts[m], hosts[n]>> \in R \/ <<hosts[n], hosts[m]>> \in R
    <3>1. hosts[m].id # hosts[n].id
      <4>1. collected[m] # collected[n] /\ collected[m] \in H /\ collected[n] \in H
        BY ONLY <1>3, <1>4, <2>1, Zenon
      <4>2. request.ids[collected[m]] # request.ids[collected[n]]
        BY ONLY <1>13, <4>1, Zenon DEF IdsDiffer, H
      <4>3. /\ hosts[m].id = request.ids[collected[m]]
            /\ hosts[n].id = request.ids[collected[n]]
        BY ONLY <1>5, <2>1, Zenon
      <4> QED
        BY ONLY <4>2, <4>3
    <3>2. hosts[m] \in S /\ hosts[n] \in S
      BY ONLY <1>5, <2>1
    <3> HIDE DEF S
    <3>3. hosts[m].id \in Nat /\ hosts[n].id \in Nat
      BY ONLY <1>7, <3>2
    <3>4. hosts[m].id < hosts[n].id \/ hosts[n].id < hosts[m].id
      BY ONLY <3>1, <3>3
    <3> QED
      BY ONLY <1>8, <3>2, <3>4
  <2> QED
    BY ONLY <1>6, <2>1, Zenon DEF ToldApart
<1>14. \A n \in 1 .. Len(t) : \E m \in DOMAIN hosts : t[n] = hosts[m]
  <2>1. \A n \in 1 .. Len(t) : t[n] \in S
    <3> HIDE DEF S
    <3> QED
      BY ONLY <1>11
  <2>2. DOMAIN hosts = DOMAIN collected
    BY ONLY HostList(hosts, collected), Zenon DEF HostList
  <2> QED
    BY ONLY <2>1, <2>2, Zenon
<1> QED
  BY ONLY <1>12, <1>13, <1>14, Zenon DEF OrderedHosts

\* A reply that is made is in order.
LEMMA AnswerInOrder ==
  ASSUME RealChecks, FoundInv, Answer
  PROVE  OrderIsFixed'
<1> SUFFICES ASSUME ~request.dry
             PROVE  /\ InOrder(reply', ById(reply'))
                    /\ IdsDiffer(request) => Increases(reply', ById(reply'))
                    /\ \A n \in 1 .. Len(reply') :
                         LET r == reply'[n].report
                         IN /\ OrderedReport(r)
                            /\ PingsDiffer(request) => Increases(r.L3, ByIP(r.L3))
  BY Zenon DEF Answer, OrderIsFixed, OrderedReport
<1>1. PICK collected \in Orders(Hosts(request)),
           arrived \in [Hosts(request) -> UNION {Orders(Reporting(request, found, h)) :
                                                   h \in Hosts(request)}] :
        /\ \A h \in Hosts(request) : arrived[h] \in Orders(Reporting(request, found, h))
        /\ reply' = SortedById([n \in DOMAIN collected |->
                                  RemoteHost(request, found, collected[n], arrived[collected[n]])])
  BY Zenon DEF Answer
<1> DEFINE hosts == [n \in DOMAIN collected |->
                       RemoteHost(request, found, collected[n], arrived[collected[n]])]
           reporters(h) == [n \in DOMAIN arrived[h] |-> found[h][arrived[h][n]]]
<1>2. /\ HostList(hosts, collected) /\ DOMAIN hosts = DOMAIN collected
      /\ \A n \in DOMAIN collected :
           hosts[n].report = Summary(request.dry, reporters(collected[n]))
  BY Zenon DEF HostList, RemoteHost
<1>3. \A n \in DOMAIN collected : collected[n] \in Hosts(request)
  BY Zenon DEF Orders
<1> DEFINE t == reply'
<1>4. t = SortedById(hosts)
  BY ONLY <1>1
<1> HIDE DEF hosts, t
<1>5. OrderedHosts(t, hosts)
  BY ONLY <1>2, <1>4, FoundInv, ~request.dry, collected \in Orders(Hosts(request)), HostsInOrder
<1>6. ASSUME NEW n \in 1 .. Len(t), NEW r, r = t[n].report
      PROVE  OrderedReport(r) /\ (PingsDiffer(request) => Increases(r.L3, ByIP(r.L3)))
  <2>1. PICK m \in DOMAIN collected : t[n] = hosts[m]
    BY ONLY <1>2, <1>5, <1>6, Zenon DEF OrderedHosts
  <2> DEFINE h == collected[m]
             rs == reporters(h)
  <2>2. h \in Hosts(request) /\ arrived[h] \in Orders(Reporting(request, found, h))
    BY ONLY <1>1, <1>3, <2>1
  <2>3. r = HostReport(request.dry, rs)
    BY <1>2, <1>6, <2>1, Zenon DEF RealChecks
  <2>4. rs = [k \in DOMAIN arrived[h] |-> found[h][arrived[h][k]]]
    OBVIOUS
  <2> HIDE DEF h, rs, reporters
  <2>5. rs \in Seq(Reporters) /\ (PingsDiffer(request) => PingsApart(rs))
    BY <2>2, <2>4, ArrivedReporters, Zenon
  <2> QED
    BY ONLY <2>3, <2>5, ~request.dry, ReportInOrder, Zenon
<1> QED
  BY ONLY <1>5, <1>6, Zenon DEF t, OrderedHosts

\* The reply of the connectivity check is in a fixed order, for any request and
\* whatever the checks find: the promise the runner keeps (RunReportsEveryCheck).
THEOREM FixedOrder ==
  ASSUME RealChecks
  PROVE  Spec => []OrderIsFixed
<1>1. Init => FoundInv /\ OrderIsFixed
  BY DEF Init, FoundInv, OrderIsFixed
<1>2. FoundInv /\ OrderIsFixed /\ [Next]_<<request, found, reply>> => (FoundInv /\ OrderIsFixed)'
  <2> SUFFICES ASSUME FoundInv, OrderIsFixed, [Next]_<<request, found, reply>>
               PROVE  FoundInv' /\ OrderIsFixed'
    OBVIOUS
  <2>1. ASSUME NEW h \in Hosts(request), NEW i \in Checks(request, h), Find(h, i)
        PROVE  FoundInv' /\ OrderIsFixed'
    <3>1. OrderIsFixed'
      BY <2>1, Zenon DEF Find, OrderIsFixed
    <3>2. PICK reporter \in Check(request.jobs[h][i]) :
            found' = [found EXCEPT ![h][i] = reporter] /\ request' = request
      BY <2>1, Zenon DEF Find
    <3>3. ASSUME NEW k \in Hosts(request)
          PROVE  /\ DOMAIN found'[k] = Checks(request, k)
                 /\ \A j \in Checks(request, k) : found'[k][j] # Pending =>
                      found'[k][j] \in Check(request.jobs[k][j])
      <4>1. CASE k = h
        BY ONLY <2>1, <3>2, <3>3, <4>1, FoundInv DEF FoundInv
      <4>2. CASE k # h
        <5>1. found'[k] = found[k]
          BY ONLY <3>2, <3>3, <4>2, FoundInv DEF FoundInv
        <5> QED
          BY ONLY <3>3, <5>1, FoundInv, Zenon DEF FoundInv
      <4> QED
        BY ONLY <4>1, <4>2
    <3>4. request' \in Requests /\ DOMAIN found' = Hosts(request)
      BY ONLY <3>2, FoundInv DEF FoundInv
    <3>5. FoundInv'
      BY ONLY <3>2, <3>3, <3>4, Zenon DEF FoundInv
    <3> QED
      BY ONLY <3>1, <3>5
  <2>2. CASE Answer
    <3>1. FoundInv'
      BY <2>2, Zenon DEF FoundInv, Answer
    <3> QED
      BY <2>2, <3>1, AnswerInOrder, Zenon
  <2>3. CASE UNCHANGED <<request, found, reply>>
    BY <2>3, Zenon DEF FoundInv, OrderIsFixed
  <2> QED
    BY <2>1, <2>2, <2>3 DEF Next
<1> QED
  BY <1>1, <1>2, PTL DEF Spec
=============================================================================
