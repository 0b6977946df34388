---------------------- MODULE ConnectivityRunnerProofs ----------------------
(***************************************************************************)
(* The connectivity runner, for any request, number of checks and capacity *)
(* of the channel: no send on a closed channel, no panic of the            *)
(* synchronisation, and the reply ConnectivityReport promises.             *)
(***************************************************************************)
EXTENDS ConnectivityRunner, TLAPS, FiniteSetTheorems

\* The elements of a queue, and that none is in it twice.
Elements(s) == {s[n] : n \in 1 .. Len(s)}
Distinct(s) == \A m, n \in 1 .. Len(s) : m # n => s[m] # s[n]

\* A new element at the end of a queue is one element more.
LEMMA AppendElements ==
  ASSUME NEW S, NEW s \in Seq(S), NEW e \in S
  PROVE  /\ Append(s, e) \in Seq(S)
         /\ Elements(Append(s, e)) = Elements(s) \cup {e}
         /\ Distinct(s) /\ e \notin Elements(s) => Distinct(Append(s, e))
<1>1. /\ Len(s) \in Nat /\ Append(s, e) \in Seq(S) /\ Len(Append(s, e)) = Len(s) + 1
      /\ \A n \in 1 .. Len(s) : Append(s, e)[n] = s[n]
      /\ Append(s, e)[Len(s) + 1] = e
  OBVIOUS
<1>2. Elements(Append(s, e)) \subseteq Elements(s) \cup {e}
  <2>1. SUFFICES ASSUME NEW n \in 1 .. Len(s) + 1
                 PROVE  Append(s, e)[n] \in Elements(s) \cup {e}
    BY <1>1 DEF Elements
  <2>2. n \in 1 .. Len(s) \/ n = Len(s) + 1
    BY <1>1
  <2> QED
    BY <1>1, <2>2 DEF Elements
<1>3. Elements(s) \cup {e} \subseteq Elements(Append(s, e))
  <2>1. 1 .. Len(s) \subseteq 1 .. Len(s) + 1 /\ Len(s) + 1 \in 1 .. Len(s) + 1
    BY <1>1
  <2> QED
    BY <1>1, <2>1 DEF Elements
<1>4. ASSUME Distinct(s), e \notin Elements(s)
      PROVE  Distinct(Append(s, e))
  <2>1. SUFFICES ASSUME NEW m \in 1 .. Len(s) + 1, NEW n \in 1 .. Len(s) + 1, m # n
                 PROVE  Append(s, e)[m] # Append(s, e)[n]
    BY <1>1 DEF Distinct
  <2>2. CASE m \in 1 .. Len(s) /\ n \in 1 .. Len(s)
    BY <1>1, <1>4, <2>1, <2>2 DEF Distinct
  <2>3. CASE m = Len(s) + 1 /\ n \in 1 .. Len(s)
    BY <1>1, <1>4, <2>3 DEF Elements
  <2>4. CASE n = Len(s) + 1 /\ m \in 1 .. Len(s)
    BY <1>1, <1>4, <2>4 DEF Elements
  <2> QED
    BY <1>1, <2>1, <2>2, <2>3, <2>4
<1> QED
  BY <1>1, <1>2, <1>3, <1>4

\* The element taken from the front of a queue is one element less.
LEMMA TailElements ==
  ASSUME NEW S, NEW s \in Seq(S), s # <<>>
  PROVE  /\ Tail(s) \in Seq(S) /\ Head(s) \in S /\ Head(s) \in Elements(s)
         /\ Len(Tail(s)) < Len(s)
         /\ Distinct(s) => Distinct(Tail(s)) /\ Elements(Tail(s)) = Elements(s) \ {Head(s)}
<1>1. /\ Len(s) \in Nat \ {0} /\ Tail(s) \in Seq(S) /\ Head(s) \in S /\ Head(s) = s[1]
      /\ Len(Tail(s)) = Len(s) - 1
      /\ \A n \in 1 .. Len(s) - 1 : Tail(s)[n] = s[n + 1]
  OBVIOUS
<1>2. Head(s) \in Elements(s) /\ Len(Tail(s)) < Len(s)
  <2>1. 1 \in 1 .. Len(s) /\ Len(s) - 1 < Len(s)
    BY <1>1
  <2> QED
    BY <1>1, <2>1 DEF Elements
<1>3. ASSUME Distinct(s)
      PROVE  Distinct(Tail(s)) /\ Elements(Tail(s)) = Elements(s) \ {Head(s)}
  <2>1. \A n \in 1 .. Len(s) - 1 : n + 1 \in 1 .. Len(s) /\ n + 1 # 1
    BY <1>1
  <2>2. \A n \in 1 .. Len(s) : n # 1 => n - 1 \in 1 .. Len(s) - 1 /\ (n - 1) + 1 = n
    BY <1>1
  <2>3. Distinct(Tail(s))
    <3>1. SUFFICES ASSUME NEW m \in 1 .. Len(s) - 1, NEW n \in 1 .. Len(s) - 1, m # n
                   PROVE  s[m + 1] # s[n + 1]
      BY <1>1 DEF Distinct
    <3>2. m + 1 \in 1 .. Len(s) /\ n + 1 \in 1 .. Len(s) /\ m + 1 # n + 1
      BY <1>1, <3>1
    <3> QED
      BY <1>3, <3>2 DEF Distinct
  <2>4. Elements(Tail(s)) \subseteq Elements(s) \ {Head(s)}
    <3>1. SUFFICES ASSUME NEW n \in 1 .. Len(s) - 1
                   PROVE  s[n + 1] \in Elements(s) /\ s[n + 1] # s[1]
      BY <1>1 DEF Elements
    <3>2. 1 \in 1 .. Len(s)
      BY <1>1
    <3> QED
      BY <1>3, <2>1, <3>2 DEF Elements, Distinct
  <2>5. Elements(s) \ {Head(s)} \subseteq Elements(Tail(s))
    <3>1. SUFFICES ASSUME NEW n \in 1 .. Len(s), s[n] # s[1]
                   PROVE  s[n] \in Elements(Tail(s))
      BY <1>1 DEF Elements
    <3>2. n - 1 \in 1 .. Len(s) - 1 /\ Tail(s)[n - 1] = s[n]
      BY <1>1, <2>2, <3>1
    <3> QED
      BY <1>1, <3>2 DEF Elements
  <2> QED
    BY <2>3, <2>4, <2>5
<1> QED
  BY <1>1, <1>2, <1>3

\* A queue without repetitions is as long as it has elements, and is one of the
\* orders in which they can arrive.
LEMMA DistinctIsOrder ==
  ASSUME NEW S, NEW s \in Seq(S), Distinct(s)
  PROVE  /\ Len(s) = Cardinality(Elements(s)) /\ IsFiniteSet(Elements(s))
         /\ s \in Orders(Elements(s))
<1>1. Len(s) \in Nat /\ s \in [1 .. Len(s) -> Elements(s)]
  BY DEF Elements
<1>2. s \in Bijection(1 .. Len(s), Elements(s))
  BY <1>1 DEF Bijection, Injection, Surjection, IsInjective, Elements, Distinct
<1>3. ExistsBijection(1 .. Len(s), Elements(s))
  BY <1>2 DEF ExistsBijection
<1>4. Cardinality(Elements(s)) = Len(s) /\ IsFiniteSet(Elements(s))
  BY <1>1, <1>3, FS_CountingElements, FS_NatBijection
<1> QED
  BY <1>1, <1>4 DEF Orders, Distinct

-----------------------------------------------------------------------------
(***************************************************************************)
(* The inductive invariant.                                                *)
(***************************************************************************)

\* The checks of a host that are counted by its WaitGroup.
Counted(h) == {i \in Job(h) : goroutine[h][i] \in {"check", "send", "finish"}}

\* The checks of a host whose reporter was sent.
Sent(h) == {i \in Job(h) : /\ goroutine[h][i] \in {"finish", "done"}
                           /\ found[h][i] # NoReporter}

\* The checks are started in their order, and counted while they run.
CountFacts(h) ==
  /\ \A i \in Job(h) : goroutine[h][i] = "none" <=> spawned[h] < i
  /\ pc[h] # "spawn" => spawned[h] = Len(request.jobs[h])
  /\ wg[h] = Cardinality(Counted(h))
  /\ closed[h] => pc[h] # "spawn" /\ \A i \in Job(h) : goroutine[h][i] = "done"
  /\ pc[h] = "done" => closed[h] /\ reporterChan[h] = <<>>

\* A check is pending until it returns, and sends a reporter only if it has one.
FoundFacts(h) ==
  \A i \in Job(h) :
    /\ found[h][i] = Pending <=> goroutine[h][i] \in {"none", "check"}
    /\ goroutine[h][i] = "send" => found[h][i] # NoReporter

\* Every reporter sent is in the channel or was received, in one place and once.
QueueFacts(h) ==
  /\ Distinct(reporterChan[h]) /\ Distinct(received[h])
  /\ Elements(reporterChan[h]) \cap Elements(received[h]) = {}
  /\ Elements(reporterChan[h]) \cup Elements(received[h]) = Sent(h)

\* Every host that is done is in the channel of Run or was collected, once.
HostFacts ==
  /\ Distinct(resultChan) /\ Distinct(collected)
  /\ Elements(resultChan) \cap Elements(collected) = {}
  /\ Elements(resultChan) \cup Elements(collected) = {h \in Host : pc[h] = "done"}

IInv ==
  /\ TypeOK
  /\ \A h \in Host : CountFacts(h) /\ FoundFacts(h) /\ QueueFacts(h)
  /\ HostFacts

\* The constant facts about a request.
LEMMA RequestFacts ==
  ASSUME NEW r \in Requests
  PROVE  /\ Len(r.jobs) \in Nat /\ Hosts(r) = 1 .. Len(r.jobs)
         /\ \A h \in Hosts(r) : /\ Len(r.jobs[h]) \in Nat
                                /\ Checks(r, h) = 1 .. Len(r.jobs[h])
                                /\ IsFiniteSet(Checks(r, h))
                                /\ \A i \in Checks(r, h) : Pending \notin Check(r.jobs[h][i])
<1>1. /\ Len(r.jobs) \in Nat /\ Hosts(r) = 1 .. Len(r.jobs)
      /\ \A h \in Hosts(r) : /\ Len(r.jobs[h]) \in Nat
                             /\ \A i \in Checks(r, h) : Pending \notin Check(r.jobs[h][i])
  BY RequestsAssumption
<1>2. ASSUME NEW h \in Hosts(r) PROVE IsFiniteSet(Checks(r, h))
  <2>1. \A a, b \in Int : IsFiniteSet(a .. b)
    BY FS_Interval
  <2>2. 1 \in Int /\ Len(r.jobs[h]) \in Int
    BY <1>1
  <2> QED
    BY <2>1, <2>2 DEF Checks
<1> QED
  BY <1>1, <1>2 DEF Checks

\* The initial states satisfy the invariant.
LEMMA InitInv == RunInit => IInv
<1> SUFFICES ASSUME RunInit PROVE IInv
  OBVIOUS
<1>1. request \in Requests
  BY DEF RunInit, Init
<1>2. Len(<<>>) = 0 /\ 1 .. 0 = {} /\ <<>> \in Seq(Nat) /\ <<>> \in Seq(Host)
  OBVIOUS
<1>3. Elements(<<>>) = {} /\ Distinct(<<>>)
  BY <1>2 DEF Elements, Distinct
<1>4. TypeOK
  <2>1. /\ pc \in [Host -> {"spawn", "read", "done"}]
        /\ spawned \in [Host -> Nat] /\ wg \in [Host -> Nat]
        /\ closed \in [Host -> BOOLEAN] /\ panicked \in BOOLEAN
        /\ reporterChan \in [Host -> Seq(Nat)] /\ received \in [Host -> Seq(Nat)]
        /\ resultChan \in Seq(Host) /\ collected \in Seq(Host)
    BY <1>2, Zenon DEF RunInit
  <2>2. DOMAIN found = Host /\ DOMAIN goroutine = Host
    BY DEF RunInit, Init, Host
  <2>3. ASSUME NEW h \in Host
        PROVE  /\ spawned[h] <= Len(request.jobs[h])
               /\ DOMAIN found[h] = Job(h)
               /\ goroutine[h] \in [Job(h) -> {"none", "check", "send", "finish", "done"}]
               /\ Len(reporterChan[h]) <= ChannelCap
    <3>1. Len(request.jobs[h]) \in Nat
      BY <1>1, RequestFacts DEF Host
    <3>2. spawned[h] = 0 /\ reporterChan[h] = <<>>
      BY DEF RunInit
    <3>3. found[h] = [i \in Job(h) |-> Pending] /\ goroutine[h] = [i \in Job(h) |-> "none"]
      BY DEF RunInit, Init, Host, Job
    <3>4. 0 <= ChannelCap /\ 0 <= Len(request.jobs[h])
      BY <3>1, ChannelCapAssumption
    <3> QED
      BY <1>2, <3>2, <3>3, <3>4
  <2> QED
    BY <1>1, <2>1, <2>2, <2>3 DEF TypeOK
<1>5. ASSUME NEW h \in Host PROVE CountFacts(h)
  <2>1. Counted(h) = {} /\ Cardinality({}) = 0
    BY FS_EmptySet DEF Counted, RunInit
  <2>2. \A i \in Job(h) : 0 < i
    BY <1>1, RequestFacts DEF Job, Host
  <2> QED
    BY <2>1, <2>2 DEF CountFacts, RunInit
<1>6. ASSUME NEW h \in Host PROVE FoundFacts(h)
  BY DEF FoundFacts, RunInit, Init, Host, Job
<1>7. ASSUME NEW h \in Host PROVE QueueFacts(h)
  BY <1>3 DEF QueueFacts, Sent, RunInit
<1>8. HostFacts
  BY <1>3 DEF HostFacts, RunInit
<1> QED
  BY <1>4, <1>5, <1>6, <1>7, <1>8 DEF IInv

-----------------------------------------------------------------------------
(***************************************************************************)
(* A step of one host leaves the facts about the other hosts alone.        *)
(***************************************************************************)

\* The part of TypeOK that is about all hosts, and the part about one.
Shape ==
  /\ pc \in [Host -> {"spawn", "read", "done"}]
  /\ spawned \in [Host -> Nat] /\ wg \in [Host -> Nat]
  /\ closed \in [Host -> BOOLEAN] /\ panicked \in BOOLEAN
  /\ DOMAIN found = Host /\ DOMAIN goroutine = Host
  /\ reporterChan \in [Host -> Seq(Nat)] /\ received \in [Host -> Seq(Nat)]
  /\ resultChan \in Seq(Host) /\ collected \in Seq(Host)

TypeFacts(h) ==
  /\ spawned[h] <= Len(request.jobs[h])
  /\ DOMAIN found[h] = Job(h)
  /\ goroutine[h] \in [Job(h) -> {"none", "check", "send", "finish", "done"}]
  /\ Len(reporterChan[h]) <= ChannelCap

Facts(h) == TypeFacts(h) /\ CountFacts(h) /\ FoundFacts(h) /\ QueueFacts(h)

SameHost(k) ==
  /\ pc'[k] = pc[k] /\ spawned'[k] = spawned[k] /\ goroutine'[k] = goroutine[k]
  /\ wg'[k] = wg[k] /\ reporterChan'[k] = reporterChan[k] /\ closed'[k] = closed[k]
  /\ received'[k] = received[k] /\ found'[k] = found[k]

\* The invariant of the runner is that of every host and that of Run.
LEMMA Parts == IInv <=> request \in Requests /\ Shape /\ (\A h \in Host : Facts(h)) /\ HostFacts
  BY DEF IInv, TypeOK, Shape, Facts, TypeFacts

\* The hosts and checks are those of the request, which does not change.
LEMMA SameRequest ==
  ASSUME request' = request
  PROVE  Host' = Host /\ \A h : Job(h)' = Job(h)
  BY DEF Host, Job

\* What holds of a host still holds after a step of another (SameHost).
LEMMA Frame ==
  ASSUME request' = request, NEW k \in Host, Facts(k), SameHost(k)
  PROVE  Facts(k)'
<1>1. Job(k)' = Job(k)
  BY SameRequest
<1>2. TypeFacts(k)'
  BY <1>1 DEF Facts, TypeFacts, SameHost
<1>3. CountFacts(k)'
  <2>1. Counted(k)' = Counted(k)
    BY <1>1 DEF Counted, SameHost
  <2> QED
    BY <1>1, <2>1 DEF Facts, CountFacts, SameHost
<1>4. FoundFacts(k)'
  BY <1>1 DEF Facts, FoundFacts, SameHost
<1>5. QueueFacts(k)'
  <2>1. Sent(k)' = Sent(k)
    BY <1>1 DEF Sent, SameHost
  <2> QED
    BY <2>1 DEF Facts, QueueFacts, SameHost
<1> QED
  BY <1>2, <1>3, <1>4, <1>5 DEF Facts

\* What is left to show of a step of host h.
LEMMA LocalStep ==
  ASSUME IInv, request' = request, NEW h \in Host, Shape',
         \A k \in Host \ {h} : SameHost(k),
         Facts(h)', HostFacts'
  PROVE  IInv'
<1>1. Host' = Host
  BY SameRequest
<1>2. ASSUME NEW k \in Host PROVE Facts(k)'
  <2>1. CASE k = h
    BY <2>1
  <2>2. CASE k # h
    BY <2>2, Frame, Parts
  <2> QED
    BY <2>1, <2>2
<1>3. request' \in Requests
  BY Parts
<1> QED
  BY <1>1, <1>2, <1>3 DEF IInv, TypeOK, Shape, Facts, TypeFacts

\* The channel of Run is left alone, too, by most steps.
LEMMA SameHostFacts ==
  ASSUME HostFacts, request' = request, Shape,
         \A k \in Host : pc'[k] = "done" <=> pc[k] = "done",
         UNCHANGED <<resultChan, collected>>
  PROVE  HostFacts'
<1>1. Host' = Host
  BY SameRequest
<1>2. {k \in Host : pc[k] = "done"}' = {k \in Host : pc[k] = "done"}
  BY <1>1
<1> QED
  BY <1>2 DEF HostFacts
\* What the invariant says of one host, its number of checks being finite.
LEMMA HostAt ==
  ASSUME IInv, NEW h \in Host
  PROVE  /\ Shape /\ Facts(h) /\ HostFacts
         /\ Len(request.jobs[h]) \in Nat /\ Job(h) = 1 .. Len(request.jobs[h])
         /\ IsFiniteSet(Counted(h)) /\ Cardinality(Counted(h)) \in Nat
<1>1. request \in Requests
  BY Parts
<1>2. /\ Len(request.jobs[h]) \in Nat /\ Job(h) = 1 .. Len(request.jobs[h])
      /\ IsFiniteSet(Job(h))
  BY <1>1, RequestFacts DEF Host, Job
<1>3. IsFiniteSet(Counted(h)) /\ Cardinality(Counted(h)) \in Nat
  BY <1>2, FS_Subset, FS_CardinalityType DEF Counted
<1> QED
  BY <1>2, <1>3, Parts

\* The steps of the goroutine of a host.
LEMMA SpawnInv ==
  ASSUME IInv, NEW h \in Host, spawnChecker(h)
  PROVE  IInv'
<1> DEFINE i == spawned[h] + 1
<1>1. request' = request /\ Host' = Host /\ Job(h)' = Job(h)
  BY SameRequest DEF spawnChecker
<1>2. /\ Len(request.jobs[h]) \in Nat /\ Job(h) = 1 .. Len(request.jobs[h])
      /\ spawned[h] \in Nat /\ Shape /\ Facts(h) /\ HostFacts
  BY HostAt DEF Shape
<1>3. i \in Job(h) /\ i <= Len(request.jobs[h]) /\ goroutine[h][i] = "none"
  <2>1. i \in Job(h) /\ i <= Len(request.jobs[h]) /\ spawned[h] < i
    BY <1>2 DEF spawnChecker
  <2> QED
    BY <1>2, <2>1 DEF Facts, CountFacts
<1>4. /\ spawned'[h] = i /\ wg'[h] = wg[h] + 1
      /\ goroutine'[h] = [goroutine[h] EXCEPT ![i] = "check"]
      /\ DOMAIN goroutine[h] = Job(h)
  BY <1>2 DEF spawnChecker, Shape, Facts, TypeFacts
<1>5. Shape'
  <2>1. wg' \in [Host -> Nat] /\ spawned' \in [Host -> Nat]
    BY <1>2 DEF spawnChecker, Shape
  <2> QED
    BY <1>1, <1>2, <2>1, Zenon DEF spawnChecker, Shape
<1>6. \A k \in Host \ {h} : SameHost(k)
  BY <1>2 DEF spawnChecker, Shape, SameHost
<1>7. TypeFacts(h)'
  BY <1>1, <1>2, <1>3, <1>4 DEF spawnChecker, Facts, TypeFacts
<1>8. CountFacts(h)'
  <2>1. Counted(h)' = Counted(h) \cup {i} /\ i \notin Counted(h)
    BY <1>1, <1>3, <1>4 DEF Counted
  <2>2. Cardinality(Counted(h)') = Cardinality(Counted(h)) + 1
    BY <2>1, HostAt, FS_AddElement, Zenon
  <2>3. wg'[h] = Cardinality(Counted(h))'
    BY <1>2, <1>4, <2>2 DEF Facts, CountFacts
  <2>4. ASSUME NEW j \in Job(h) PROVE goroutine'[h][j] = "none" <=> spawned'[h] < j
    <3>1. CASE j = i
      BY <1>2, <1>3, <1>4, <3>1
    <3>2. CASE j # i
      <4>1. goroutine'[h][j] = goroutine[h][j]
        BY <1>4, <3>2
      <4>2. spawned[h] < j <=> i < j
        BY <1>2, <3>2
      <4> QED
        BY <1>2, <1>4, <4>1, <4>2 DEF Facts, CountFacts
    <3> QED
      BY <3>1, <3>2
  <2>5. pc'[h] = "spawn" /\ ~closed'[h]
    BY <1>2 DEF spawnChecker, Facts, CountFacts
  <2> QED
    BY <1>1, <2>3, <2>4, <2>5 DEF CountFacts
<1>9. FoundFacts(h)'
  BY <1>1, <1>2, <1>3, <1>4 DEF spawnChecker, Facts, FoundFacts
<1>10. QueueFacts(h)'
  <2>1. Sent(h)' = Sent(h)
    BY <1>1, <1>3, <1>4 DEF spawnChecker, Sent
  <2> QED
    BY <1>2, <2>1 DEF spawnChecker, Facts, QueueFacts
<1>11. HostFacts'
  BY <1>1, <1>2, SameHostFacts DEF spawnChecker
<1> QED
  BY <1>1, <1>5, <1>6, <1>7, <1>8, <1>9, <1>10, <1>11, LocalStep DEF Facts

\* ProcessHost goes on to wait once it has started every checker.
LEMMA AllSpawnedInv ==
  ASSUME IInv, NEW h \in Host, AllSpawned(h)
  PROVE  IInv'
<1>1. request' = request /\ Host' = Host /\ Job(h)' = Job(h)
  BY SameRequest DEF AllSpawned
<1>2. Shape /\ Facts(h) /\ HostFacts
  BY HostAt
<1>3. Shape' /\ \A k \in Host \ {h} : SameHost(k)
  BY <1>1, <1>2 DEF AllSpawned, Shape, SameHost
<1>4. pc'[h] = "read" /\ pc[h] = "spawn"
  BY <1>2 DEF AllSpawned, Shape
<1>5. TypeFacts(h)' /\ FoundFacts(h)'
  BY <1>1, <1>2 DEF AllSpawned, Facts, TypeFacts, FoundFacts
<1>6. CountFacts(h)'
  <2>1. Counted(h)' = Counted(h)
    BY <1>1 DEF AllSpawned, Counted
  <2> QED
    BY <1>1, <1>2, <1>4, <2>1 DEF AllSpawned, Facts, CountFacts
<1>7. QueueFacts(h)'
  <2>1. Sent(h)' = Sent(h)
    BY <1>1 DEF AllSpawned, Sent
  <2> QED
    BY <1>2, <2>1 DEF AllSpawned, Facts, QueueFacts
<1>8. HostFacts'
  <2>1. \A k \in Host : pc'[k] = "done" <=> pc[k] = "done"
    BY <1>2, <1>4 DEF AllSpawned, Shape
  <2> QED
    BY <1>1, <1>2, <2>1, SameHostFacts DEF AllSpawned
<1> QED
  BY <1>1, <1>3, <1>5, <1>6, <1>7, <1>8, LocalStep DEF Facts

\* ProcessHost takes the next reporter from its channel.
LEMMA ReceiveInv ==
  ASSUME IInv, NEW h \in Host, ReceiveReporter(h)
  PROVE  IInv'
<1> DEFINE e == Head(reporterChan[h])
<1>1. request' = request /\ Host' = Host /\ Job(h)' = Job(h)
  BY SameRequest DEF ReceiveReporter
<1>2. Shape /\ Facts(h) /\ HostFacts
  BY HostAt
<1>3. /\ reporterChan[h] \in Seq(Nat) /\ received[h] \in Seq(Nat) /\ reporterChan[h] # <<>>
      /\ reporterChan'[h] = Tail(reporterChan[h]) /\ received'[h] = Append(received[h], e)
      /\ Distinct(reporterChan[h]) /\ Distinct(received[h])
      /\ Elements(reporterChan[h]) \cap Elements(received[h]) = {}
      /\ Elements(reporterChan[h]) \cup Elements(received[h]) = Sent(h)
  BY <1>2 DEF ReceiveReporter, Shape, Facts, QueueFacts
<1>4. /\ Tail(reporterChan[h]) \in Seq(Nat) /\ e \in Nat /\ e \in Elements(reporterChan[h])
      /\ Len(Tail(reporterChan[h])) < Len(reporterChan[h])
      /\ Distinct(Tail(reporterChan[h]))
      /\ Elements(Tail(reporterChan[h])) = Elements(reporterChan[h]) \ {e}
  BY <1>3, TailElements
<1>5. /\ Append(received[h], e) \in Seq(Nat)
      /\ Elements(Append(received[h], e)) = Elements(received[h]) \cup {e}
      /\ Distinct(Append(received[h], e))
  BY <1>3, <1>4, AppendElements
<1>6. Shape' /\ \A k \in Host \ {h} : SameHost(k)
  <2>1. reporterChan' \in [Host -> Seq(Nat)] /\ received' \in [Host -> Seq(Nat)]
    BY <1>2, <1>4, <1>5 DEF ReceiveReporter, Shape
  <2> QED
    BY <1>1, <1>2, <2>1 DEF ReceiveReporter, Shape, SameHost
<1>7. TypeFacts(h)'
  <2>1. Len(reporterChan'[h]) <= ChannelCap
    <3>1. Len(reporterChan[h]) \in Nat /\ Len(Tail(reporterChan[h])) \in Nat
      BY <1>3, <1>4
    <3> QED
      BY <1>2, <1>3, <1>4, <3>1, ChannelCapAssumption DEF Facts, TypeFacts
  <2> QED
    BY <1>1, <1>2, <2>1 DEF ReceiveReporter, Facts, TypeFacts
<1>8. CountFacts(h)'
  <2>1. Counted(h)' = Counted(h)
    BY <1>1 DEF ReceiveReporter, Counted
  <2> QED
    BY <1>1, <1>2, <2>1 DEF ReceiveReporter, Facts, CountFacts
<1>9. FoundFacts(h)'
  BY <1>1, <1>2 DEF ReceiveReporter, Facts, FoundFacts
<1>10. QueueFacts(h)'
  <2>1. Sent(h)' = Sent(h)
    BY <1>1 DEF ReceiveReporter, Sent
  <2> QED
    BY <1>3, <1>4, <1>5, <2>1 DEF QueueFacts
<1>11. HostFacts'
  BY <1>1, <1>2, SameHostFacts DEF ReceiveReporter
<1> QED
  BY <1>1, <1>6, <1>7, <1>8, <1>9, <1>10, <1>11, LocalStep DEF Facts

\* ProcessHost hands its host to Run when its channel is closed and empty.
LEMMA HostDoneInv ==
  ASSUME IInv, NEW h \in Host, HostDone(h)
  PROVE  IInv'
<1>1. request' = request /\ Host' = Host /\ Job(h)' = Job(h)
  BY SameRequest DEF HostDone
<1>2. Shape /\ Facts(h) /\ HostFacts
  BY HostAt
<1>3. pc'[h] = "done" /\ pc[h] = "read" /\ \A k \in Host \ {h} : pc'[k] = pc[k]
  BY <1>2 DEF HostDone, Shape
<1>4. h \notin Elements(resultChan) /\ h \notin Elements(collected)
  BY <1>2, <1>3 DEF HostFacts
<1>5. /\ resultChan' \in Seq(Host) /\ Distinct(resultChan')
      /\ Elements(resultChan') = Elements(resultChan) \cup {h}
  BY <1>2, <1>4, AppendElements DEF HostDone, Shape, HostFacts
<1>6. Shape' /\ \A k \in Host \ {h} : SameHost(k)
  BY <1>1, <1>2, <1>5 DEF HostDone, Shape, SameHost
<1>7. TypeFacts(h)' /\ FoundFacts(h)'
  BY <1>1, <1>2 DEF HostDone, Facts, TypeFacts, FoundFacts
<1>8. CountFacts(h)'
  <2>1. Counted(h)' = Counted(h)
    BY <1>1 DEF HostDone, Counted
  <2>2. closed'[h] /\ reporterChan'[h] = <<>>
    BY DEF HostDone, HostReady
  <2> QED
    BY <1>1, <1>2, <1>3, <2>1, <2>2 DEF HostDone, Facts, CountFacts
<1>9. QueueFacts(h)'
  <2>1. Sent(h)' = Sent(h)
    BY <1>1 DEF HostDone, Sent
  <2> QED
    BY <1>2, <2>1 DEF HostDone, Facts, QueueFacts
<1>10. HostFacts'
  <2>1. {k \in Host : pc[k] = "done"}' = {k \in Host : pc[k] = "done"} \cup {h}
    BY <1>1, <1>3
  <2>2. collected' = collected
    BY DEF HostDone
  <2> QED
    BY <1>2, <1>4, <1>5, <2>1, <2>2 DEF HostFacts
<1> QED
  BY <1>1, <1>6, <1>7, <1>8, <1>9, <1>10, LocalStep DEF Facts

\* The step of the goroutine that closes the channel: a counter of zero means that
\* every check, all of them having been started, is through.
LEMMA CloseInv ==
  ASSUME IInv, NEW h \in Host, CloseChannel(h)
  PROVE  IInv'
<1>1. request' = request /\ Host' = Host /\ Job(h)' = Job(h)
  BY SameRequest DEF CloseChannel
<1>2. /\ Len(request.jobs[h]) \in Nat /\ Job(h) = 1 .. Len(request.jobs[h])
      /\ IsFiniteSet(Counted(h)) /\ Shape /\ Facts(h) /\ HostFacts
  BY HostAt
<1>3. \A j \in Job(h) : goroutine[h][j] = "done"
  <2>1. Counted(h) = {}
    BY <1>2, FS_EmptySet DEF CloseChannel, Facts, CountFacts
  <2>2. ASSUME NEW j \in Job(h) PROVE goroutine[h][j] # "none"
    <3>1. spawned[h] = Len(request.jobs[h])
      BY <1>2 DEF CloseChannel, Facts, CountFacts
    <3>2. ~(spawned[h] < j)
      BY <1>2, <3>1
    <3> QED
      BY <1>2, <3>2 DEF Facts, CountFacts
  <2> QED
    BY <1>2, <2>1, <2>2 DEF Counted, Facts, TypeFacts
<1>4. Shape' /\ \A k \in Host \ {h} : SameHost(k)
  BY <1>1, <1>2 DEF CloseChannel, Shape, SameHost
<1>5. TypeFacts(h)' /\ FoundFacts(h)'
  BY <1>1, <1>2 DEF CloseChannel, Facts, TypeFacts, FoundFacts
<1>6. CountFacts(h)'
  <2>1. Counted(h)' = Counted(h)
    BY <1>1 DEF CloseChannel, Counted
  <2>2. pc'[h] = "read"
    BY DEF CloseChannel
  <2> QED
    BY <1>1, <1>2, <1>3, <2>1, <2>2 DEF CloseChannel, Facts, CountFacts
<1>7. QueueFacts(h)'
  <2>1. Sent(h)' = Sent(h)
    BY <1>1 DEF CloseChannel, Sent
  <2> QED
    BY <1>2, <2>1 DEF CloseChannel, Facts, QueueFacts
<1>8. HostFacts'
  BY <1>1, <1>2, SameHostFacts DEF CloseChannel
<1> QED
  BY <1>1, <1>4, <1>5, <1>6, <1>7, <1>8, LocalStep DEF Facts

\* The steps of the goroutine of a check.
LEMMA ReturnsInv ==
  ASSUME IInv, NEW h \in Host, NEW i \in Job(h), CheckReturns(h, i)
  PROVE  IInv'
<1>1. request' = request /\ Host' = Host /\ Job(h)' = Job(h)
  BY SameRequest DEF CheckReturns
<1>2. Shape /\ Facts(h) /\ HostFacts /\ request \in Requests
  BY HostAt, Parts
<1>3. PICK reporter \in Check(request.jobs[h][i]) :
        /\ found' = [found EXCEPT ![h][i] = reporter]
        /\ goroutine' = [goroutine EXCEPT ![h][i] =
                           IF reporter = NoReporter THEN "finish" ELSE "send"]
  BY Zenon DEF CheckReturns
<1>4. reporter # Pending
  BY <1>2, RequestFacts DEF Host, Job
<1>5. /\ DOMAIN goroutine[h] = Job(h) /\ DOMAIN found[h] = Job(h)
      /\ goroutine[h][i] = "check"
      /\ found'[h] = [found[h] EXCEPT ![i] = reporter]
      /\ goroutine'[h] = [goroutine[h] EXCEPT ![i] =
                            IF reporter = NoReporter THEN "finish" ELSE "send"]
  BY <1>2, <1>3 DEF CheckReturns, Shape, Facts, TypeFacts
<1>6. Shape' /\ \A k \in Host \ {h} : SameHost(k)
  BY <1>1, <1>2, <1>3, Zenon DEF CheckReturns, Shape, SameHost
<1>7. TypeFacts(h)'
  BY <1>1, <1>2, <1>5 DEF CheckReturns, Facts, TypeFacts
<1>8. CountFacts(h)'
  <2>1. Counted(h)' = Counted(h)
    BY <1>1, <1>5 DEF Counted
  <2>2. \A j \in Job(h) : goroutine'[h][j] = "none" <=> goroutine[h][j] = "none"
    BY <1>5
  <2>3. ~closed[h]
    BY <1>2, <1>5 DEF Facts, CountFacts
  <2> QED
    BY <1>1, <1>2, <2>1, <2>2, <2>3 DEF CheckReturns, Facts, CountFacts
<1>9. FoundFacts(h)'
  BY <1>1, <1>2, <1>4, <1>5 DEF Facts, FoundFacts
<1>10. QueueFacts(h)'
  <2>1. Sent(h)' = Sent(h)
    BY <1>1, <1>5 DEF Sent
  <2> QED
    BY <1>2, <2>1 DEF CheckReturns, Facts, QueueFacts
<1>11. HostFacts'
  BY <1>1, <1>2, SameHostFacts DEF CheckReturns
<1> QED
  BY <1>1, <1>6, <1>7, <1>8, <1>9, <1>10, <1>11, LocalStep DEF Facts

\* A goroutine puts its reporter into the channel, unless it is full.
LEMMA SendInv ==
  ASSUME IInv, NEW h \in Host, NEW i \in Job(h), SendReporter(h, i)
  PROVE  IInv'
<1>1. request' = request /\ Host' = Host /\ Job(h)' = Job(h)
  BY SameRequest DEF SendReporter
<1>2. /\ Len(request.jobs[h]) \in Nat /\ Job(h) = 1 .. Len(request.jobs[h])
      /\ Shape /\ Facts(h) /\ HostFacts
  BY HostAt
<1>3. /\ DOMAIN goroutine[h] = Job(h) /\ goroutine[h][i] = "send" /\ ~closed[h]
      /\ goroutine'[h] = [goroutine[h] EXCEPT ![i] = "finish"]
      /\ reporterChan'[h] = Append(reporterChan[h], i)
      /\ found[h][i] # NoReporter
  BY <1>2 DEF SendReporter, Shape, Facts, TypeFacts, CountFacts, FoundFacts
<1>4. i \in Nat /\ i \notin Sent(h) /\ reporterChan[h] \in Seq(Nat)
  BY <1>2, <1>3 DEF Sent, Shape
<1>5. /\ Append(reporterChan[h], i) \in Seq(Nat)
      /\ Elements(Append(reporterChan[h], i)) = Elements(reporterChan[h]) \cup {i}
      /\ Distinct(Append(reporterChan[h], i))
      /\ i \notin Elements(received[h])
  BY <1>2, <1>4, AppendElements DEF Facts, QueueFacts
<1>6. Shape' /\ \A k \in Host \ {h} : SameHost(k)
  <2>1. reporterChan' \in [Host -> Seq(Nat)] /\ panicked' \in BOOLEAN
    BY <1>2, <1>3, <1>5 DEF SendReporter, Shape
  <2> QED
    BY <1>1, <1>2, <2>1 DEF SendReporter, Shape, SameHost
<1>7. TypeFacts(h)'
  <2>1. Len(Append(reporterChan[h], i)) <= ChannelCap
    <3>1. Len(reporterChan[h]) < ChannelCap
      BY <1>3 DEF SendReporter
    <3>2. Len(Append(reporterChan[h], i)) = Len(reporterChan[h]) + 1 /\ Len(reporterChan[h]) \in Nat
      BY <1>4
    <3> QED
      BY <3>1, <3>2, ChannelCapAssumption
  <2> QED
    BY <1>1, <1>2, <1>3, <2>1 DEF SendReporter, Facts, TypeFacts
<1>8. CountFacts(h)'
  <2>1. Counted(h)' = Counted(h)
    BY <1>1, <1>3 DEF Counted
  <2>2. \A j \in Job(h) : goroutine'[h][j] = "none" <=> goroutine[h][j] = "none"
    BY <1>3
  <2>3. pc[h] # "done"
    BY <1>2, <1>3 DEF Facts, CountFacts
  <2> QED
    BY <1>1, <1>2, <1>3, <2>1, <2>2, <2>3 DEF SendReporter, Facts, CountFacts
<1>9. FoundFacts(h)'
  BY <1>1, <1>2, <1>3 DEF SendReporter, Facts, FoundFacts
<1>10. QueueFacts(h)'
  <2>1. Sent(h)' = Sent(h) \cup {i}
    BY <1>1, <1>3 DEF SendReporter, Sent
  <2>2. received'[h] = received[h]
    BY DEF SendReporter
  <2> QED
    BY <1>2, <1>3, <1>5, <2>1, <2>2 DEF Facts, QueueFacts
<1>11. HostFacts'
  BY <1>1, <1>2, SameHostFacts DEF SendReporter
<1> QED
  BY <1>1, <1>6, <1>7, <1>8, <1>9, <1>10, <1>11, LocalStep DEF Facts

\* A goroutine leaves the wait group once its reporter is in the channel.
LEMMA DoneInv ==
  ASSUME IInv, NEW h \in Host, NEW i \in Job(h), CheckDone(h, i)
  PROVE  IInv'
<1>1. request' = request /\ Host' = Host /\ Job(h)' = Job(h)
  BY SameRequest DEF CheckDone
<1>2. /\ Shape /\ Facts(h) /\ HostFacts
      /\ IsFiniteSet(Counted(h)) /\ Cardinality(Counted(h)) \in Nat
  BY HostAt
<1>3. /\ DOMAIN goroutine[h] = Job(h) /\ goroutine[h][i] = "finish" /\ ~closed[h]
      /\ goroutine'[h] = [goroutine[h] EXCEPT ![i] = "done"]
      /\ wg'[h] = wg[h] - 1
  BY <1>2 DEF CheckDone, Shape, Facts, TypeFacts, CountFacts
<1>4. Counted(h)' = Counted(h) \ {i} /\ i \in Counted(h)
  BY <1>1, <1>3 DEF Counted
<1>5. Cardinality(Counted(h)') = Cardinality(Counted(h)) - 1 /\ Cardinality(Counted(h)') \in Nat
  <2>1. IsFiniteSet(Counted(h)') /\ Cardinality(Counted(h)') = Cardinality(Counted(h)) - 1
    BY <1>2, <1>4, FS_RemoveElement
  <2> QED
    BY <2>1, FS_CardinalityType
<1>6. wg'[h] = Cardinality(Counted(h)') /\ wg'[h] \in Nat
  BY <1>2, <1>3, <1>5 DEF Facts, CountFacts
<1>7. Shape' /\ \A k \in Host \ {h} : SameHost(k)
  <2>1. wg' \in [Host -> Nat]
    BY <1>2, <1>6 DEF CheckDone, Shape
  <2> QED
    BY <1>1, <1>2, <2>1 DEF CheckDone, Shape, SameHost
<1>8. TypeFacts(h)'
  BY <1>1, <1>2, <1>3 DEF CheckDone, Facts, TypeFacts
<1>9. CountFacts(h)'
  <2>1. \A j \in Job(h) : goroutine'[h][j] = "none" <=> goroutine[h][j] = "none"
    BY <1>3
  <2>2. UNCHANGED <<pc, spawned, closed, reporterChan>>
    BY DEF CheckDone
  <2> QED
    BY <1>1, <1>2, <1>3, <1>6, <2>1, <2>2 DEF Facts, CountFacts
<1>10. FoundFacts(h)'
  BY <1>1, <1>2, <1>3 DEF CheckDone, Facts, FoundFacts
<1>11. QueueFacts(h)'
  <2>1. Sent(h)' = Sent(h)
    BY <1>1, <1>3 DEF CheckDone, Sent
  <2> QED
    BY <1>2, <2>1 DEF CheckDone, Facts, QueueFacts
<1>12. HostFacts'
  BY <1>1, <1>2, SameHostFacts DEF CheckDone
<1> QED
  BY <1>1, <1>7, <1>8, <1>9, <1>10, <1>11, <1>12, LocalStep DEF Facts

\* The steps of Run, and those that leave the goroutines alone.
LEMMA CollectInv ==
  ASSUME IInv, CollectHost
  PROVE  IInv'
<1>1. request' = request /\ Host' = Host
  BY SameRequest DEF CollectHost
<1>2. Shape /\ HostFacts /\ request \in Requests /\ \A h \in Host : Facts(h)
  BY Parts
<1>3. resultChan \in Seq(Host) /\ resultChan # <<>> /\ collected \in Seq(Host)
  BY <1>2 DEF CollectHost, Shape
<1> DEFINE e == Head(resultChan)
<1>4. /\ Tail(resultChan) \in Seq(Host) /\ e \in Host /\ e \in Elements(resultChan)
      /\ Distinct(Tail(resultChan)) /\ Elements(Tail(resultChan)) = Elements(resultChan) \ {e}
  BY <1>2, <1>3, TailElements DEF HostFacts
<1>5. /\ Append(collected, e) \in Seq(Host) /\ Distinct(Append(collected, e))
      /\ Elements(Append(collected, e)) = Elements(collected) \cup {e}
  BY <1>2, <1>3, <1>4, AppendElements DEF HostFacts
<1>6. Shape'
  BY <1>1, <1>2, <1>4, <1>5 DEF CollectHost, Shape
<1>7. \A h \in Host : Facts(h)'
  BY <1>1, <1>2, Frame DEF CollectHost, SameHost
<1>8. HostFacts'
  <2>1. {k \in Host : pc[k] = "done"}' = {k \in Host : pc[k] = "done"}
    BY <1>1 DEF CollectHost
  <2>2. resultChan' = Tail(resultChan) /\ collected' = Append(collected, e)
    BY DEF CollectHost
  <2> QED
    BY <1>2, <1>4, <1>5, <2>1, <2>2 DEF HostFacts
<1> QED
  BY <1>1, <1>2, <1>6, <1>7, <1>8 DEF IInv, TypeOK, Shape, Facts, TypeFacts

\* A step that changes neither a host nor what Run has collected.
LEMMA QuietInv ==
  ASSUME IInv, panicked' \in BOOLEAN,
         UNCHANGED <<request, found, pc, spawned, goroutine, wg, reporterChan, closed, received,
                     resultChan, collected>>
  PROVE  IInv'
<1>1. request' = request /\ Host' = Host
  BY SameRequest
<1>2. Shape /\ HostFacts /\ request \in Requests /\ \A h \in Host : Facts(h)
  BY Parts
<1>3. Shape'
  BY <1>1, <1>2 DEF Shape
<1>4. \A h \in Host : Facts(h)'
  BY <1>1, <1>2, Frame DEF SameHost
<1>5. HostFacts'
  BY <1>1, <1>2, SameHostFacts
<1> QED
  BY <1>1, <1>2, <1>3, <1>4, <1>5 DEF IInv, TypeOK, Shape, Facts, TypeFacts

\* Every step keeps the invariant.
LEMMA NextInv == IInv /\ [RunNext]_vars => IInv'
<1> SUFFICES ASSUME IInv, [RunNext]_vars PROVE IInv'
  OBVIOUS
<1>1. ASSUME NEW h \in Host, ProcessHost(h) PROVE IInv'
  BY <1>1, SpawnInv, AllSpawnedInv, ReceiveInv, HostDoneInv DEF ProcessHost
<1>2. ASSUME NEW h \in Host, CloseChannel(h) PROVE IInv'
  BY <1>2, CloseInv
<1>3. ASSUME NEW h \in Host, NEW i \in Job(h), Checking(h, i) PROVE IInv'
  BY <1>3, ReturnsInv, SendInv, DoneInv DEF Checking
<1>4. ASSUME NEW h \in Host, NEW i \in Job(h), CheckPanics(h, i) PROVE IInv'
  BY <1>4, QuietInv DEF CheckPanics
<1>5. CASE CollectHost
  BY <1>5, CollectInv
<1>6. CASE RunReturns
  <2>1. panicked' \in BOOLEAN
    BY <1>6 DEF RunReturns, runVars, IInv, TypeOK
  <2> QED
    BY <1>6, <2>1, QuietInv DEF RunReturns, runVars
<1>7. CASE UNCHANGED vars
  <2>1. panicked' \in BOOLEAN
    BY <1>7 DEF vars, runVars, IInv, TypeOK
  <2> QED
    BY <1>7, <2>1, QuietInv DEF vars, runVars
<1> QED
  BY <1>1, <1>2, <1>3, <1>4, <1>5, <1>6, <1>7 DEF RunNext

\* For any request and any capacity, the inductive invariant of connectivityRunner holds.
THEOREM RunInvariant == RunSpec => []IInv
  BY InitInv, NextInv, PTL DEF RunSpec

-----------------------------------------------------------------------------
(***************************************************************************)
(* What connectivityRunner promises.                                       *)
(***************************************************************************)

\* For any request and any capacity, the channel of a host never holds more than
\* its capacity and its WaitGroup never falls below zero, whatever the order of the
\* goroutines ProcessHost starts.
THEOREM RunTypeCorrect == RunSpec => []TypeOK
<1>1. IInv => TypeOK
  BY DEF IInv
<1> QED
  BY <1>1, RunInvariant, PTL

\* For any request and any capacity, no check sends on the channel of ProcessHost
\* after the goroutine waiting for the WaitGroup has closed it.
THEOREM ChannelIsOpen == RunSpec => []NoSendAfterClose
<1>1. IInv => NoSendAfterClose
  BY DEF IInv, CountFacts, NoSendAfterClose
<1> QED
  BY <1>1, RunInvariant, PTL

\* When Run has collected as many results as the request has hosts, every host is done.
LEMMA CollectedHosts ==
  ASSUME IInv, AllCollected
  PROVE  collected \in Orders(Host) /\ \A h \in Host : pc[h] = "done"
<1>1. request \in Requests /\ Shape /\ HostFacts
  BY Parts
<1>2. Len(request.jobs) \in Nat /\ Host = 1 .. Len(request.jobs)
  BY <1>1, RequestFacts DEF Host
<1>3. IsFiniteSet(Host) /\ Cardinality(Host) = Len(request.jobs)
  <2>1. \A n \in Nat : IsFiniteSet(1 .. n) /\ Cardinality(1 .. n) = n
    <3>1. \A a, b \in Int : /\ IsFiniteSet(a .. b)
                             /\ Cardinality(a .. b) = IF a > b THEN 0 ELSE b - a + 1
      BY FS_Interval
    <3> QED
      BY <3>1
  <2> QED
    BY <1>2, <2>1
<1>4. /\ Len(collected) = Cardinality(Elements(collected))
      /\ collected \in Orders(Elements(collected))
  BY <1>1, DistinctIsOrder DEF Shape, HostFacts
<1>5. Elements(collected) \subseteq {h \in Host : pc[h] = "done"}
  BY <1>1 DEF HostFacts
<1>6. Elements(collected) = Host
  BY <1>3, <1>4, <1>5, FS_Subset DEF AllCollected
<1> QED
  BY <1>4, <1>5, <1>6

\* A host that is done has received the reporter of every check that has one.
LEMMA ReceivedReporters ==
  ASSUME IInv, NEW h \in Host, pc[h] = "done"
  PROVE  /\ received[h] \in Orders(Reporting(request, found, h))
         /\ \A i \in Job(h) : found[h][i] # Pending
<1>1. Shape /\ Facts(h)
  BY HostAt
<1>2. /\ reporterChan[h] = <<>> /\ \A i \in Job(h) : goroutine[h][i] = "done"
  BY <1>1 DEF Facts, CountFacts
<1>3. \A i \in Job(h) : found[h][i] # Pending
  BY <1>1, <1>2 DEF Facts, FoundFacts
<1>4. Sent(h) = Reporting(request, found, h)
  BY <1>2, <1>3 DEF Sent, Reporting, Job
<1>5. Elements(<<>>) = {}
  <2>1. 1 .. Len(<<>>) = {}
    OBVIOUS
  <2> QED
    BY <2>1 DEF Elements
<1>6. Elements(received[h]) = Reporting(request, found, h)
  BY <1>1, <1>2, <1>4, <1>5, Zenon DEF Facts, QueueFacts
<1>7. received[h] \in Orders(Elements(received[h]))
  BY <1>1, DistinctIsOrder DEF Shape, Facts, QueueFacts
<1> QED
  BY <1>3, <1>6, <1>7

\* The operators of the abstract specification are those of the runner's module.
LEMMA SameOperators ==
  /\ \A r : CR!Hosts(r) = Hosts(r)
  /\ \A r, h : CR!Checks(r, h) = Checks(r, h)
  /\ \A S : CR!Orders(S) = Orders(S)
  /\ \A r, f, h : CR!Reporting(r, f, h) = Reporting(r, f, h)
  /\ \A s : CR!SortedById(s) = SortedById(s)
  /\ \A r, f, h, o : CR!RemoteHost(r, f, h, o) = RemoteHost(r, f, h, o)
<1>1. /\ \A r : CR!Hosts(r) = Hosts(r)
      /\ \A r, h : CR!Checks(r, h) = Checks(r, h)
      /\ \A S : CR!Orders(S) = Orders(S)
  <2>1. \A r : CR!Hosts(r) = Hosts(r)
    BY DEF CR!Hosts, Hosts
  <2>2. \A r, h : CR!Checks(r, h) = Checks(r, h)
    BY DEF CR!Checks, Checks
  <2>3. \A S : CR!Orders(S) = Orders(S)
    BY DEF CR!Orders, Orders, CR!Cardinality, Cardinality
  <2> QED
    BY <2>1, <2>2, <2>3
<1>2. \A r, f, h : CR!Reporting(r, f, h) = Reporting(r, f, h)
  BY <1>1 DEF CR!Reporting, Reporting
<1>3. \A s : CR!SortedById(s) = SortedById(s)
  BY DEF CR!SortedById, SortedById, CR!StableSort, StableSort, CR!Ranked, Ranked, CR!Pairs, Pairs,
     CR!ById, ById, CR!Cardinality, Cardinality
<1>4. \A r, f, h, o : CR!RemoteHost(r, f, h, o) = RemoteHost(r, f, h, o)
  BY DEF CR!RemoteHost, RemoteHost
<1> QED
  BY <1>1, <1>2, <1>3, <1>4

\* Run returns the report of every host, with what each check reported.
LEMMA ReturnsAnswer ==
  ASSUME IInv, RunReturns
  PROVE  CR!Answer
<1>1. collected \in Orders(Host) /\ \A h \in Host : pc[h] = "done"
  BY CollectedHosts DEF RunReturns
<1>2. \A h \in Host : /\ received[h] \in Orders(Reporting(request, found, h))
                       /\ \A i \in Job(h) : found[h][i] # Pending
  BY <1>1, ReceivedReporters
<1>3. received \in [Host -> UNION {Orders(Reporting(request, found, h)) : h \in Host}]
  <2>1. received \in [Host -> Seq(Nat)]
    BY Parts DEF Shape
  <2> QED
    BY <1>2, <2>1
<1>4. reply = NoReply /\ UNCHANGED <<request, found>>
  BY DEF RunReturns
<1>5. reply' = CR!SortedById([n \in DOMAIN collected |->
                                CR!RemoteHost(request, found, collected[n], received[collected[n]])])
  BY SameOperators DEF RunReturns
<1> QED
  BY <1>1, <1>2, <1>3, <1>4, <1>5, SameOperators, Zenon DEF CR!Answer, Host, Job

\* For any request and any capacity, Run implements ConnectivityReport: every check is
\* made once, and the reply has every host with what each of its checks reported.
THEOREM RunReportsEveryCheck == RunSpec => ReportsEveryCheck
<1>1. RunInit => CR!Init
  BY SameOperators DEF RunInit, Init, CR!Init, Hosts, Checks, CR!Hosts, CR!Checks
<1>2. IInv /\ [RunNext]_vars => [CR!Next]_<<request, found, reply>>
  <2> SUFFICES ASSUME IInv, [RunNext]_vars PROVE [CR!Next]_<<request, found, reply>>
    OBVIOUS
  <2>1. ASSUME NEW h \in Host, ProcessHost(h) \/ CloseChannel(h)
        PROVE  UNCHANGED <<request, found, reply>>
    BY <2>1 DEF ProcessHost, spawnChecker, AllSpawned, ReceiveReporter, HostDone, CloseChannel
  <2>2. ASSUME NEW h \in Host, NEW i \in Job(h), CheckReturns(h, i)
        PROVE  CR!Next
    <3>1. found[h][i] = Pending
      BY <2>2 DEF IInv, FoundFacts, CheckReturns
    <3>2. CR!Find(h, i)
      BY <2>2, <3>1, Zenon DEF CR!Find, CheckReturns
    <3> QED
      BY <3>2, SameOperators DEF CR!Next, Host, Job
  <2>3. ASSUME NEW h \in Host, NEW i \in Job(h),
               SendReporter(h, i) \/ CheckDone(h, i) \/ CheckPanics(h, i)
        PROVE  UNCHANGED <<request, found, reply>>
    BY <2>3 DEF SendReporter, CheckDone, CheckPanics
  <2>4. CASE CollectHost
    BY <2>4 DEF CollectHost
  <2>5. CASE RunReturns
    BY <2>5, ReturnsAnswer DEF CR!Next
  <2>6. CASE UNCHANGED vars
    BY <2>6 DEF vars
  <2> QED
    BY <2>1, <2>2, <2>3, <2>4, <2>5, <2>6 DEF RunNext, Checking
<1> QED
  BY <1>1, <1>2, RunInvariant, PTL DEF RunSpec, ReportsEveryCheck, CR!Spec
=============================================================================
