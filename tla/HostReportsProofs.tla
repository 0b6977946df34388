------------------------- MODULE HostReportsProofs --------------------------
(***************************************************************************)
(* What a host reports, for any host and any request: the steps that       *)
(* answer from one look (disks, VIPs, tang servers, domains, ignition),    *)
(* the disk speed check, and the logs.                                     *)
(*                                                                         *)
(* Each section starts with the specification of its program alone and the *)
(* invariant its proof needs.                                              *)
(***************************************************************************)
EXTENDS HostReports, DiskSpeed, LogsSender, SequenceLemmas
-----------------------------------------------------------------------------
(***************************************************************************)
(* The steps that answer from one look.  A step computes its answer from   *)
(* its request in one go, so the invariant only says which; the theorems   *)
(* are about the operators, over sequences of any length.                  *)
(***************************************************************************)
ReportSpec == ReportInit /\ [][ReportNext]_reportVars

\* What each kind of step is asked, and what it may have answered.
ReportInv ==
  /\ step = "disks" => input \in Hosts /\ reply \in {NoReply, getDisks(input)}
  /\ step \in {"vips", "dry vips"} =>
       input \in VipRequests /\ reply \in {NoReply, verifyVips(input, step = "dry vips")}
  /\ step = "tang" => input \in TangServers /\ reply \in {NoReply, CheckTangConnectivity(input)}
  /\ step = "domains" => input \in DomainRequests /\ reply \in {NoReply, RunDomainResolution(input)}
  /\ step = "apivip" => input \in ApiRequests /\ reply \in {NoReply, CheckAPIConnectivity(input)}

\* A step answers what its operator computes for what it was asked.
THEOREM ReportInvariant == ReportSpec => []ReportInv
<1>1. ReportInit => ReportInv
  BY DEF ReportInit, ReportInv
<1>2. ReportInv /\ [ReportNext]_reportVars => ReportInv'
  <2> SUFFICES ASSUME ReportInv, [ReportNext]_reportVars PROVE ReportInv'
    OBVIOUS
  <2>1. CASE ReportNext
    BY <2>1 DEF ReportInv, ReportNext, Answer, ReportDisks, ReportVips, ReportTang, ReportDomains,
                ReportIgnition
  <2>2. CASE UNCHANGED reportVars
    BY <2>2 DEF ReportInv, reportVars
  <2> QED
    BY <2>1, <2>2
<1> QED
  BY <1>1, <1>2, PTL DEF ReportSpec

\* A list made of an answer for each item of a list is as long.
LEMMA AnswerEach ==
  ASSUME NEW S, NEW s \in Seq(S), NEW t, DOMAIN t = DOMAIN s, t = [n \in DOMAIN s |-> t[n]]
  PROVE  Len(t) = Len(s)
<1> DEFINE T == {t[n] : n \in DOMAIN s}
<1>1. DOMAIN s = 1 .. Len(s) /\ Len(s) \in Nat
  OBVIOUS
<1>2. t \in Seq(T)
  BY <1>1
<1> QED
  BY ONLY <1>1, <1>2, DOMAIN t = DOMAIN s

\* EveryItemIsAnswered for requests of every length.
THEOREM EveryItem == ReportSpec => []EveryItemIsAnswered
<1>1. ASSUME ReportInv PROVE EveryItemIsAnswered
  <2> SUFFICES ASSUME Replied({"vips", "dry vips", "tang", "domains"}), reply.code = 0
               PROVE  /\ Len(reply.items) = Len(input)
                      /\ \A n \in DOMAIN input :
                           CASE step \in {"vips", "dry vips"} -> reply.items[n].vip = input[n].vip
                             [] step = "tang" -> reply.items[n] = input[n].name
                             [] step = "domains" -> reply.items[n].name = input[n].name
    BY DEF EveryItemIsAnswered
  <2> DEFINE items == reply.items
  <2>1. reply # NoReply /\ step \in {"vips", "dry vips", "tang", "domains"}
    BY DEF Replied
  <2>2. input \in Seq(Range(input))
    BY <1>1, <2>1, RequestsAssumption DEF ReportInv
  <2>3. FailedReply.code # 0 /\ \A x : Reply(x, 0).items = x
    <3>1. FailedReply.code = -1 /\ \A x : Reply(x, 0).items = x
      BY ONLY TRUE DEF FailedReply, Reply
    <3>2. -1 # 0
      BY ONLY TRUE
    <3> QED
      BY ONLY <3>1, <3>2
  <2>4. CASE step \in {"vips", "dry vips"}
    <3>1. reply = verifyVips(input, step = "dry vips")
      BY <1>1, <2>1, <2>4 DEF ReportInv
    <3> DEFINE dry == step = "dry vips"
    <3>2. items = [n \in DOMAIN input |-> verifyVip(input[n], dry)]
      BY <2>3, <3>1 DEF verifyVips
    <3> HIDE DEF dry
    <3>3. \A n \in DOMAIN input : items[n].vip = input[n].vip
      <4>1. \A item, no : verifyVip(item, no).vip = item.vip
        BY ONLY TRUE DEF verifyVip
      <4> QED
        BY ONLY <3>2, <4>1
    <3>4. Len(items) = Len(input)
      <4>1. DOMAIN items = DOMAIN input /\ items = [n \in DOMAIN input |-> items[n]]
        BY ONLY <3>2
      <4> QED
        BY ONLY <2>2, <4>1, AnswerEach
    <3> QED
      BY ONLY <2>4, <3>3, <3>4
  <2>5. CASE step = "tang"
    <3>1. reply = CheckTangConnectivity(input)
      BY <1>1, <2>1, <2>5 DEF ReportInv
    <3>2. items = [n \in DOMAIN input |-> input[n].name]
      BY <2>3, <3>1 DEF CheckTangConnectivity
    <3>3. Len(items) = Len(input)
      <4>1. DOMAIN items = DOMAIN input /\ items = [n \in DOMAIN input |-> items[n]]
        BY ONLY <3>2
      <4> QED
        BY ONLY <2>2, <4>1, AnswerEach
    <3> QED
      BY ONLY <2>5, <3>2, <3>3
  <2>6. CASE step = "domains"
    <3>1. reply = RunDomainResolution(input)
      BY <1>1, <2>1, <2>6 DEF ReportInv
    <3>2. items = [n \in DOMAIN input |-> handleDomainResolution(input[n])]
      BY <2>3, <3>1 DEF RunDomainResolution
    <3>3. \A n \in DOMAIN input : items[n].name = input[n].name
      <4>1. \A d : handleDomainResolution(d).name = d.name
        BY ONLY TRUE DEF handleDomainResolution
      <4> QED
        BY ONLY <3>2, <4>1
    <3>4. Len(items) = Len(input)
      <4>1. DOMAIN items = DOMAIN input /\ items = [n \in DOMAIN input |-> items[n]]
        BY ONLY <3>2
      <4> QED
        BY ONLY <2>2, <4>1, AnswerEach
    <3> QED
      BY ONLY <2>6, <3>3, <3>4
  <2> QED
    BY <2>1, <2>4, <2>5, <2>6
<1> QED
  BY <1>1, ReportInvariant, PTL
-----------------------------------------------------------------------------
(***************************************************************************)
(* The ignition that is reported.                                          *)
(***************************************************************************)

\* The files of a path, without those that come after another of the same path.
First(files, n) == \A m \in 1 .. n - 1 : files[m].path # files[n].path
FirstOf(files, name) ==
  {files[n] : n \in {m \in DOMAIN files : First(files, m) /\ files[m].path = name}}

\* copyIgnitionFile copies the first file of a path, if there is one.
LEMMA CopiedFile ==
  ASSUME NEW files, files \in Seq(Range(files)), NEW name, NEW copy, copy = copyIgnitionFile(files, name)
  PROVE  /\ copy \in Seq(Range(files)) /\ IsInjective(copy) /\ Range(copy) = FirstOf(files, name)
         /\ \A f \in Range(copy) : f.path = name
<1> DEFINE found == {n \in DOMAIN files : files[n].path = name}
<1>1. Len(files) \in Nat /\ DOMAIN files = 1 .. Len(files)
  OBVIOUS
<1>2. copy = IF found = {} THEN <<>> ELSE <<files[Min(found)]>>
  BY DEF copyIgnitionFile
<1>3. CASE found = {}
  <2>1. copy = <<>> /\ FirstOf(files, name) = {}
    BY <1>2, <1>3 DEF FirstOf
  <2> QED
    BY ONLY <2>1 DEF Range, IsInjective
<1>4. CASE found # {}
  <2> DEFINE k == Min(found)
  <2>1. found \in SUBSET Nat
    BY <1>1
  <2>2. k \in found /\ \A m \in found : k <= m
    <3> HIDE DEF found
    <3> QED
      BY ONLY <1>4, <2>1, MinOfNaturals
  <2> HIDE DEF k
  <2>3. k \in 1 .. Len(files) /\ files[k].path = name /\ files[k] \in Range(files)
    BY <1>1, <2>2 DEF Range
  <2>4. First(files, k)
    BY <1>1, <2>2, <2>3 DEF First
  <2>5. ASSUME NEW n \in DOMAIN files, First(files, n), files[n].path = name PROVE n = k
    <3>1. k <= n /\ k \in Nat /\ n \in Nat /\ k >= 1
      BY <1>1, <2>2, <2>3, <2>5
    <3>2. ~(k < n)
      <4> SUFFICES ASSUME k < n PROVE FALSE
        BY <3>1
      <4>1. k \in 1 .. n - 1
        BY <3>1
      <4> QED
        BY <2>3, <2>5, <4>1 DEF First
    <3> QED
      BY ONLY <3>1, <3>2
  <2>6. FirstOf(files, name) = {files[k]}
    BY ONLY <1>1, <2>3, <2>4, <2>5 DEF FirstOf
  <2>7. copy = <<files[k]>>
    BY ONLY <1>2, <1>4 DEF k
  <2>8. DOMAIN copy = {1} /\ copy[1] = files[k] /\ copy \in Seq(Range(files))
    BY ONLY <2>3, <2>7
  <2> QED
    BY ONLY <2>3, <2>6, <2>8 DEF Range, IsInjective
<1> QED
  BY ONLY <1>3, <1>4

\* The files of a filtered ignition.
LEMMA FilteredFiles ==
  ASSUME NEW files, files \in Seq(Range(files)), NEW t,
         t = Joined([n \in DOMAIN Indications |-> copyIgnitionFile(files, Indications[n])])
  PROVE  /\ IsInjective(t)
         /\ Range(t) = {files[n] : n \in {m \in DOMAIN files :
                          First(files, m) /\ files[m].path \in Range(Indications)}}
<1> DEFINE S == Range(files)
           copy(name) == copyIgnitionFile(files, name)
           parts == [n \in DOMAIN Indications |-> copy(Indications[n])]
           a == copy("coredns.yaml")
           b == copy("keepalived.yaml")
           c == copy("kubeconfig")
<1>1. /\ DOMAIN Indications = 1 .. 3 /\ Indications[1] = "coredns.yaml"
      /\ Indications[2] = "keepalived.yaml" /\ Indications[3] = "kubeconfig"
  BY DEF Indications
<1>2. Range(Indications) = {"coredns.yaml", "keepalived.yaml", "kubeconfig"}
  BY ONLY <1>1 DEF Range
<1>3. /\ a \in Seq(S) /\ IsInjective(a) /\ Range(a) = FirstOf(files, "coredns.yaml")
      /\ \A f \in Range(a) : f.path = "coredns.yaml"
  BY ONLY CopiedFile, files \in Seq(Range(files))
<1>4. /\ b \in Seq(S) /\ IsInjective(b) /\ Range(b) = FirstOf(files, "keepalived.yaml")
      /\ \A f \in Range(b) : f.path = "keepalived.yaml"
  BY ONLY CopiedFile, files \in Seq(Range(files))
<1>5. /\ c \in Seq(S) /\ IsInjective(c) /\ Range(c) = FirstOf(files, "kubeconfig")
      /\ \A f \in Range(c) : f.path = "kubeconfig"
  BY ONLY CopiedFile, files \in Seq(Range(files))
<1> HIDE DEF copy
<1>6. DOMAIN parts = 1 .. 3 /\ parts[1] = a /\ parts[2] = b /\ parts[3] = c
  BY ONLY <1>1
<1> HIDE DEF a, b, c, S
<1>7. parts \in Seq(Seq(S)) /\ Len(parts) = 3
  <2>1. \A n \in 1 .. 3 : parts[n] \in Seq(S)
    BY ONLY <1>3, <1>4, <1>5, <1>6
  <2>2. parts = [n \in 1 .. 3 |-> parts[n]]
    BY ONLY <1>1
  <2> HIDE DEF parts
  <2>3. parts \in Seq(Seq(S))
    BY ONLY <2>1, <2>2
  <2> QED
    BY ONLY <1>6, <2>3
<1>8. t = Joined(parts)
  BY DEF copy
<1> HIDE DEF parts
<1>9. PICK h : Concats(h, parts, S) /\ Joined(parts) = h[Len(parts)]
  BY ONLY <1>7, JoinedUnfolds, Zenon
<1>10. h[0] = <<>> /\ \A i \in 1 .. 3 : h[i] = h[i - 1] \o parts[i]
  BY ONLY <1>7, <1>9, Zenon DEF Concats
<1>11. h[1] = <<>> \o a /\ h[2] = h[1] \o b /\ h[3] = h[2] \o c
  <2>1. 1 - 1 = 0 /\ 2 - 1 = 1 /\ 3 - 1 = 2 /\ 1 \in 1 .. 3 /\ 2 \in 1 .. 3 /\ 3 \in 1 .. 3
    BY ONLY TRUE
  <2> QED
    BY ONLY <1>6, <1>10, <2>1, Zenon
<1>12. h[1] = a
  BY ONLY <1>3, <1>11
<1>13. h[2] \in Seq(S) /\ IsInjective(h[2]) /\ Range(h[2]) = Range(a) \cup Range(b)
  <2>1. Unrepeated(a, S) /\ Unrepeated(b, S) /\ Apart(a, b)
    BY ONLY <1>3, <1>4 DEF Unrepeated, Apart
  <2>2. h[2] = a \o b
    BY ONLY <1>11, <1>12
  <2>3. Unrepeated(h[2], S) /\ HasAllOf(h[2], a, b)
    BY ONLY <2>1, <2>2, ConcatInjective, Zenon
  <2> QED
    BY ONLY <2>3 DEF Unrepeated, HasAllOf
<1>14. IsInjective(h[3]) /\ Range(h[3]) = Range(a) \cup Range(b) \cup Range(c)
  <2>1. Unrepeated(h[2], S) /\ Unrepeated(c, S) /\ Apart(h[2], c)
    BY ONLY <1>3, <1>4, <1>5, <1>13 DEF Unrepeated, Apart
  <2>2. h[3] = h[2] \o c
    BY ONLY <1>11
  <2>3. Unrepeated(h[3], S) /\ HasAllOf(h[3], h[2], c)
    BY ONLY <2>1, <2>2, ConcatInjective, Zenon
  <2> QED
    BY ONLY <1>13, <2>3 DEF Unrepeated, HasAllOf
<1>15. t = h[3]
  BY ONLY <1>7, <1>8, <1>9
<1>16. Range(a) \cup Range(b) \cup Range(c) =
         {files[n] : n \in {m \in DOMAIN files : First(files, m) /\ files[m].path \in Range(Indications)}}
  BY ONLY <1>2, <1>3, <1>4, <1>5 DEF FirstOf
<1> QED
  BY ONLY <1>14, <1>15, <1>16

\* IgnitionIsFiltered for ignitions with any files (filterIgnition).
THEOREM IgnitionFiltered == ReportSpec => []IgnitionIsFiltered
<1>1. ASSUME ReportInv PROVE IgnitionIsFiltered
  <2> SUFFICES ASSUME Replied({"apivip"}), reply.items # <<>> PROVE IgnitionIsFiltered
    BY DEF IgnitionIsFiltered
  <2> DEFINE original == input.ignition
             filtered == filterIgnition(original)
             files == original.files
             copies == Joined([n \in DOMAIN Indications |-> copyIgnitionFile(files, Indications[n])])
  <2>1. reply = CheckAPIConnectivity(input) /\ input \in ApiRequests
    BY <1>1 DEF ReportInv, Replied
  <2>2. DOMAIN original = {"files", "units", "luks", "other"} /\ files \in Seq(Range(files))
    BY <2>1, RequestsAssumption
  <2>3. FailedReply.items = <<>> /\ \A x : Reply(x, 0).items = x
    BY ONLY TRUE DEF FailedReply, Reply
  <2>4. reply.items[1] = filtered
    BY <2>1, <2>3 DEF CheckAPIConnectivity
  <2>5. filtered = [original EXCEPT !.units = <<>>, !.files = copies]
    BY ONLY TRUE DEF filterIgnition
  <2> HIDE DEF filtered, copies
  <2>6. /\ filtered.files = copies /\ filtered.units = <<>> /\ filtered.luks = original.luks
        /\ filtered.other = original.other
    BY ONLY <2>2, <2>5
  <2>7. /\ IsInjective(copies)
        /\ Range(copies) = {files[n] : n \in {m \in DOMAIN files :
                              First(files, m) /\ files[m].path \in Range(Indications)}}
    BY ONLY <2>2, FilteredFiles DEF copies
  <2> QED
    BY ONLY <2>4, <2>6, <2>7 DEF IgnitionIsFiltered, First
<1> QED
  BY <1>1, ReportInvariant, PTL
-----------------------------------------------------------------------------
(***************************************************************************)
(* The disks that are reported.                                            *)
(***************************************************************************)

\* What getDisks returns: the appliance's disk alone, or some of the others.
Described(disks, host) ==
  \/ /\ Len(disks) = 1 /\ DOMAIN disks = {1}
     /\ \E i \in DOMAIN host.block :
          /\ isAppliance(host.block[i]) /\ disks[1].name = host.block[i].name
          /\ disks[1].reasons = <<>>
  \/ /\ \A i \in DOMAIN host.block : ~isAppliance(host.block[i])
     /\ \A n \in DOMAIN disks : \E i \in DOMAIN host.block : disks[n] = DiskRecord(host, i)

\* getDisks reports the appliance disk alone, or a record for each disk it keeps.
LEMMA GetDisks ==
  ASSUME NEW host \in Hosts, host.block # Unreadable
  PROVE  Described(getDisks(host), host)
<1> DEFINE block == host.block
           N == Len(block)
           found == {i \in DOMAIN block : isAppliance(block[i])}
           records == [i \in DOMAIN block |-> DiskRecord(host, i)]
           K == {i \in DOMAIN block : shouldReturnDisk(block[i])}
<1>1. N \in Nat /\ DOMAIN block = 1 .. N
  <2>1. block \in Seq(Range(block))
    BY HostAssumption
  <2> HIDE DEF block
  <2> QED
    BY <2>1
<1>2. CASE found # {}
  <2> DEFINE k == Min(found)
             dev == getPath(host, block[k])
             record == [name |-> block[k].name, id |-> NoPath, byId |-> WWNOf(getDisksWWNs(host), dev),
                        byPath |-> getByPath(host, block[k].bus), path |-> dev, driveType |-> "SSD",
                        media |-> FALSE, reasons |-> <<>>]
  <2>1. getApplianceDisks(host) = <<record>>
    BY <1>2, Zenon DEF getApplianceDisks
  <2>2. record.name = block[k].name /\ record.reasons = <<>>
    BY ONLY TRUE
  <2>3. k \in found
    <3>1. found \in SUBSET Nat
      BY ONLY <1>1
    <3> HIDE DEF found
    <3> QED
      BY ONLY <1>2, <3>1, MinOfNaturals
  <2>4. k \in DOMAIN block /\ isAppliance(block[k])
    BY ONLY <2>3
  <2> HIDE DEF record
  <2>5. getDisks(host) = <<record>>
    BY <2>1 DEF getDisks
  <2>6. Len(getDisks(host)) = 1 /\ DOMAIN getDisks(host) = {1} /\ getDisks(host)[1] = record
    BY ONLY <2>5
  <2> HIDE DEF k
  <2> QED
    BY ONLY <2>2, <2>4, <2>6 DEF Described
<1>3. CASE found = {}
  <2>1. getApplianceDisks(host) = <<>>
    BY <1>3 DEF getApplianceDisks
  <2>2. getDisks(host) = Selected(records, K)
    BY <2>1 DEF getDisks
  <2> DEFINE S == {DiskRecord(host, i) : i \in DOMAIN block}
  <2>3. records \in Seq(S) /\ Len(records) = N /\ K \subseteq 1 .. Len(records)
    <3>1. records \in [1 .. N -> S]
      BY ONLY <1>1
    <3>2. records \in Seq(S) /\ Len(records) = N
      <4> HIDE DEF records, S, N
      <4> QED
        BY ONLY <1>1, <3>1
    <3> QED
      BY ONLY <1>1, <3>2
  <2> HIDE DEF records, K, S
  <2>4. Selected(records, K) \in Seq(S)
    BY ONLY <2>3, SelectedElements, Zenon
  <2>5. \A n \in DOMAIN getDisks(host) : getDisks(host)[n] \in S
    BY ONLY <2>2, <2>4
  <2> QED
    BY ONLY <1>3, <2>5 DEF Described, S
<1> QED
  BY ONLY <1>2, <1>3

\* The reasons the partitions give: none exactly when none of them is mounted.
LEMMA PartitionsMounted ==
  ASSUME NEW partitions, partitions \in Seq(Range(partitions)),
         NEW S, "ISO" \in S, "mounted" \in S
  PROVE  /\ PartitionReasons(partitions) \in Seq(S)
         /\ PartitionReasons(partitions) = <<>> <=> \A i \in DOMAIN partitions : partitions[i].mount = ""
<1> DEFINE N == Len(partitions)
           iso(i) == partitions[i].mount = "iso"
           media(i) == \E j \in 1 .. i : iso(j)
           reason(i) == CASE iso(i) -> <<"ISO">>
                          [] ~media(i) /\ partitions[i].mount # "" -> <<"mounted">>
                          [] OTHER -> <<>>
           parts == [i \in DOMAIN partitions |-> reason(i)]
<1>1. N \in Nat /\ DOMAIN partitions = 1 .. N
  OBVIOUS
<1>2. PartitionReasons(partitions) = Joined(parts)
  BY DEF PartitionReasons
<1>3. <<"ISO">> \in Seq(S) /\ <<"mounted">> \in Seq(S) /\ <<>> \in Seq(S)
      /\ <<"ISO">> # <<>> /\ <<"mounted">> # <<>>
  OBVIOUS
<1>4. \A i \in DOMAIN partitions :
        /\ reason(i) \in Seq(S)
        /\ reason(i) = <<>> <=> ~iso(i) /\ (media(i) \/ partitions[i].mount = "")
  <2> HIDE DEF media
  <2> QED
    BY ONLY <1>3
<1>5. \A i \in DOMAIN partitions : iso(i) => partitions[i].mount # ""
  OBVIOUS
<1>6. \A i \in DOMAIN partitions : media(i) => \E j \in DOMAIN partitions : iso(j)
  BY ONLY <1>1
<1>7. (\A i \in DOMAIN partitions : reason(i) = <<>>) <=> \A i \in DOMAIN partitions : partitions[i].mount = ""
  <2> HIDE DEF reason, media
  <2>1. ASSUME \A i \in DOMAIN partitions : reason(i) = <<>>, NEW i \in DOMAIN partitions
        PROVE  partitions[i].mount = ""
    <3>1. \A j \in DOMAIN partitions : ~iso(j)
      BY ONLY <1>4, <2>1
    <3>2. ~media(i)
      BY ONLY <1>6, <3>1, <2>1
    <3> QED
      BY ONLY <1>4, <2>1, <3>2
  <2>2. ASSUME \A i \in DOMAIN partitions : partitions[i].mount = "", NEW i \in DOMAIN partitions
        PROVE  reason(i) = <<>>
    BY ONLY <1>4, <2>2
  <2> QED
    BY ONLY <2>1, <2>2
<1> HIDE DEF reason
<1>8. /\ DOMAIN parts = 1 .. N /\ \A i \in 1 .. N : parts[i] = reason(i)
      /\ parts \in Seq(Seq(S)) /\ Len(parts) = N
  <2>1. parts \in [1 .. N -> Seq(S)] /\ \A i \in 1 .. N : parts[i] = reason(i)
    BY ONLY <1>1, <1>4
  <2> HIDE DEF parts
  <2> QED
    BY ONLY <1>1, <2>1
<1> HIDE DEF parts
<1>9. /\ Joined(parts) \in Seq(S)
      /\ Joined(parts) = <<>> <=> \A i \in 1 .. Len(parts) : parts[i] = <<>>
  BY ONLY <1>8, JoinedElements
<1> QED
  BY ONLY <1>1, <1>2, <1>7, <1>8, <1>9

\* A concatenation is empty when both its parts are.
LEMMA NothingAdded ==
  ASSUME NEW S, NEW a \in Seq(S), NEW b \in Seq(S)
  PROVE  a \o b \in Seq(S) /\ (a \o b = <<>> <=> a = <<>> /\ b = <<>>)
<1>1. Len(a) \in Nat /\ Len(b) \in Nat /\ a \o b \in Seq(S) /\ Len(a \o b) = Len(a) + Len(b)
  OBVIOUS
<1>2. (a = <<>> <=> Len(a) = 0) /\ (b = <<>> <=> Len(b) = 0)
  OBVIOUS
<1>3. a \o b = <<>> <=> Len(a \o b) = 0
  <2> DEFINE t == a \o b
  <2>1. t \in Seq(S)
    BY ONLY <1>1
  <2> HIDE DEF t
  <2>2. t = <<>> <=> Len(t) = 0
    BY ONLY <2>1
  <2> QED
    BY ONLY <2>2 DEF t
<1> QED
  BY ONLY <1>1, <1>2, <1>3

Reasons == {"controller", "LVM", "no iSCSI state", "not running", "no iSCSI target", "no iBFT",
            "not in iBFT", "ISO", "mounted"}

\* UsableDisk says of the host that was asked; this says it of any.
UsableOn(host, disk) ==
  /\ disk.controller # "unknown" \/ disk.family \in {"dasd", "md"} \/ disk.dmUUID = "mpath-"
  /\ disk.dmUUID # "LVM-"
  /\ disk.transport = "iscsi" =>
       disk.state = "running" /\ disk.target # Unreadable
         /\ host.ibft # Unreadable /\ disk.target \in host.ibft
  /\ LET parts == {disk.partitions[n] : n \in DOMAIN disk.partitions}
     IN (\E p \in parts : p.label = "agent") \/ \A p \in parts : p.mount = ""

\* A disk has no reason against it exactly when it is usable (checkEligibility).
LEMMA Eligible ==
  ASSUME NEW host, NEW disk, disk.partitions \in Seq(Range(disk.partitions)),
         disk.family # "dm-" => disk.dmUUID = ""
  PROVE  checkEligibility(host, disk).reasons = <<>> <=> UsableOn(host, disk)
<1> DEFINE needed == /\ disk.controller = "unknown"
                     /\ ~isMultipath(disk) /\ ~isLVM(disk) /\ ~isDASD(disk) /\ ~isMultipleDevices(disk)
           controller == IF needed THEN <<"controller">> ELSE <<>>
           lvm == IF isLVM(disk) THEN <<"LVM">> ELSE <<>>
           state == checkEligibilityISCSIState(disk)
           table == checkEligibilityISCSIinIBFT(host, disk)
           iscsi == IF isISCSIDisk(disk) THEN state \o table ELSE <<>>
           mounted == PartitionReasons(disk.partitions)
           device == controller \o lvm \o iscsi
           own == \E i \in DOMAIN disk.partitions : disk.partitions[i].label = "agent"
           S == Reasons
<1>1. checkEligibility(host, disk).reasons = IF own THEN device ELSE device \o mounted
  <2> HIDE DEF device, mounted, own
  <2> QED
    BY ONLY TRUE DEF checkEligibility, device, mounted, own
<1>a. {"controller", "LVM", "no iSCSI state", "not running", "no iSCSI target", "no iBFT",
       "not in iBFT", "ISO", "mounted"} \subseteq S
  BY ONLY TRUE DEF Reasons
<1> HIDE DEF S
<1>2. <<>> \in Seq(S) /\ \A x \in S : <<x>> \in Seq(S) /\ <<x>> # <<>>
  <2>1. <<>> \in Seq(S)
    BY ONLY TRUE
  <2>2. ASSUME NEW x \in S PROVE <<x>> \in Seq(S) /\ <<x>> # <<>>
    BY ONLY x \in S
  <2> QED
    BY ONLY <2>1, <2>2
<1>3. controller \in Seq(S) /\ (controller = <<>> <=> ~needed)
  <2> HIDE DEF needed
  <2> QED
    BY ONLY <1>a, <1>2
<1>4. lvm \in Seq(S) /\ (lvm = <<>> <=> ~isLVM(disk))
  BY ONLY <1>a, <1>2
<1>5. state \in Seq(S) /\ (state = <<>> <=> disk.state = "running")
  <2> DEFINE x == IF disk.state = Unreadable THEN "no iSCSI state" ELSE "not running"
  <2>1. state = IF disk.state = "running" THEN <<>> ELSE <<x>>
    BY ONLY TRUE DEF checkEligibilityISCSIState
  <2>2. x \in S
    BY ONLY <1>a
  <2> HIDE DEF x
  <2> QED
    BY ONLY <1>2, <2>1, <2>2
<1>6. /\ table \in Seq(S)
      /\ table = <<>> <=> disk.target # Unreadable /\ host.ibft # Unreadable /\ disk.target \in host.ibft
  BY ONLY <1>a, <1>2 DEF checkEligibilityISCSIinIBFT
<1>7. mounted \in Seq(S) /\ (mounted = <<>> <=> \A i \in DOMAIN disk.partitions : disk.partitions[i].mount = "")
  BY <1>a, PartitionsMounted
<1> HIDE DEF controller, lvm, state, table, mounted
<1>8. iscsi \in Seq(S) /\ (iscsi = <<>> <=> (isISCSIDisk(disk) => state = <<>> /\ table = <<>>))
  BY ONLY <1>2, <1>5, <1>6, NothingAdded
<1> HIDE DEF iscsi
<1>9. device \in Seq(S) /\ (device = <<>> <=> controller = <<>> /\ lvm = <<>> /\ iscsi = <<>>)
  <2> DEFINE two == controller \o lvm
  <2>1. two \in Seq(S) /\ (two = <<>> <=> controller = <<>> /\ lvm = <<>>)
    BY ONLY <1>3, <1>4, NothingAdded
  <2> HIDE DEF two
  <2>2. two \o iscsi \in Seq(S) /\ (two \o iscsi = <<>> <=> two = <<>> /\ iscsi = <<>>)
    BY ONLY <1>8, <2>1, NothingAdded
  <2> QED
    BY ONLY <2>1, <2>2 DEF two
<1> HIDE DEF device
<1>10. device \o mounted = <<>> <=> device = <<>> /\ mounted = <<>>
  BY ONLY <1>7, <1>9, NothingAdded
<1>11. device = <<>> <=>
         /\ disk.controller # "unknown" \/ disk.family \in {"dasd", "md"} \/ disk.dmUUID = "mpath-"
         /\ disk.dmUUID # "LVM-"
         /\ disk.transport = "iscsi" =>
              disk.state = "running" /\ disk.target # Unreadable
                /\ host.ibft # Unreadable /\ disk.target \in host.ibft
  BY <1>3, <1>4, <1>5, <1>6, <1>8, <1>9 DEF isMultipath, isLVM, isDASD, isMultipleDevices,
       isDeviceMapper, isISCSIDisk
<1>12. checkEligibility(host, disk).reasons = <<>> <=>
         device = <<>> /\ (own \/ \A i \in DOMAIN disk.partitions : disk.partitions[i].mount = "")
  BY ONLY <1>1, <1>7, <1>10
<1> QED
  BY <1>11, <1>12 DEF UsableOn

\* EligibleIsUsable for every host (getDisks, checkEligibility).
THEOREM EligibleUsable == ReportSpec => []EligibleIsUsable
<1>1. ASSUME ReportInv PROVE EligibleIsUsable
  <2> SUFFICES ASSUME Replied({"disks"}), NEW n \in DOMAIN reply
               PROVE  \E i \in DOMAIN input.block :
                        /\ input.block[i].name = reply[n].name
                        /\ (reply[n].reasons = <<>>) <=>
                             (UsableDisk(input.block[i]) \/ input.block[i].dmName = "agent")
    BY DEF EligibleIsUsable
  <2>1. reply = getDisks(input) /\ input \in Hosts
    BY <1>1 DEF ReportInv, Replied
  <2>2. input.block # Unreadable
    BY <2>1 DEF getDisks
  <2>3. Described(reply, input)
    BY ONLY <2>1, <2>2, GetDisks
  <2>4. CASE /\ DOMAIN reply = {1}
             /\ \E i \in DOMAIN input.block :
                  /\ isAppliance(input.block[i]) /\ reply[1].name = input.block[i].name
                  /\ reply[1].reasons = <<>>
    <3>1. n = 1
      BY <2>4
    <3> QED
      BY ONLY <2>4, <3>1 DEF isAppliance
  <2>5. CASE /\ \A i \in DOMAIN input.block : ~isAppliance(input.block[i])
             /\ \A m \in DOMAIN reply : \E i \in DOMAIN input.block : reply[m] = DiskRecord(input, i)
    <3>1. PICK i \in DOMAIN input.block : reply[n] = DiskRecord(input, i)
      BY <2>5
    <3> DEFINE disk == input.block[i]
    <3>2. reply[n].name = disk.name /\ reply[n].reasons = checkEligibility(input, disk).reasons
      BY ONLY <3>1 DEF DiskRecord
    <3>3. /\ disk.partitions \in Seq(Range(disk.partitions))
          /\ disk.family # "dm-" => disk.dmUUID = "" /\ disk.dmName = ""
      BY ONLY <2>1, <2>2, HostAssumption, i \in DOMAIN input.block
    <3>4. disk.dmName # "agent"
      <4>1. ~isAppliance(disk)
        BY ONLY <2>5, i \in DOMAIN input.block
      <4> QED
        BY ONLY <3>3, <4>1 DEF isAppliance, isDeviceMapper
    <3> HIDE DEF disk
    <3>5. checkEligibility(input, disk).reasons = <<>> <=> UsableOn(input, disk)
      BY ONLY <3>3, Eligible
    <3>6. UsableOn(input, disk) <=> UsableDisk(disk)
      BY ONLY TRUE DEF UsableOn, UsableDisk
    <3>7. (reply[n].reasons = <<>>) <=> (UsableDisk(disk) \/ disk.dmName = "agent")
      BY ONLY <3>2, <3>4, <3>5, <3>6
    <3> QED
      BY ONLY <3>2, <3>7, i \in DOMAIN input.block DEF disk
  <2> QED
    BY ONLY <2>3, <2>4, <2>5 DEF Described
<1> QED
  BY <1>1, ReportInvariant, PTL

\* A path of one directory is none of another.
LEMMA PathsDiffer ==
  /\ \A x, y : (Dev(x) = Dev(y) => x = y) /\ (ByPath(x) = ByPath(y) => x = y) /\ (ById(x) = ById(y) => x = y)
  /\ \A x, y : Dev(x) # ByPath(y) /\ Dev(x) # ById(y) /\ ByPath(x) # ById(y)
  /\ \A x : Dev(x) # NoPath /\ ByPath(x) # NoPath /\ ById(x) # NoPath
BY DEF Dev, ByPath, ById, NoPath

\* Two devices that have links have different ones: a link leads to one device.
LEMMA LinksDiffer ==
  ASSUME NEW host \in Hosts, NEW p, NEW q, p # q, WWNOf(getDisksWWNs(host), p) # NoPath
  PROVE  /\ WWNOf(getDisksWWNs(host), p) # WWNOf(getDisksWWNs(host), q)
         /\ \E x : WWNOf(getDisksWWNs(host), p) = ById(x)
<1> DEFINE byId == host.byId
           links == {i \in DOMAIN byId : byId[i].prefix \in {"wwn-", "nvme-eui"} /\ byId[i].symlink}
           pathOf(i) == IF byId[i].target = Unreadable THEN NoPath ELSE Dev(byId[i].target)
           to(x) == {i \in links : pathOf(i) = x}
           wwns == [x \in {pathOf(i) : i \in links} |->
                      IF x = NoPath THEN NoPath ELSE ById(byId[Max(to(x))].name)]
<1>1. getDisksWWNs(host) = wwns
  BY Zenon DEF getDisksWWNs
<1>2. Len(byId) \in Nat /\ DOMAIN byId = 1 .. Len(byId)
  <2>1. byId \in Seq(Range(byId))
    BY HostAssumption
  <2> HIDE DEF byId
  <2> QED
    BY ONLY <2>1
<1>3. \A i, j \in DOMAIN byId : byId[i].name = byId[j].name => i = j
  BY HostAssumption
<1>4. links \subseteq DOMAIN byId
  OBVIOUS
<1> HIDE DEF links, pathOf
<1>5. \A x : WWNOf(wwns, x) # NoPath =>
        x \in {pathOf(i) : i \in links} /\ WWNOf(wwns, x) = ById(byId[Max(to(x))].name)
  <2> HIDE DEF to
  <2> QED
    BY ONLY TRUE DEF WWNOf
<1>6. ASSUME NEW x, x \in {pathOf(i) : i \in links} PROVE Max(to(x)) \in links /\ pathOf(Max(to(x))) = x
  <2>1. to(x) # {} /\ to(x) \subseteq 1 .. Len(byId)
    BY ONLY <1>2, <1>4, <1>6
  <2>2. Max(to(x)) \in to(x)
    <3> HIDE DEF to
    <3> QED
      BY ONLY <1>2, <2>1, MaxOfNaturals
  <2> QED
    BY ONLY <2>2
<1> HIDE DEF wwns, to
<1>7. PICK i \in links : pathOf(i) = p /\ WWNOf(wwns, p) = ById(byId[i].name)
  BY <1>1, <1>5, <1>6
<1>8. CASE WWNOf(wwns, q) = NoPath
  BY ONLY <1>1, <1>7, <1>8, PathsDiffer
<1>9. CASE WWNOf(wwns, q) # NoPath
  <2>1. PICK j \in links : pathOf(j) = q /\ WWNOf(wwns, q) = ById(byId[j].name)
    BY ONLY <1>5, <1>6, <1>9
  <2>2. i # j
    BY <1>7, <2>1
  <2>3. byId[i].name # byId[j].name
    BY ONLY <1>3, <1>4, <2>2, i \in links, j \in links
  <2>4. ById(byId[i].name) # ById(byId[j].name)
    BY ONLY <2>3, PathsDiffer
  <2> QED
    BY ONLY <1>1, <1>7, <2>1, <2>4
<1> QED
  BY ONLY <1>8, <1>9

\* DiskIdsDiffer for every host, however its links and bus paths lead to its disks
\* (getDisks, getDisksWWNs, getBusPath).
THEOREM DiskIds == ReportSpec => []DiskIdsDiffer
<1>1. ASSUME ReportInv PROVE DiskIdsDiffer
  <2> SUFFICES ASSUME Replied({"disks"}), NEW m \in DOMAIN reply, NEW n \in DOMAIN reply,
                      reply[m].path # reply[n].path
               PROVE  reply[m].id # reply[n].id
    BY DEF DiskIdsDiffer
  <2>1. reply = getDisks(input) /\ input \in Hosts
    BY <1>1 DEF ReportInv, Replied
  <2>2. input.block # Unreadable
    BY <2>1 DEF getDisks
  <2>3. Described(reply, input)
    BY ONLY <2>1, <2>2, GetDisks
  <2>4. \A k \in DOMAIN reply : \E i \in DOMAIN input.block : reply[k] = DiskRecord(input, i)
    <3>1. DOMAIN reply # {1}
      OBVIOUS
    <3> QED
      BY ONLY <2>3, <3>1 DEF Described
  <2>5. PICK i \in DOMAIN input.block, j \in DOMAIN input.block :
          reply[m] = DiskRecord(input, i) /\ reply[n] = DiskRecord(input, j)
    BY <2>4
  <2> DEFINE wwns == getDisksWWNs(input)
             pathOf(k) == getPath(input, input.block[k])
             byId(k) == WWNOf(wwns, pathOf(k))
             byPath(k) == getBusPath(input, k)
             id(k) == IF byId(k) # NoPath THEN byId(k) ELSE IF byPath(k) # NoPath THEN byPath(k) ELSE pathOf(k)
  <2>6. \A k : DiskRecord(input, k).path = pathOf(k) /\ DiskRecord(input, k).id = id(k)
    <3> HIDE DEF byId, byPath, pathOf
    <3> QED
      BY ONLY TRUE, Zenon DEF DiskRecord, byId, byPath, pathOf
  <2>7. pathOf(i) # pathOf(j) /\ i # j
    BY <2>5, <2>6
  <2>8. \A k : pathOf(k) = NoPath \/ \E x : pathOf(k) = Dev(x)
    BY ONLY TRUE DEF getPath
  <2>9. \A k : byPath(k) = NoPath \/ byPath(k) = ByPath(input.block[k].bus)
    BY ONLY TRUE DEF getBusPath, getByPath
  <2>10. byPath(i) # NoPath => input.block[i].bus # input.block[j].bus
    BY ONLY <2>7, j \in DOMAIN input.block DEF getBusPath
  <2> HIDE DEF pathOf
  <2>11. byId(i) # NoPath => byId(i) # byId(j) /\ \E x : byId(i) = ById(x)
    BY ONLY <2>1, <2>7, LinksDiffer
  <2>12. byId(j) # NoPath => byId(i) # byId(j) /\ \E x : byId(j) = ById(x)
    BY ONLY <2>1, <2>7, LinksDiffer
  <2> HIDE DEF byId, byPath
  <2>13. id(i) # id(j)
    BY ONLY <2>7, <2>8, <2>9, <2>10, <2>11, <2>12, PathsDiffer
  <2> QED
    BY ONLY <2>5, <2>6, <2>13
<1> QED
  BY <1>1, ReportInvariant, PTL
-----------------------------------------------------------------------------
(***************************************************************************)
(* The disk speed check, for any number of jobs.  What a job has sent is   *)
(* in the channel or counted in maxLatency, and maxLatency is the latency  *)
(* of some job; FioPerfCheck ends when every job has sent and the channel  *)
(* is empty.                                                               *)
(***************************************************************************)
SpeedSpec == SpeedInit /\ [][SpeedNext]_speedVars

Outcomes == {Failed} \cup {Measured(l) : l \in FioLatencies}

SpeedType ==
  /\ DOMAIN speedReply = FioSteps
  /\ job \in [Jobs -> {"idle", "fio", "send", "sent"}]
  /\ outcome \in [Jobs -> Outcomes]
  /\ responseCh \in Seq(Outcomes)
  /\ maxLatency \in Nat \cup {-1}
  /\ reader \in {"waiting", "reading", "ended"}

\* What a job sent is in the channel or counted, and nothing else is.
Counted ==
  /\ \A n \in 1 .. Len(responseCh) : \E j \in Jobs : job[j] = "sent" /\ responseCh[n] = outcome[j]
  /\ \A j \in Jobs : job[j] = "sent" /\ outcome[j].ok =>
       outcome[j].latency <= maxLatency \/ \E n \in 1 .. Len(responseCh) : responseCh[n] = outcome[j]
  /\ maxLatency # -1 => \E j \in Jobs : job[j] = "sent" /\ outcome[j] = Measured(maxLatency)

SpeedInv ==
  /\ SpeedType
  /\ reader # "ended" => owner \in FioSteps /\ Counted
  /\ reader = "reading" => \A j \in Jobs : job[j] = "sent"

\* What a job sends is a latency or a failure.
LEMMA OutcomeShape ==
  ASSUME NEW o \in Outcomes
  PROVE  /\ o.ok \in BOOLEAN /\ o.latency \in Nat \cup {-1}
         /\ o.ok => o.latency \in Nat /\ o = Measured(o.latency)
         /\ ~o.ok => o = Failed
<1>1. CASE o = Failed
  BY <1>1 DEF Failed
<1>2. ASSUME NEW l \in FioLatencies, o = Measured(l)
      PROVE  o.ok /\ o.latency = l /\ l \in Nat
  BY <1>2, FioAssumption DEF Measured
<1> QED
  BY <1>1, <1>2, Zenon DEF Outcomes

\* Every step keeps the types of the container and of the replies.
LEMMA SpeedTypeStep ==
  ASSUME SpeedType, [SpeedNext]_speedVars
  PROVE  SpeedType'
<1>0. Failed \in Outcomes
  BY DEF Outcomes
<1>1. ASSUME NEW s \in FioSteps, LookForContainer(s) PROVE SpeedType'
  BY <1>1 DEF SpeedType, LookForContainer, SpeedReturns, container
<1>2. ASSUME NEW s \in FioSteps, executeMultipleDiskPerf(s) PROVE SpeedType'
  <2>1. CASE owner # NoOwner \/ path[s] = "missing"
    BY <1>2, <2>1 DEF SpeedType, executeMultipleDiskPerf, SpeedReturns, container
  <2>2. CASE ~(owner # NoOwner \/ path[s] = "missing")
    BY <1>0, <1>2, <2>2 DEF SpeedType, executeMultipleDiskPerf
  <2> QED
    BY <2>1, <2>2
<1>3. ASSUME NEW j \in Jobs, getDiskPerf(j) PROVE SpeedType'
  <2>1. PICK result \in Outcomes : outcome' = [outcome EXCEPT ![j] = result]
    BY <1>3, Zenon DEF getDiskPerf, Outcomes
  <2> QED
    BY <1>3, <2>1 DEF SpeedType, getDiskPerf
<1>4. ASSUME NEW j \in Jobs, SendResponse(j) PROVE SpeedType'
  <2>1. outcome[j] \in Outcomes /\ responseCh' = Append(responseCh, outcome[j])
    BY <1>4 DEF SpeedType, SendResponse
  <2>2. responseCh' \in Seq(Outcomes)
    BY <2>1 DEF SpeedType
  <2> QED
    BY <1>4, <2>2 DEF SpeedType, SendResponse
<1>5. ASSUME WaitJobs PROVE SpeedType'
  BY <1>5 DEF SpeedType, WaitJobs
<1>6. ASSUME ReadResponse PROVE SpeedType'
  <2>1. Head(responseCh) \in Outcomes /\ Tail(responseCh) \in Seq(Outcomes)
    BY <1>6 DEF SpeedType, ReadResponse
  <2>2. maxLatency' \in Nat \cup {-1}
    BY <1>6, <2>1, OutcomeShape DEF SpeedType, ReadResponse, worstLatency
  <2> QED
    BY <1>6, <2>1, <2>2 DEF SpeedType, ReadResponse
<1>7. ASSUME FioPerfCheck PROVE SpeedType'
  BY <1>7 DEF SpeedType, FioPerfCheck, SpeedReturns
<1>8. ASSUME ContainerDies PROVE SpeedType'
  <2>1. PICK code : speedReply' = [speedReply EXCEPT ![owner] = [latency |-> -1, code |-> code]]
    BY <1>8, Zenon DEF ContainerDies, SpeedReturns
  <2>2. DOMAIN speedReply' = DOMAIN speedReply
    BY ONLY <2>1
  <2> QED
    BY <1>8, <2>2 DEF SpeedType, ContainerDies
<1>9. ASSUME UNCHANGED speedVars PROVE SpeedType'
  BY <1>9 DEF SpeedType, speedVars
<1> QED
  BY <1>1, <1>2, <1>3, <1>4, <1>5, <1>6, <1>7, <1>8, <1>9 DEF SpeedNext

\* A job sends what it measured: it is in the channel from then on.
LEMMA CountedSend ==
  ASSUME SpeedType, SpeedType', NEW j \in Jobs, SendResponse(j), Counted
  PROVE  Counted'
<1> DEFINE m == Len(responseCh) + 1
<1>1. /\ job[j] = "send" /\ job' = [job EXCEPT ![j] = "sent"]
      /\ responseCh' = Append(responseCh, outcome[j])
      /\ outcome' = outcome /\ maxLatency' = maxLatency
  BY DEF SendResponse
<1>2. /\ Len(responseCh) \in Nat /\ Len(responseCh') = m /\ responseCh'[m] = outcome[j]
      /\ \A n \in 1 .. Len(responseCh) : responseCh'[n] = responseCh[n]
  BY ONLY <1>1, SpeedType, j \in Jobs DEF SpeedType
<1>3. job'[j] = "sent" /\ \A i \in Jobs \ {j} : job'[i] = job[i]
  BY ONLY <1>1, SpeedType, j \in Jobs DEF SpeedType
<1>4. ASSUME NEW n \in 1 .. Len(responseCh')
      PROVE  \E i \in Jobs : job'[i] = "sent" /\ responseCh'[n] = outcome'[i]
  <2>1. CASE n = m
    BY ONLY <1>1, <1>2, <1>3, <2>1, j \in Jobs
  <2>2. CASE n # m
    <3>1. n \in 1 .. Len(responseCh)
      BY ONLY <1>2, <2>2, <1>4
    <3>2. PICK i \in Jobs : job[i] = "sent" /\ responseCh[n] = outcome[i]
      BY <3>1 DEF Counted
    <3> QED
      BY ONLY <1>1, <1>2, <1>3, <3>1, <3>2
  <2> QED
    BY <2>1, <2>2
<1>5. ASSUME NEW i \in Jobs, job'[i] = "sent", outcome'[i].ok
      PROVE  outcome'[i].latency <= maxLatency' \/ \E n \in 1 .. Len(responseCh') : responseCh'[n] = outcome'[i]
  <2>1. CASE i = j
    <3>1. m \in 1 .. Len(responseCh')
      BY ONLY <1>2
    <3> QED
      BY ONLY <1>1, <1>2, <2>1, <3>1
  <2>2. CASE i # j
    <3>1. CASE outcome[i].latency <= maxLatency
      BY ONLY <1>1, <3>1
    <3>2. CASE ~(outcome[i].latency <= maxLatency)
      <4>1. PICK n \in 1 .. Len(responseCh) : responseCh[n] = outcome[i]
        BY <1>1, <1>3, <1>5, <2>2, <3>2 DEF Counted
      <4>2. n \in 1 .. Len(responseCh')
        BY ONLY <1>2, n \in 1 .. Len(responseCh)
      <4> QED
        BY ONLY <1>1, <1>2, <4>1, <4>2
    <3> QED
      BY <3>1, <3>2
  <2> QED
    BY <2>1, <2>2
<1>6. ASSUME maxLatency' # -1 PROVE \E i \in Jobs : job'[i] = "sent" /\ outcome'[i] = Measured(maxLatency')
  <2>1. PICK i \in Jobs : job[i] = "sent" /\ outcome[i] = Measured(maxLatency)
    BY <1>1, <1>6 DEF Counted
  <2> QED
    BY <1>1, <1>3, <2>1
<1> QED
  BY <1>4, <1>5, <1>6 DEF Counted

\* FioPerfCheck takes the next response: it is counted instead.
LEMMA CountedRead ==
  ASSUME SpeedType, SpeedType', ReadResponse, Counted
  PROVE  Counted'
<1> DEFINE h == responseCh[1]
<1>1. /\ responseCh # <<>> /\ responseCh' = Tail(responseCh)
      /\ maxLatency' = worstLatency(maxLatency, Head(responseCh))
      /\ job' = job /\ outcome' = outcome
  BY DEF ReadResponse
<1>2. /\ Len(responseCh) \in Nat /\ 1 \in 1 .. Len(responseCh) /\ Len(responseCh') = Len(responseCh) - 1
      /\ Head(responseCh) = h /\ h \in Outcomes
      /\ \A n \in 1 .. Len(responseCh') : n + 1 \in 1 .. Len(responseCh) /\ responseCh'[n] = responseCh[n + 1]
      /\ \A n \in 1 .. Len(responseCh) :
           n # 1 => n - 1 \in 1 .. Len(responseCh') /\ responseCh'[n - 1] = responseCh[n]
  BY ONLY <1>1, SpeedType DEF SpeedType
<1>3. PICK k \in Jobs : job[k] = "sent" /\ h = outcome[k]
  BY <1>2 DEF Counted
<1>4. /\ h.ok \in BOOLEAN /\ (h.ok => h.latency \in Nat /\ h = Measured(h.latency))
      /\ maxLatency \in Nat \cup {-1}
  BY <1>2, OutcomeShape DEF SpeedType
<1>5. /\ h.ok /\ h.latency > maxLatency => maxLatency' = h.latency
      /\ ~(h.ok /\ h.latency > maxLatency) => maxLatency' = maxLatency
      /\ maxLatency <= maxLatency' /\ (h.ok => h.latency <= maxLatency')
      /\ maxLatency' \in Nat \cup {-1}
  BY ONLY <1>1, <1>2, <1>4 DEF worstLatency
<1>6. ASSUME NEW n \in 1 .. Len(responseCh')
      PROVE  \E i \in Jobs : job'[i] = "sent" /\ responseCh'[n] = outcome'[i]
  BY <1>1, <1>2, SMTT(20) DEF Counted
<1>7. ASSUME NEW i \in Jobs, job'[i] = "sent", outcome'[i].ok
      PROVE  outcome'[i].latency <= maxLatency' \/ \E n \in 1 .. Len(responseCh') : responseCh'[n] = outcome'[i]
  <2>0. outcome[i] \in Outcomes /\ outcome[i].latency \in Nat \cup {-1}
    BY OutcomeShape DEF SpeedType
  <2>1. CASE outcome[i].latency <= maxLatency
    BY ONLY <1>1, <1>4, <1>5, <2>0, <2>1
  <2>2. CASE ~(outcome[i].latency <= maxLatency)
    <3>1. PICK n \in 1 .. Len(responseCh) : responseCh[n] = outcome[i]
      BY <1>1, <1>7, <2>2 DEF Counted
    <3>2. CASE n = 1
      BY ONLY <1>1, <1>5, <1>7, <3>1, <3>2
    <3>3. CASE n # 1
      BY ONLY <1>1, <1>2, <3>1, <3>3, n \in 1 .. Len(responseCh)
    <3> QED
      BY <3>2, <3>3
  <2> QED
    BY <2>1, <2>2
<1>8. ASSUME maxLatency' # -1 PROVE \E i \in Jobs : job'[i] = "sent" /\ outcome'[i] = Measured(maxLatency')
  <2>1. CASE h.ok /\ h.latency > maxLatency
    BY ONLY <1>1, <1>3, <1>4, <1>5, <2>1
  <2>2. CASE ~(h.ok /\ h.latency > maxLatency)
    <3>1. maxLatency' = maxLatency
      BY ONLY <1>5, <2>2
    <3>2. PICK i \in Jobs : job[i] = "sent" /\ outcome[i] = Measured(maxLatency)
      BY <1>8, <3>1 DEF Counted
    <3> QED
      BY ONLY <1>1, <3>1, <3>2
  <2> QED
    BY <2>1, <2>2
<1> QED
  BY <1>6, <1>7, <1>8 DEF Counted

\* A job that has measured has sent nothing yet.
LEMMA CountedPerf ==
  ASSUME SpeedType, NEW j \in Jobs, getDiskPerf(j), Counted
  PROVE  Counted'
<1>1. /\ job[j] = "fio" /\ job' = [job EXCEPT ![j] = "send"]
      /\ \E result : outcome' = [outcome EXCEPT ![j] = result]
      /\ responseCh' = responseCh /\ maxLatency' = maxLatency
  BY Zenon DEF getDiskPerf
<1>2. /\ \A i \in Jobs : job'[i] = "sent" <=> job[i] = "sent"
      /\ \A i \in Jobs : job[i] = "sent" => outcome'[i] = outcome[i]
  BY ONLY <1>1, SpeedType, j \in Jobs DEF SpeedType
<1> QED
  BY ONLY <1>1, <1>2, Counted DEF Counted

\* Every step keeps what a job sent in the channel or counted.
LEMMA SpeedStep ==
  ASSUME SpeedInv, [SpeedNext]_speedVars
  PROVE  SpeedInv'
<1>0. SpeedType /\ SpeedType'
  BY SpeedTypeStep DEF SpeedInv
<1> DEFINE Rest == /\ reader # "ended" => owner \in FioSteps /\ Counted
                   /\ reader = "reading" => \A j \in Jobs : job[j] = "sent"
<1>1. ASSUME NEW s \in FioSteps, LookForContainer(s) PROVE Rest'
  BY <1>1 DEF SpeedInv, LookForContainer, container, Counted
<1>2. ASSUME NEW s \in FioSteps, executeMultipleDiskPerf(s) PROVE Rest'
  <2>1. CASE UNCHANGED <<owner, container>>
    BY <2>1 DEF SpeedInv, container, Counted
  <2>2. CASE /\ owner' = s /\ reader' = "waiting" /\ responseCh' = <<>> /\ maxLatency' = -1
             /\ job' = [j \in Jobs |-> "fio"]
    BY <2>2 DEF Counted
  <2> QED
    BY <1>2, <2>1, <2>2 DEF executeMultipleDiskPerf
<1>3. ASSUME NEW j \in Jobs, getDiskPerf(j) PROVE Rest'
  <2>1. owner' = owner /\ reader' = reader /\ job[j] = "fio"
    BY <1>3 DEF getDiskPerf
  <2> QED
    BY <1>0, <1>3, <2>1, CountedPerf DEF SpeedInv
<1>4. ASSUME NEW j \in Jobs, SendResponse(j) PROVE Rest'
  <2>1. owner' = owner /\ reader' = reader /\ job[j] = "send"
    BY <1>4 DEF SendResponse
  <2> QED
    BY <1>0, <1>4, <2>1, CountedSend DEF SpeedInv
<1>5. ASSUME WaitJobs PROVE Rest'
  BY <1>5 DEF SpeedInv, WaitJobs, Counted
<1>6. ASSUME ReadResponse PROVE Rest'
  <2>1. owner' = owner /\ reader' = reader /\ reader = "reading" /\ job' = job
    BY <1>6 DEF ReadResponse
  <2> QED
    BY <1>0, <1>6, <2>1, CountedRead DEF SpeedInv
<1>7. ASSUME FioPerfCheck PROVE Rest'
  BY <1>7 DEF FioPerfCheck
<1>8. ASSUME ContainerDies PROVE Rest'
  BY <1>8 DEF ContainerDies
<1>9. ASSUME UNCHANGED speedVars PROVE Rest'
  BY <1>9 DEF SpeedInv, speedVars, Counted
<1>10. Rest'
  BY <1>1, <1>2, <1>3, <1>4, <1>5, <1>6, <1>7, <1>8, <1>9 DEF SpeedNext
<1> QED
  BY <1>0, <1>10 DEF SpeedInv

\* A check that succeeds reports the worst latency that its jobs measured, however
\* many they are and in whatever order they send (FioPerfCheck).
THEOREM WorstLatency == SpeedSpec => WorstLatencyIsReported
<1>1. SpeedInit => SpeedInv
  <2>1. Failed \in Outcomes
    BY DEF Outcomes
  <2> QED
    BY <2>1 DEF SpeedInit, SpeedInv, SpeedType
<1>2. SpeedInv /\ [SpeedNext]_speedVars => SpeedInv'
  BY SpeedStep
<1> DEFINE measured == {outcome[j].latency : j \in {i \in Jobs : outcome[i].ok}}
           answer == speedReply'[owner]
<1>3. ASSUME SpeedInv, FioPerfCheck
      PROVE  IF measured = {} THEN answer.code = 255
             ELSE answer = [latency |-> Max(measured), code |-> 0]
  <2>1. /\ SpeedType /\ Counted /\ owner \in FioSteps
        /\ \A j \in Jobs : job[j] = "sent"
        /\ responseCh = <<>>
    BY <1>3 DEF SpeedInv, FioPerfCheck
  <2>2. /\ answer = IF maxLatency = -1 THEN [latency |-> 0, code |-> 255]
                    ELSE [latency |-> maxLatency, code |-> 0]
    BY <1>3, <2>1 DEF FioPerfCheck, SpeedReturns, SpeedType
  <2> HIDE DEF answer
  <2>3. \A j \in Jobs : outcome[j].ok => outcome[j].latency \in Nat /\ outcome[j].latency <= maxLatency
    <3> TAKE j \in Jobs
    <3> HAVE outcome[j].ok
    <3>1. outcome[j] \in Outcomes
      BY <2>1 DEF SpeedType
    <3>2. outcome[j].latency \in Nat
      BY <3>1, OutcomeShape
    <3>3. Len(responseCh) = 0
      BY <2>1
    <3> QED
      BY <2>1, <3>2, <3>3 DEF Counted
  <2>4. measured \subseteq Nat /\ \A x \in measured : x <= maxLatency
    BY ONLY <2>3
  <2>5. CASE maxLatency = -1
    <3>1. measured = {}
      BY ONLY <2>4, <2>5
    <3> QED
      BY ONLY <2>2, <2>5, <3>1
  <2>6. CASE maxLatency # -1
    <3>1. PICK j \in Jobs : outcome[j] = Measured(maxLatency)
      BY <2>1, <2>6 DEF Counted
    <3>2. outcome[j].ok /\ outcome[j].latency = maxLatency
      BY ONLY <3>1 DEF Measured
    <3>3. maxLatency \in measured
      BY ONLY <3>2, j \in Jobs
    <3> HIDE DEF measured
    <3>4. Max(measured) = maxLatency
      BY ONLY <2>4, <3>3, MaxIs
    <3> QED
      BY ONLY <2>2, <2>6, <3>3, <3>4
  <2> QED
    BY <2>5, <2>6, Zenon
<1>4. SpeedInv => [FioPerfCheck =>
        LET reported == speedReply'[owner]
            measured_ == {outcome[j].latency : j \in {i \in Jobs : outcome[i].ok}}
        IN IF measured_ = {} THEN reported.code = 255
           ELSE reported = [latency |-> Max(measured_), code |-> 0]]_speedVars
  BY <1>3, Zenon
<1> QED
  BY <1>1, <1>2, <1>4, PTL DEF SpeedSpec, WorstLatencyIsReported
-----------------------------------------------------------------------------
(***************************************************************************)
(* The logs: the synchronisation between SendLogs and the partial          *)
(* collection.  The invariant says how the WaitGroup follows the two       *)
(* threads and when the folder of the partial collection exists.           *)
(***************************************************************************)
Collecting == {"start", "select", "archive", "upload"}

\* How the WaitGroup follows the two threads: the goroutine starts before it is
\* counted, it is counted once, and it is over when SendLogs goes on.
WaitGroupInv ==
  /\ main \in {"requested", "journals", "errors", "spawn"} => partial = "none" /\ wg = 0
  /\ main = "add" => partial \in Collecting /\ wg = 0
  /\ main \in {"gather", "cancel", "wait"} =>
       \/ partial = "ended" /\ wg = 0
       \/ partial \in Collecting /\ wg = 1
  /\ main \in {"report", "tar", "archive", "upload", "clean", "unwind", "done", "crashed"} =>
       partial \in {"none", "ended"}

\* The folder of the partial collection exists only while it collects.
PartialFolderInv == partial \in {"none", "start", "ended"} => "partial" \notin dir

\* The service learns of completion from the last step before the cleanup.
CompletedInv == progress = "completed" => main \in {"clean", "done", "killed"}

\* The inductive invariant.
SenderInv ==
  /\ TypeOK
  /\ WaitGroupInv
  /\ PartialFolderInv
  /\ FinalArchiveIsIntact
  /\ CleanWhenDone
  /\ CompletedInv

\* The initial states satisfy the inductive invariant.
LEMMA SenderInit == Init => SenderInv
<1> SUFFICES ASSUME Init
             PROVE  SenderInv
    OBVIOUS
<1>1. TypeOK
  <2>1. /\ gathers \in BOOLEAN /\ bootstrap \in BOOLEAN /\ clean \in BOOLEAN
        /\ cancelled \in BOOLEAN /\ failed \in BOOLEAN
    BY Zenon DEF Init
  <2>2. main \in MainStates /\ wg \in -1 .. 1
    BY DEF Init, MainStates
  <2>3. dir \in SUBSET Entries
    BY DEF Init
  <2> QED
    BY <2>1, <2>2, <2>3 DEF Init, TypeOK
<1>2. WaitGroupInv /\ PartialFolderInv /\ FinalArchiveIsIntact /\ CleanWhenDone /\ CompletedInv
  BY DEF Init, WaitGroupInv, PartialFolderInv, FinalArchiveIsIntact, CleanWhenDone, CompletedInv
<1> QED
  BY <1>1, <1>2 DEF SenderInv

\* The main thread's steps keep the inductive invariant.
LEMMA SendLogsStep == SenderInv /\ SendLogs => SenderInv'
<1> SUFFICES ASSUME SenderInv, SendLogs
             PROVE  SenderInv'
    OBVIOUS
<1> USE DEF SenderInv, TypeOK, WaitGroupInv, PartialFolderInv, FinalArchiveIsIntact,
            CleanWhenDone, CompletedInv, Entries, MainStates, Collecting, Report
<1>1. CASE getMountLogs \/ getJournalLogs \/ GatherErrorLogs
  <2>1. dir' \in SUBSET Entries /\ ("partial" \in dir' => "partial" \in dir)
    BY <1>1, Zenon DEF getMountLogs, getJournalLogs, GatherErrorLogs, Collects
  <2>2. failed' \in BOOLEAN
    BY <1>1, Zenon DEF getMountLogs, getJournalLogs, GatherErrorLogs, Collects
  <2>3. CASE getMountLogs
    BY <2>1, <2>2, <2>3 DEF getMountLogs
  <2>4. CASE getJournalLogs
    BY <2>1, <2>2, <2>4 DEF getJournalLogs
  <2>5. CASE GatherErrorLogs
    BY <2>1, <2>2, <2>5 DEF GatherErrorLogs
  <2> QED
    BY <1>1, <2>3, <2>4, <2>5, Zenon
<1>2. CASE StartPartial
  BY <1>2 DEF StartPartial
<1>3. CASE AddPartial
  BY <1>3 DEF AddPartial
<1>4. CASE GatherInstallerLogs
  <2>1. dir' \in SUBSET Entries /\ ("partial" \in dir' => "partial" \in dir)
    BY <1>4, Zenon DEF GatherInstallerLogs
  <2>2. failed' \in BOOLEAN
    BY <1>4, Zenon DEF GatherInstallerLogs
  <2> QED
    BY <1>4, <2>1, <2>2 DEF GatherInstallerLogs
<1>5. CASE CancelPartial
  BY <1>5 DEF CancelPartial
<1>6. CASE WaitPartial
  BY <1>6 DEF WaitPartial
<1>7. CASE WriteReport
  BY <1>7 DEF WriteReport
<1>8. CASE FinalTar
  BY <1>8 DEF FinalTar
<1>9. CASE FinalArchive
  <2>1. CASE archive' = dir /\ main' = "upload"
    <3>1. archive' \in (SUBSET Entries) \cup {NoFile, Torn} /\ archive' = dir'
      BY <1>9, <2>1 DEF FinalArchive
    <3>2. partial' \in {"none", "ended"} /\ progress' # "completed"
      BY <1>9 DEF FinalArchive
    <3> QED
      BY <1>9, <2>1, <3>1, <3>2 DEF FinalArchive
  <2>2. CASE main' = "clean" /\ UNCHANGED archive
    BY <1>9, <2>2 DEF FinalArchive
  <2> QED
    BY <1>9, <2>1, <2>2, Zenon DEF FinalArchive
<1>10. CASE FinalUpload
  <2>1. uploaded' \in (SUBSET Entries) \cup {NoFile, Torn}
    BY <1>10, Zenon DEF FinalUpload
  <2>2. progress' \in {"none", "requested", "collecting", "completed"}
    BY <1>10 DEF FinalUpload
  <2>3. main = "upload" /\ main' = "clean"
        /\ UNCHANGED <<gathers, bootstrap, clean, partial, wg, cancelled, failed, dir, archive>>
    BY <1>10 DEF FinalUpload
  <2> QED
    BY <2>1, <2>2, <2>3
<1>11. CASE CleanUp
  BY <1>11 DEF CleanUp, Leaving, Left
<1> QED
  BY <1>1, <1>2, <1>3, <1>4, <1>5, <1>6, <1>7, <1>8, <1>9, <1>10, <1>11, Zenon DEF SendLogs

\* The steps of the partial collection keep the inductive invariant.
LEMMA PartialStep == SenderInv /\ CollectPartialLogs => SenderInv'
<1> SUFFICES ASSUME SenderInv, CollectPartialLogs
             PROVE  SenderInv'
    OBVIOUS
<1> USE DEF SenderInv, TypeOK, WaitGroupInv, PartialFolderInv, FinalArchiveIsIntact,
            CleanWhenDone, CompletedInv, Entries, MainStates, Collecting, Report, Ended
<1>0. ~Ended
  BY DEF CollectPartialLogs
<1>1. CASE PartialFolder
  <2>1. dir' \in SUBSET Entries /\ (partial' \in {"none", "start", "ended"} => dir' = dir)
    BY <1>1, Zenon DEF PartialFolder, Done
  <2>2. CASE partial' = "select"
    BY <1>0, <1>1, <2>1, <2>2 DEF PartialFolder, Done
  <2>3. CASE Done /\ UNCHANGED dir
    BY <1>0, <1>1, <2>3 DEF PartialFolder, Done
  <2> QED
    BY <1>1, <2>2, <2>3, Zenon DEF PartialFolder
<1>2. CASE PartialCancelled
  BY <1>0, <1>2 DEF PartialCancelled, Done
<1>3. CASE PartialTick
  BY <1>0, <1>3 DEF PartialTick
<1>4. CASE PartialArchive
  <2>1. archive' \in (SUBSET Entries) \cup {NoFile, Torn}
    BY <1>4, Zenon DEF PartialArchive
  <2>2. main \notin {"upload", "done"}
    BY <1>0, <1>4 DEF PartialArchive
  <2> QED
    BY <1>0, <1>4, <2>1, <2>2 DEF PartialArchive
<1>5. CASE PartialUpload
  BY <1>0, <1>5 DEF PartialUpload
<1> QED
  BY <1>1, <1>2, <1>3, <1>4, <1>5, Zenon DEF CollectPartialLogs

\* Every step keeps the inductive invariant.
LEMMA SenderStep == SenderInv /\ [Next]_vars => SenderInv'
<1> SUFFICES ASSUME SenderInv, [Next]_vars
             PROVE  SenderInv'
    OBVIOUS
<1>1. CASE SendLogs
  BY <1>1, SendLogsStep
<1>2. CASE CollectPartialLogs
  BY <1>2, PartialStep
<1>3. CASE TimedOut
  BY <1>3 DEF TimedOut, Ended, SenderInv, TypeOK, WaitGroupInv, PartialFolderInv,
     FinalArchiveIsIntact, CleanWhenDone, CompletedInv, Entries, MainStates, Collecting
<1>4. CASE UNCHANGED vars
  BY <1>4 DEF vars, SenderInv, TypeOK, WaitGroupInv, PartialFolderInv,
     FinalArchiveIsIntact, CleanWhenDone, CompletedInv, Entries, MainStates, Collecting
<1> QED
  BY <1>1, <1>2, <1>3, <1>4 DEF Next

\* The inductive invariant holds in every reachable state.
THEOREM SenderInvariance == Spec => []SenderInv
BY SenderInit, SenderStep, PTL DEF Spec

\* The state of the sender stays within its type: the WaitGroup counts to one, and
\* below zero only where it panics.
THEOREM SenderTypeCorrect == Spec => []TypeOK
<1>1. SenderInv => TypeOK
  BY DEF SenderInv
<1> QED
  BY <1>1, SenderInvariance, PTL

\* The final upload of SendLogs sends the directory as the final tar read it,
\* however the two threads interleave and whichever of their commands and calls fail.
THEOREM FinalLogsSafety == Spec => []FinalArchiveIsIntact
<1>1. SenderInv => FinalArchiveIsIntact
  BY DEF SenderInv
<1> QED
  BY <1>1, SenderInvariance, PTL

\* The final logs hold no bundle of the partial collection.
THEOREM PartialSafety == Spec => []NoPartialInFinal
<1>1. SenderInv => NoPartialInFinal
  BY DEF SenderInv, FinalArchiveIsIntact, NoPartialInFinal, WaitGroupInv, PartialFolderInv
<1> QED
  BY <1>1, SenderInvariance, PTL

\* A sender that ends under CleanWhenDone leaves neither directory nor archive.
THEOREM CleanUpSafety == Spec => []CleanWhenDone
<1>1. SenderInv => CleanWhenDone
  BY DEF SenderInv
<1> QED
  BY <1>1, SenderInvariance, PTL

\* After the report of completion no step sends the service anything.
THEOREM CompletionSafety == Spec => CompletedIsLast
<1>1. SenderInv /\ [Next]_vars => [progress = "completed" => UNCHANGED <<progress, uploaded>>]_vars
  <2> SUFFICES ASSUME SenderInv, Next, progress = "completed"
               PROVE  UNCHANGED <<progress, uploaded>>
    OBVIOUS
  <2>1. main \in {"clean", "done", "killed"} /\ (main \in {"clean", "done"} => partial \in {"none", "ended"})
    BY DEF SenderInv, CompletedInv, WaitGroupInv
  <2>2. CASE SendLogs
    BY <2>1, <2>2, Zenon DEF SendLogs, getMountLogs, getJournalLogs, GatherErrorLogs, StartPartial,
       AddPartial, GatherInstallerLogs, CancelPartial, WaitPartial, WriteReport, FinalTar, FinalArchive, FinalUpload, CleanUp, Leaving, Left
  <2>3. CASE CollectPartialLogs
    BY <2>1, <2>3 DEF CollectPartialLogs, Ended, PartialFolder, PartialCancelled,
       PartialTick, PartialArchive, PartialUpload
  <2>4. CASE TimedOut
    BY <2>4 DEF TimedOut
  <2> QED
    BY <2>2, <2>3, <2>4 DEF Next
<1> QED
  BY <1>1, SenderInvariance, PTL DEF Spec, CompletedIsLast
=============================================================================
