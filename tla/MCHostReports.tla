---------------------------- MODULE MCHostReports ----------------------------
(***************************************************************************)
(* Small instances of the steps that look at a host: one kind of step is   *)
(* chosen at the start, and what belongs to the others has ended.          *)
(***************************************************************************)
EXTENDS HostReports, HostNetwork, FreeAddresses, NtpSynchronizer, DiskSpeed, TLC

VARIABLE kind
allVars == <<kind, reportVars, networkVars, freeVars, ntpVars, speedVars>>
-----------------------------------------------------------------------------
\* Disks: links, bus paths and nodes that lead to the same or other disks, and
\* one disk of every family with every state of its partitions and target.
Sd(name, bus) ==
  [name |-> name, family |-> "sd", bus |-> bus, transport |-> "ata", drive |-> "HDD",
   controller |-> "scsi", hidden |-> FALSE, dmUUID |-> "", dmName |-> "",
   discipline |-> Unreadable, ese |-> Unreadable, partitions |-> <<>>, state |-> Unreadable,
   target |-> Unreadable]
Link(name, prefix, target) ==
  [name |-> name, prefix |-> prefix, symlink |-> prefix # "wwn-file", target |-> target]

LinkedHosts ==
  {[block |-> <<Sd("sda", x), Sd("sdb", y)>>, nodes |-> nodes, byPath |-> links, ibft |-> {},
    byId |-> <<Link("w1", "wwn-", t), Link("w2", prefix, u)>>] :
     x, y \in {"b1", "b2", Unknown}, nodes \in SUBSET {"sda", "sdb"},
     links \in {<<>>, "b1" :> "sda", ("b1" :> "sda") @@ ("b2" :> "sdb")},
     t, u \in {"sda", "sdb", Unreadable}, prefix \in {"nvme-eui", "ata-"}}

Families ==
  {[Sd("sda", "b1") EXCEPT !.controller = c, !.family = f] :
     c \in {"scsi", "unknown"}, f \in {"sd", "md", "dasd", "loop"}}
    \cup {[Sd("dm-0", Unknown) EXCEPT !.family = "dm-", !.controller = "unknown",
                                      !.dmUUID = u, !.dmName = n] :
            u \in {"mpath-", "LVM-", ""}, n \in {"agent", "other"}}
    \cup {[Sd("sda", "b1") EXCEPT !.hidden = TRUE], [Sd("sda", "b1") EXCEPT !.drive = "ODD"],
          [Sd("sda", "b1") EXCEPT !.transport = "fc"]}
    \cup {[Sd("dasda", Unknown) EXCEPT !.family = "dasd", !.discipline = d, !.ese = e] :
            d \in {"ECKD", "FBA"}, e \in {"0", "1", Unreadable}}
IscsiDisks ==
  {[Sd("sda", "b1") EXCEPT !.transport = "iscsi", !.state = s, !.target = t] :
     s \in {"running", "offline", Unreadable}, t \in {"t1", "t2", Unreadable}}

Partitions == [label : {"agent", "root"}, mount : {"", "iso", "/"}]
OneDisk(disk, ibft) ==
  [block |-> <<disk>>, nodes |-> {disk.name}, byPath |-> <<>>, byId |-> <<>>, ibft |-> ibft]
SmallHosts ==
  LinkedHosts
    \cup {[OneDisk(d, {}) EXCEPT !.block = Unreadable] : d \in {Sd("sda", "b1")}}
    \cup {OneDisk([d EXCEPT !.partitions = p], {}) :
            d \in Families, p \in UNION {[1 .. n -> Partitions] : n \in 0 .. 2}}
    \cup {OneDisk([d EXCEPT !.partitions = p], ibft) :
            d \in IscsiDisks, p \in {<<>>, <<[label |-> "root", mount |-> "/"]>>},
            ibft \in {Unreadable, {}, {"t1"}}}
-----------------------------------------------------------------------------
\* Probes: requests of up to two items.
UpToTwo(S) == UNION {[1 .. n -> S] : n \in 0 .. 2}
NmapHosts == [up : BOOLEAN, addrs : {<<"ipv4">>, <<"mac", "ipv6">>, <<"mac">>}]
SmallVipRequests ==
  UpToTwo([vip : {"v1", "v2"}, nmap : BOOLEAN, hosts : {<<>>} \cup {<<h>> : h \in NmapHosts}])
SmallTangServers ==
  UpToTwo([name : {"t1", "t2"}, url : BOOLEAN, thumbprint : BOOLEAN,
           answer : {"keys", "status", "empty", "error"}])
SmallDomainRequests ==
  UpToTwo([name : {"", "d1", "d2"}, lookup : {"ok", "notfound", "error"},
           ips : {<<>>, <<[family |-> 4], [family |-> 6], [family |-> 4]>>}, cname : {"", "c"}])
Files == [path : {"coredns.yaml", "kubeconfig", "passwd"}, contents : {"a", "b"}]
SmallIgnitions ==
  [files : UNION {[1 .. n -> Files] : n \in 0 .. 3}, units : {<<"u">>}, luks : {"l"}, other : {"o"}]
ApiRequest(ignition) ==
  [url |-> TRUE, certificate |-> "none", sent |-> TRUE, body |-> "read", status |-> 200,
   content |-> "ignition", ignition |-> ignition]
SomeIgnition == [files |-> <<>>, units |-> <<>>, luks |-> "l", other |-> "o"]
SmallApiRequests ==
  {ApiRequest(i) : i \in SmallIgnitions}
    \cup [url : BOOLEAN, certificate : {"none", "ok", "bad"}, sent : BOOLEAN, body : {"read", "cut"},
          status : {199, 200, 299, 300}, content : {"empty", "html", "json", "ignition"},
          ignition : {SomeIgnition}]
-----------------------------------------------------------------------------
SmallCards ==
  {<<[name |-> 2, mac |-> 12], [name |-> 3, mac |-> 11]>>,
   <<[name |-> 2, mac |-> 11], [name |-> 3, mac |-> 12]>>}
SmallBoards == {[serial |-> "none", uuid |-> "zeroes"], [serial |-> "board", uuid |-> "zeroes"]}
Route(default, v6, advertised, ips, prefix) ==
  [default |-> default, v6 |-> v6, advertised |-> advertised, ips |-> ips, prefix |-> prefix]
SmallRoutes ==
  {<<Route(TRUE, TRUE, TRUE, {}, 0), Route(FALSE, TRUE, FALSE, {2}, 96),
     Route(FALSE, TRUE, TRUE, {3}, 64), Route(FALSE, TRUE, TRUE, {2, 3}, 48)>>}

\* The address of a number.
Ip(n) == [j \in 0 .. IpBytes - 1 |-> (n \div Base ^ (IpBytes - 1 - j)) % Base]
Subnet(n, ones) == [ip |-> Ip(n), ones |-> ones]

\* Networks within a byte, across bytes and at the end of the address space; one
\* that is not written with its own address.
SmallFreeRequests ==
  {<<>>, <<Subnet(48, 2)>>, <<Subnet(10, 5), Subnet(63, 6)>>, <<Subnet(9, 5)>>,
   <<Subnet(8, 3), Subnet(60, 4)>>}

SmallResolves == ("n1" :> {"a1", "a2"}) @@ ("n2" :> {"a2"}) @@ ("a1" :> {"a1"})
SmallNtpRequests ==
  {("s" :> <<"n1", "n2">>) @@ ("t" :> <<"a1">>), ("s" :> <<"n1">>) @@ ("t" :> <<"n1">>),
   ("s" :> <<>>) @@ ("t" :> <<"a1", "n1">>)}
SmallFioRequests ==
  {("s" :> "disk") @@ ("t" :> "disk"), ("s" :> "missing") @@ ("t" :> "empty")}
-----------------------------------------------------------------------------
\* The states of the machines that are not chosen.
ReportOff == step = "vips" /\ input = <<>> /\ reply = FailedReply
NetworkOff ==
  nics = <<>> /\ board = [serial |-> "board", uuid |-> ""] /\ routes = <<>> /\ hostname = "own"
FreeOff == request = <<>> /\ at = Ip(0) /\ free = <<>> /\ up = <<>> /\ scan = "ok"
NtpOff ==
  /\ wanted = [s \in NtpSteps |-> <<>>] /\ nth = [s \in NtpSteps |-> 1]
  /\ ntpPc = [s \in NtpSteps |-> "failed"] /\ seen = [s \in NtpSteps |-> {}]
  /\ sources = <<>> /\ refused = [s \in NtpSteps |-> {}] /\ ntpReply = [s \in NtpSteps |-> <<>>]
SpeedOff ==
  /\ path = [s \in FioSteps |-> "missing"] /\ speedPc = [s \in FioSteps |-> "done"]
  /\ owner = NoOwner /\ job = [j \in Jobs |-> "idle"] /\ outcome = [j \in Jobs |-> Failed]
  /\ responseCh = <<>> /\ reader = "ended" /\ maxLatency = -1
  /\ speedReply = [s \in FioSteps |-> <<>>]

Init ==
  /\ kind \in {"report", "network", "free", "ntp", "speed"}
  /\ IF kind = "report" THEN ReportInit ELSE ReportOff
  /\ IF kind = "network" THEN NetworkInit ELSE NetworkOff
  /\ IF kind = "free" THEN FreeInit ELSE FreeOff
  /\ IF kind = "ntp" THEN NtpInit ELSE NtpOff
  /\ IF kind = "speed" THEN SpeedInit ELSE SpeedOff

Next ==
  /\ UNCHANGED kind
  /\ \/ kind = "report" /\ ReportNext /\ UNCHANGED <<networkVars, freeVars, ntpVars, speedVars>>
     \/ kind = "network" /\ NetworkNext /\ UNCHANGED <<reportVars, freeVars, ntpVars, speedVars>>
     \/ kind = "free" /\ FreeNext /\ UNCHANGED <<reportVars, networkVars, ntpVars, speedVars>>
     \/ kind = "ntp" /\ NtpNext /\ UNCHANGED <<reportVars, networkVars, freeVars, speedVars>>
     \/ kind = "speed" /\ SpeedNext /\ UNCHANGED <<reportVars, networkVars, freeVars, ntpVars>>

\* A scan goes on as long as nmap answers; see SpeedFairness for the disk check.
Spec == Init /\ [][Next]_allVars /\ WF_freeVars(FreeNext) /\ SpeedFairness
=============================================================================
