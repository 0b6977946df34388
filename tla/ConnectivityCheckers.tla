------------------------- MODULE ConnectivityCheckers -------------------------
(***************************************************************************)
(* The checks of the connectivity_check step, as operators: which checks a *)
(* request gives rise to, and what one check may report.  A remote address *)
(* or a MAC is a number, in the order in which the report is sorted;       *)
(* address 0 is the empty string.  What a command (ping, arping, nmap)     *)
(* answers is left open: CheckJob is the set of the possible reporters.    *)
(***************************************************************************)
EXTENDS Sorting

CONSTANTS
  V4, V6,    \* remote addresses that parse as IPv4, as IPv6
  Macs       \* MAC addresses that may answer

ASSUME AddressesAssumption ==
  /\ V4 \cup V6 \cup Macs \subseteq Nat \ {0} /\ V4 \cap V6 = {}
  /\ IsFiniteSet(Macs)
-----------------------------------------------------------------------------
\* analyzeAddress: an address of a local NIC that counts.
UsableAddress(a) == a.isIPNet /\ ~a.linkLocal

HasIpv4(nic) == \E i \in DOMAIN nic.addrs : UsableAddress(nic.addrs[i]) /\ nic.addrs[i].v4
HasIpv6(nic) == \E i \in DOMAIN nic.addrs : UsableAddress(nic.addrs[i]) /\ ~nic.addrs[i].v4

\* The NICs the host may check from; none if they cannot be listed.
getOutgoingNics(interfaces) ==
  SelectSeq(interfaces, LAMBDA nic : /\ nic.kind \in {"physical", "bond", "vlan"}
                                     /\ HasIpv4(nic) \/ HasIpv6(nic))

checkers(dry) == IF dry THEN <<"dryL2", "dryL3">> ELSE <<"ping", "arping", "nmap", "mtu">>

\* Features() & OutgoingNicFeature
UsesOutgoingNic(checker) == checker \notin {"ping", "dryL3"}

getAllMacAddresses(host) == {host.nics[n].mac : n \in DOMAIN host.nics}

NoNic == [name |-> 0, kind |-> "none", mtu |-> 0, addrs |-> <<>>]

\* The checks of one remote address: per outgoing NIC, then those without one.
JobsOfAddress(dry, host, mac, ip, outgoing) ==
  LET on(nic, chosen) ==
        [k \in 1 .. Len(chosen) |->
           [checker |-> chosen[k], ip |-> ip, mac |-> mac, nic |-> nic,
            macs |-> getAllMacAddresses(host)]]
      withNic    == SelectSeq(checkers(dry), UsesOutgoingNic)
      withoutNic == SelectSeq(checkers(dry), LAMBDA c : ~UsesOutgoingNic(c))
  IN Joined([n \in 1 .. Len(outgoing) |-> on(outgoing[n], withNic)])
     \o on(NoNic, withoutNic)

\* The checks ProcessHost starts for a host; an address that is empty has none.
JobsOfHost(dry, host, outgoing) ==
  LET ofAddress(nic, ip) ==
        IF ip = 0 THEN <<>> ELSE JobsOfAddress(dry, host, nic.mac, ip, outgoing)
      ofNic(nic) == Joined([a \in 1 .. Len(nic.ips) |-> ofAddress(nic, nic.ips[a])])
  IN Joined([n \in 1 .. Len(host.nics) |-> ofNic(host.nics[n])])
-----------------------------------------------------------------------------
\* A reporter carries entries of one of the three lists of a host; a check that
\* returns nil has none.
NilReporter == [list |-> "none", entries |-> <<>>]
Reporter(list, entries) == [list |-> list, entries |-> entries]

Entry(job, mac, ok) == [nic |-> job.nic.name, ip |-> job.ip, mac |-> mac, ok |-> ok]

\* pingChecker reports whatever ping says.
ping(job) == {Reporter("L3", <<Entry(job, 0, ok)>>) : ok \in BOOLEAN}

\* arpingChecker runs the command on the first address of the NIC whose network
\* holds the remote address, unless one before it cannot be parsed.
arpingRuns(job) ==
  /\ job.ip \in V4 /\ HasIpv4(job.nic)
  /\ \E i \in DOMAIN job.nic.addrs :
       /\ job.ip \in job.nic.addrs[i].net
       /\ \A j \in 1 .. i : job.nic.addrs[j].isIPNet

\* One entry for each MAC that answered, in the order of a Go map; a command that
\* failed (exit code 1 apart) or printed something else reports nothing.
arping(job) ==
  LET answer(mac) == Entry(job, mac, mac \in job.macs)
  IN IF ~arpingRuns(job) THEN {NilReporter}
     ELSE {NilReporter} \cup
          {Reporter("L2", [n \in DOMAIN order |-> answer(order[n])])
             : order \in UNION {Orders(replies) : replies \in SUBSET Macs}}

\* nmapChecker takes the first MAC of the first host that is up.
nmap(job) ==
  IF job.ip \in V4 \/ ~HasIpv6(job.nic) THEN {NilReporter}
  ELSE {NilReporter} \cup
       {Reporter("L2", <<Entry(job, mac, mac \in job.macs)>>) : mac \in Macs}

defaultMTUThreshold == 1500

\* mtuChecker pings twice from every address of the remote address's family: no
\* report if the first ping fails, a failure if the one of full size does or an
\* address is of another kind, a success once the addresses are through.
mtu(job) ==
  LET addrs    == job.nic.addrs
      result(ok) == Reporter("MTU", <<Entry(job, 0, ok)>>)
      broken   == {i \in DOMAIN addrs : ~addrs[i].isIPNet}
      pings    == \E i \in DOMAIN addrs : /\ \A b \in broken : i < b
                                          /\ addrs[i].v4 = (job.ip \in V4)
  IN IF job.ip \notin V4 \cup V6 THEN {result(FALSE)}
     ELSE IF job.nic.mtu = defaultMTUThreshold THEN {NilReporter}
     ELSE {result(broken = {})} \cup (IF pings THEN {NilReporter, result(FALSE)} ELSE {})

\* The checkers of a dry run always succeed.
dryL2(job) == {Reporter("L2", <<Entry(job, job.mac, TRUE)>>)}
dryL3(job) == {Reporter("L3", <<Entry(job, 0, TRUE)>>)}

\* What the check of a job may return.
CheckJob(job) ==
  CASE job.checker = "ping"   -> ping(job)
    [] job.checker = "arping" -> arping(job)
    [] job.checker = "nmap"   -> nmap(job)
    [] job.checker = "mtu"    -> mtu(job)
    [] job.checker = "dryL2"  -> dryL2(job)
    [] job.checker = "dryL3"  -> dryL3(job)
-----------------------------------------------------------------------------
ByIP(s) == {p \in Pairs(s) : s[p[1]].ip < s[p[2]].ip}
ByIPAndMac(s) ==
  ByIP(s) \cup {p \in Pairs(s) : s[p[1]].ip = s[p[2]].ip /\ s[p[1]].mac < s[p[2]].mac}

\* Report of every reporter in the order of arrival: three lists of entries.
Reported(reporters) ==
  LET of(list) == Joined([n \in DOMAIN reporters |->
                            IF reporters[n].list = list THEN reporters[n].entries ELSE <<>>])
  IN [L2 |-> of("L2"), L3 |-> of("L3"), MTU |-> of("MTU")]

\* Mutant of Finalize: the results of ping stay in the order of arrival.
FinalizeWithoutPing(dry, r) ==
  [L2  |-> StableSort(r.L2, ByIPAndMac(r.L2)),
   L3  |-> r.L3,
   MTU |-> StableSort(r.MTU, ByIP(r.MTU))]

\* Finalize of every checker: dryL3Checker and nmapChecker sort nothing.
Finalize(dry, r) ==
  [L2  |-> StableSort(r.L2, ByIPAndMac(r.L2)),
   L3  |-> IF dry THEN r.L3 ELSE StableSort(r.L3, ByIP(r.L3)),
   MTU |-> StableSort(r.MTU, ByIP(r.MTU))]

\* The lists of a host whose reporters arrived in this order.
HostReport(dry, reporters) == Finalize(dry, Reported(reporters))

\* arpingChecker: an error of the command that is no ExitError (it could not be
\* started) fails the type assertion.
MayFailAssertion(job) == job.checker = "arping" /\ arpingRuns(job)

\* A request as the loops of ProcessHost unfold it: the hosts, by number, their
\* ids and their checks.
Unfolded(r) ==
  [dry  |-> r.dry,
   ids  |-> [h \in 1 .. Len(r.hosts) |-> r.hosts[h].id],
   jobs |-> [h \in 1 .. Len(r.hosts) |->
               JobsOfHost(r.dry, r.hosts[h], getOutgoingNics(r.interfaces))]]
=============================================================================
