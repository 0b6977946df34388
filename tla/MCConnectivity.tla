---------------------------- MODULE MCConnectivity ----------------------------
(***************************************************************************)
(* Small requests for ConnectivityRunner, with the checks of               *)
(* ConnectivityCheckers.                                                   *)
(***************************************************************************)
EXTENDS ConnectivityRunner, ConnectivityOrder

Addr4(net) == [isIPNet |-> TRUE, linkLocal |-> FALSE, v4 |-> TRUE, net |-> net]
Addr6(net) == [isIPNet |-> TRUE, linkLocal |-> FALSE, v4 |-> FALSE, net |-> net]
LinkLocal  == [isIPNet |-> TRUE, linkLocal |-> TRUE, v4 |-> FALSE, net |-> {}]
Odd        == [isIPNet |-> FALSE, linkLocal |-> FALSE, v4 |-> FALSE, net |-> {}]

Interface(name, kind, mtuSize, addrs) ==
  [name |-> name, kind |-> kind, mtu |-> mtuSize, addrs |-> addrs]

Jumbo    == Interface(1, "physical", 9000, <<LinkLocal, Addr4({1, 2})>>)
Vlan     == Interface(2, "vlan", 1500, <<Addr4({1})>>)
Dual     == Interface(3, "bond", 9000, <<Addr6({3}), Odd>>)
Enslaved == Interface(4, "physical", 9000, <<LinkLocal>>)
Virtual  == Interface(5, "veth", 1500, <<Addr4({1})>>)

Remote(id, nics) == [id |-> id, nics |-> nics]
Nic(mac, ips) == [mac |-> mac, ips |-> ips]

Request(dry, hosts, interfaces) == [dry |-> dry, hosts |-> hosts, interfaces |-> interfaces]

\* A dry run on two hosts that come in descending order, one with an empty
\* address; hosts without any local NIC, one without addresses, one whose address
\* does not parse; one host over IPv4 and over IPv6; a dry run over two NICs.
SmallRequests ==
  {Request(TRUE, <<Remote(2, <<Nic(1, <<2, 0>>)>>), Remote(1, <<Nic(2, <<1>>)>>)>>, <<Jumbo, Virtual>>),
   Request(FALSE, <<Remote(2, <<Nic(1, <<2>>), Nic(2, <<1>>)>>), Remote(1, <<>>)>>, <<Enslaved>>),
   Request(FALSE, <<Remote(1, <<Nic(1, <<4>>)>>)>>, <<Jumbo>>),
   Request(FALSE, <<Remote(1, <<Nic(1, <<1>>)>>)>>, <<Jumbo>>),
   Request(FALSE, <<Remote(1, <<Nic(1, <<3>>)>>)>>, <<Dual>>),
   Request(TRUE, <<Remote(1, <<Nic(1, <<1>>)>>)>>, <<Jumbo, Vlan>>)}

SmallUnfoldings == {Unfolded(r) : r \in SmallRequests}
=============================================================================
