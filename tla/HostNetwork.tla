----------------------------- MODULE HostNetwork -----------------------------
(***************************************************************************)
(* The network interfaces of a host as the inventory step reports them     *)
(* (inventory/interfaces.go, util/network.go, util/network_interface.go),  *)
(* and what is derived from them: the identity under which the agent       *)
(* registers the host (scanners/machine_uuid_scanner.go) and the name that *)
(* replaces a forbidden one (inventory/inventory.go).                      *)
(*                                                                         *)
(* The host changes while agents come and go: interfaces are joined to a   *)
(* bond and released, addresses are acquired, the kernel lists interfaces  *)
(* in another order.  Names, MAC addresses and addresses are numbers that  *)
(* keep the order of the strings.                                          *)
(***************************************************************************)
EXTENDS Integers, Sequences, FiniteSets, FiniteSetsExt, Sorting

CONSTANTS
  Cards,     \* the physical interfaces: [name, mac] records
  Bonds,     \* the bonds that may be set up: names
  Boards,    \* what the firmware says of the machine: [serial, uuid] records
  Routes6,   \* sequences of IPv6 routes
  NoMac      \* the empty MAC address, smaller than any other

\* The cards of a host have different names and a MAC address each.
ASSUME NetworkAssumption ==
  /\ NoMac \in Nat
  /\ Bonds \subseteq Nat
  /\ \A cards \in Cards :
       /\ cards \in Seq([name : Nat, mac : Nat])
       /\ \A i \in DOMAIN cards : cards[i].mac # NoMac
       /\ \A i, j \in DOMAIN cards : cards[i].name = cards[j].name => i = j
  /\ Routes6 \subseteq
       Seq([default : BOOLEAN, v6 : BOOLEAN, advertised : BOOLEAN, ips : SUBSET Nat, prefix : Nat])

VARIABLES
  nics,      \* the interfaces, in the order the kernel lists them
  board,     \* the firmware's serial number and UUID
  routes,    \* the IPv6 routes
  hostname   \* the name the host gave itself: "forbidden" or "own"

networkVars == <<nics, board, routes, hostname>>
-----------------------------------------------------------------------------
\* net.Interface and netlink.  An address has a family, a scope, a number and
\* a prefix length; perm is the address a member of a bond had before.
Card(c) ==
  [name |-> c.name, type |-> "physical", mac |-> c.mac, perm |-> NoMac, member |-> FALSE,
   linked |-> TRUE, addrs |-> <<>>]

Address(v4, scope, ip) == [v4 |-> v4, scope |-> scope, ip |-> ip, prefix |-> 128]

\* Mutated form: the address the interface has now.
CurrentMac(nic) == IF nic.linked THEN nic.mac ELSE NoMac

\* For the member of a bond, the address it had before it was joined.
getPermMacAddress(nic) ==
  IF ~nic.linked THEN NoMac
  ELSE IF nic.member /\ nic.perm # NoMac THEN nic.perm ELSE nic.mac

\* A virtual interface has the type of its link, and is left out when the link
\* cannot be looked up.
HasType(nic) == nic.type = "physical" \/ nic.linked

isUsableIPv6Route(route) == ~route.default /\ route.v6 /\ route.advertised

\* Mutated form: the prefix of the first advertised route.
FirstPrefix(address, known) ==
  LET usable == {r \in DOMAIN known : isUsableIPv6Route(known[r])}
  IN IF usable = {} THEN address ELSE [address EXCEPT !.prefix = known[Min(usable)].prefix]

\* The prefix of the first advertised route that contains the address.
SetV6Prefix(address, known) ==
  LET containing == {r \in DOMAIN known : isUsableIPv6Route(known[r]) /\ address.ip \in known[r].ips}
  IN IF containing = {} THEN address
     ELSE [address EXCEPT !.prefix = known[Min(containing)].prefix]

InterfaceRecord(nic, known) ==
  LET reported(v4) ==
        Selected(nic.addrs, {a \in DOMAIN nic.addrs :
                               nic.addrs[a].v4 = v4 /\ nic.addrs[a].scope # "link-local"})
      v6 == reported(FALSE)
  IN [name |-> nic.name, type |-> nic.type, mac |-> getPermMacAddress(nic),
      ipv4 |-> reported(TRUE),
      ipv6 |-> IF nic.linked THEN [i \in DOMAIN v6 |-> SetV6Prefix(v6[i], known)] ELSE v6]

getInterfaces(found, known) ==
  Selected([i \in DOMAIN found |-> InterfaceRecord(found[i], known)],
           {i \in DOMAIN found : HasType(found[i])})
-----------------------------------------------------------------------------
\* md5GenerateUUID: distinct texts have distinct UUIDs.
md5GenerateUUID(text) == <<"md5", text>>
FailureUUID == <<"failure">>
UnknownSerials == {"", "unknown", "none"}
UnknownUUIDs == {"", "unknown", "zeroes"}

ByMac(s) == {p \in Pairs(s) : s[p[1]].mac < s[p[2]].mac}

uuidFromNetworkInterfaces(interfaces) ==
  LET named == Selected(interfaces, {i \in DOMAIN interfaces : interfaces[i].mac # NoMac})
  IN IF named = <<>> THEN FailureUUID
     ELSE md5GenerateUUID(Head(StableSort(named, ByMac(named))).mac)

\* The board's serial number, else the system's UUID, else the smallest MAC.
ReadId(firmware, interfaces) ==
  IF firmware.serial \notin UnknownSerials THEN md5GenerateUUID(firmware.serial)
  ELSE IF firmware.uuid \notin UnknownUUIDs THEN <<"system", firmware.uuid>>
  ELSE uuidFromNetworkInterfaces(interfaces)

hasGlobalCIDR(addresses) == \E i \in DOMAIN addresses : addresses[i].scope = "global"

\* The interfaces a name may be taken from.
Usable(i) ==
  /\ i.type \in {"physical", "vlan", "bond"}
  /\ i.mac # NoMac
  /\ hasGlobalCIDR(i.ipv4) \/ hasGlobalCIDR(i.ipv6)

\* Mutated form: in the order the kernel lists them.
FirstListed(interfaces) ==
  Selected(interfaces, {i \in DOMAIN interfaces : Usable(interfaces[i])})

ByName(s) == {p \in Pairs(s) : s[p[1]].name < s[p[2]].name}

\* The interfaces a name may be taken from, sorted by name.
findUsableNIC(interfaces) ==
  LET sorted == StableSort(interfaces, ByName(interfaces))
  IN Selected(sorted, {i \in DOMAIN sorted : Usable(sorted[i])})

processInventory(name, interfaces) ==
  IF name = "forbidden" /\ findUsableNIC(interfaces) # <<>>
  THEN <<"mac", Head(findUsableNIC(interfaces)).mac>>
  ELSE <<name>>

-----------------------------------------------------------------------------
\* What a host reports that has these interfaces, routes, firmware and name.
IdOf(found, known, firmware) == ReadId(firmware, getInterfaces(found, known))
NameOf(found, known, name) == processInventory(name, getInterfaces(found, known))

Interfaces == getInterfaces(nics, routes)
Id == IdOf(nics, routes, board)
Name == NameOf(nics, routes, hostname)
NextId == IdOf(nics', routes', board')
NextName == NameOf(nics', routes', hostname')
-----------------------------------------------------------------------------
NetworkInit ==
  /\ nics \in {[i \in DOMAIN cards |-> Card(cards[i])] : cards \in Cards}
  /\ board \in Boards
  /\ routes \in Routes6
  /\ hostname \in {"forbidden", "own"}

Others == UNCHANGED <<board, routes, hostname>>

\* The host joins interfaces to a bond: they take the address of one of them.
Join(bond) ==
  \E joined \in SUBSET DOMAIN nics : \E i \in joined :
    LET mac == nics[i].mac
        member(n) == [nics[n] EXCEPT !.perm = nics[n].mac, !.mac = mac, !.member = TRUE, !.addrs = <<>>]
    IN /\ \A n \in joined : nics[n].type = "physical" /\ ~nics[n].member /\ nics[n].linked
       /\ \A n \in DOMAIN nics : nics[n].name # bond
       /\ nics' = Append([n \in DOMAIN nics |-> IF n \in joined THEN member(n) ELSE nics[n]],
                         [Card([name |-> bond, mac |-> mac]) EXCEPT !.type = "bond"])
       /\ Others

\* The host takes its bonds down.
Release ==
  /\ \E n \in DOMAIN nics : nics[n].type = "bond"
  /\ LET kept == Selected(nics, {n \in DOMAIN nics : nics[n].type # "bond"})
     IN nics' = [n \in DOMAIN kept |->
                   IF kept[n].member
                   THEN [kept[n] EXCEPT !.mac = kept[n].perm, !.perm = NoMac, !.member = FALSE]
                   ELSE kept[n]]
  /\ Others

\* An interface that is not a member of a bond acquires an address.
Acquire(n, address) ==
  /\ ~nics[n].member /\ nics[n].addrs = <<>>
  /\ nics' = [nics EXCEPT ![n].addrs = <<address>>]
  /\ Others

\* The kernel lists two interfaces the other way round.
Enumerate(i, j) ==
  /\ i < j
  /\ nics' = [nics EXCEPT ![i] = nics[j], ![j] = nics[i]]
  /\ Others

\* Looking the link of an interface up starts or stops to fail.
LookUp(n) == nics' = [nics EXCEPT ![n].linked = ~@] /\ Others

\* Addresses of every family and scope.
Addresses ==
  {Address(TRUE, scope, 1) : scope \in {"link-local", "global"}}
    \cup {Address(FALSE, "global", ip) : ip \in {2, 3}}

NetworkNext ==
  \/ \E bond \in Bonds : Join(bond)
  \/ Release
  \/ \E n \in DOMAIN nics, address \in Addresses : Acquire(n, address)
  \/ \E i, j \in DOMAIN nics : Enumerate(i, j)
  \/ \E n \in DOMAIN nics : LookUp(n)
-----------------------------------------------------------------------------
AllLinked == \A n \in DOMAIN nics : nics[n].linked

(***************************************************************************)
(* The identity the agent registers the host under does not change while   *)
(* interfaces are joined to bonds, released, renumbered or listed in       *)
(* another order, as long as their links can be looked up: an agent that   *)
(* restarts finds the same host (ReadId, getPermMacAddress).               *)
(***************************************************************************)
IdIsStable == [][AllLinked /\ AllLinked' => NextId = Id]_networkVars

(***************************************************************************)
(* The order in which the kernel lists the interfaces changes neither the  *)
(* identity nor the name of the host (findUsableNIC sorts by name,         *)
(* uuidFromNetworkInterfaces by MAC address).                              *)
(***************************************************************************)
Listed == {nics[n] : n \in DOMAIN nics}
OrderDoesNotMatter ==
  [][Listed' = Listed /\ Others => NextName = Name /\ NextId = Id]_networkVars

(***************************************************************************)
(* An IPv6 address that an advertised route covers is reported with the    *)
(* prefix of such a route, and any other with the prefix it had            *)
(* (SetV6PrefixesForAddress).                                              *)
(***************************************************************************)
PrefixIsAdvertised ==
  \A n \in DOMAIN Interfaces : \A a \in DOMAIN Interfaces[n].ipv6 :
    LET address == Interfaces[n].ipv6[a]
        covering == {r \in DOMAIN routes : isUsableIPv6Route(routes[r]) /\ address.ip \in routes[r].ips}
    IN IF AllLinked /\ covering # {} THEN \E r \in covering : address.prefix = routes[r].prefix
       ELSE AllLinked => address.prefix = 128

=============================================================================
