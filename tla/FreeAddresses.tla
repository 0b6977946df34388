---------------------------- MODULE FreeAddresses ----------------------------
(***************************************************************************)
(* free_addresses/free_addresses.go: the addresses of the requested        *)
(* networks that no host answers on.  A network is scanned with nmap, one  *)
(* subnetwork of at most 2^(Width - MinSubnetMaskSize) addresses at a      *)
(* time, until enough free addresses are known.  Hosts come and go between *)
(* the scans.  An address is a sequence of bytes; the code's bytes have 8  *)
(* bits and its addresses 4 bytes.                                         *)
(***************************************************************************)
EXTENDS Integers, Sequences, Functions, Sorting, Numbers

CONSTANTS
  ByteBits, IpBytes,
  MinSubnetMaskSize,   \* 22 in the code
  AddressLimit,        \* 8000 in the code
  FreeRequests         \* sequences of [ip, ones] networks

Base == PowerOf2(ByteBits)
Width == ByteBits * IpBytes
Ips == [0 .. IpBytes - 1 -> 0 .. Base - 1]

ASSUME FreeAssumption ==
  /\ ByteBits \in Nat \ {0} /\ IpBytes \in Nat \ {0}
  /\ MinSubnetMaskSize \in 1 .. Width /\ AddressLimit \in Nat
  /\ FreeRequests \subseteq Seq([ip : Ips, ones : 0 .. Width])

VARIABLES
  request,   \* the networks asked for
  at,        \* the subnetwork to scan next
  free,      \* the free addresses found, a sequence for each network
  up,        \* the addresses hosts answered on, a set for each network
  scan       \* "scanning", "ok" or "failed"

freeVars == <<request, at, free, up, scan>>

\* The number an address stands for.
Number(ip) == ValueOf(ip, Base, IpBytes)

\* The number of addresses of a network.
SizeOf(ones) == PowerOf2(Width - ones)

\* net.IPNet
InNetwork(network, ip) ==
  Number(ip) \div SizeOf(network.ones) = Number(network.ip) \div SizeOf(network.ones)
Canonical(network) == Number(network.ip) % SizeOf(network.ones) = 0
-----------------------------------------------------------------------------
\* A byte is incremented when every byte behind it overflows.
inc(ip) ==
  [j \in DOMAIN ip |->
     IF \A k \in j + 1 .. IpBytes - 1 : ip[k] = Base - 1 THEN (ip[j] + 1) % Base ELSE ip[j]]

\* Mutated form: the overflow of a byte is not carried.
IncSubnetByte(ip, mask) ==
  LET start == (mask - 1) \div ByteBits
      add == PowerOf2(ByteBits - 1 - ((mask - 1) % ByteBits))
  IN IF mask = 0 THEN ip ELSE [ip EXCEPT ![start] = (@ + add) % Base]

\* The address of the next subnetwork: the last bit of the mask is added to its
\* byte, and an overflow is carried to the bytes before.
incSubnet(ip, mask) ==
  LET start == (mask - 1) \div ByteBits
      add == PowerOf2(ByteBits - 1 - ((mask - 1) % ByteBits))
      sum == (ip[start] + add) % Base
      carried(j) == j < start /\ sum < ip[start] /\ \A k \in j + 1 .. start - 1 : ip[k] = Base - 1
  IN IF mask = 0 THEN ip
     ELSE [j \in DOMAIN ip |-> CASE j = start -> sum
                                 [] carried(j) -> (ip[j] + 1) % Base
                                 [] OTHER -> ip[j]]

\* The addresses of a subnetwork that are not occupied, from ip on.
FreeFrom(ip, subnet, occupied) ==
  LET step[n \in 0 .. SizeOf(subnet.ones)] == IF n = 0 THEN ip ELSE inc(step[n - 1])
      inside == [n \in 1 .. SizeOf(subnet.ones) |-> step[n - 1]]
  IN Selected(inside, {n \in DOMAIN inside : /\ InNetwork(subnet, inside[n])
                                             /\ inside[n] \notin occupied})
-----------------------------------------------------------------------------
FreeInit ==
  /\ request \in FreeRequests
  /\ at = IF request = <<>> THEN [j \in 0 .. IpBytes - 1 |-> 0] ELSE request[1].ip
  /\ free = <<>>
  /\ up = <<>>
  /\ scan = "scanning"

Network == request[Len(free)]
Mask == IF Network.ones < MinSubnetMaskSize THEN MinSubnetMaskSize ELSE Network.ones
Scanning == scan = "scanning" /\ free # <<>>
MoreToScan == InNetwork(Network, at) /\ Len(free[Len(free)]) < AddressLimit

\* GetFreeAddresses goes to the next network; one that is not written with its
\* own address ends the step.
scanNetwork ==
  /\ scan = "scanning"
  /\ free # <<>> => ~MoreToScan
  /\ Len(free) < Len(request)
  /\ LET network == request[Len(free) + 1]
     IN /\ scan' = IF Canonical(network) THEN "scanning" ELSE "failed"
        /\ at' = network.ip
        /\ free' = Append(free, <<>>)
        /\ up' = Append(up, {})
  /\ UNCHANGED request

\* nmap says which addresses of the subnetwork belong to a host that is up.
scanSubNetwork ==
  LET subnet == [ip |-> at, ones |-> Mask]
      members == {a \in Ips : InNetwork(subnet, a)}
  IN /\ Scanning
     /\ MoreToScan
     /\ \/ /\ Canonical(subnet)
           /\ \E occupied \in SUBSET members :
                /\ free' = [free EXCEPT ![Len(free)] = @ \o FreeFrom(at, subnet, occupied)]
                /\ up' = [up EXCEPT ![Len(free)] = @ \cup occupied]
           /\ at' = incSubnet(at, Mask)
           /\ UNCHANGED scan
        \/ scan' = "failed" /\ UNCHANGED <<at, free, up>>
     /\ UNCHANGED request

GetFreeAddresses ==
  /\ scan = "scanning"
  /\ Len(free) = Len(request)
  /\ free # <<>> => ~MoreToScan
  /\ scan' = "ok"
  /\ UNCHANGED <<request, at, free, up>>

FreeNext == scanNetwork \/ scanSubNetwork \/ GetFreeAddresses
-----------------------------------------------------------------------------
(***************************************************************************)
(* Of every network that is reported, each address is accounted for: no    *)
(* address is listed twice, none lies outside the network or was seen in   *)
(* use, and if fewer than AddressLimit are listed then every other address *)
(* of the network was in use when its subnetwork was scanned, whatever     *)
(* bytes the subnetworks straddle (scanNetwork, incSubnet, inc).  The      *)
(* whole address space is excepted: it has no address behind it at which   *)
(* its scan would end, so it starts again, and may list an address twice.  *)
(***************************************************************************)
EveryAddressIsAccounted ==
  scan = "ok" => \A n \in DOMAIN request : request[n].ones > 0 =>
    LET listed == {free[n][i] : i \in DOMAIN free[n]}
        members == {a \in Ips : InNetwork(request[n], a)}
    IN /\ IsInjective(free[n])
       /\ listed \cap up[n] = {} /\ listed \cup up[n] \subseteq members
       /\ Len(free[n]) < AddressLimit => listed \cup up[n] = members

(***************************************************************************)
(* Every scan ends, also that of the last network of the address space,    *)
(* behind which the addresses start again.                                 *)
(***************************************************************************)
FreeScanEnds == <>(scan # "scanning")
=============================================================================
