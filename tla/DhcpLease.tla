------------------------------ MODULE DhcpLease ------------------------------
(***************************************************************************)
(* The dhcp_lease_allocate step: for the API and for the ingress address   *)
(* in turn, a macvlan interface with the requested MAC is created, a lease *)
(* file is prepared, dhclient adds to it, the interface is deleted again,  *)
(* and the file is read twice, for the address and for the text of the     *)
(* lease.  Interfaces and files are named after the address only, so steps *)
(* that overlap share them.                                                *)
(*                                                                         *)
(* Interfaces are the host's and outlive the process; the lease files are  *)
(* the container's and do not.                                             *)
(***************************************************************************)
EXTENDS Integers

CONSTANTS
  Steps,       \* instructions of the service that carry this step
  Macs,        \* MAC addresses
  Addresses,   \* what the DHCP server leases to one of them
  Asked,       \* what the steps may ask for: a set of functions from steps to requests
  MaxCrashes,  \* bound on the crashes of the process
  None         \* no file, interface or result

Names == {"api", "ingress"}
Requests == [macs : [Names -> Macs], sends : SUBSET Names]
Leases == [iface : Names \cup {"foreign"}, mac : Macs, address : Addresses]

ASSUME DhcpAssumption ==
  /\ MaxCrashes \in Nat
  /\ Asked \subseteq [Steps -> Requests]
  /\ None \notin Macs \cup Leases

VARIABLES
  asked,      \* per step: its request; "sends" are the names that come with a lease
  overlap,    \* whether the service sends one while another still runs
  server,     \* whether a DHCP server answers
  pc,         \* per step: where it is
  name,       \* per step: the address it leases
  failing,    \* per step: LeaseVIP returns an error
  vip,        \* per step and name: the address of its response
  lease,      \* per step and name: the lease of its response
  links,      \* per name: the MAC of the interface, if there is one
  file,       \* per name: the first and the last lease of the file, if there is one
  undeleted,  \* LinkDel failed at least once
  crashes     \* crashes of the process so far

inputs == <<asked, overlap, server>>
vars == <<inputs, pc, name, failing, vip, lease, links, file, undeleted, crashes>>

Ended == {"done", "failed", "dead"}
Active(s) == pc[s] \notin Ended \cup {"idle"}
-----------------------------------------------------------------------------
Init ==
  /\ asked \in Asked /\ overlap \in BOOLEAN /\ server \in BOOLEAN
  /\ pc = [s \in Steps |-> "idle"]
  /\ name = [s \in Steps |-> "api"]
  /\ failing = [s \in Steps |-> FALSE]
  /\ vip = [s \in Steps |-> [n \in Names |-> None]]
  /\ lease = [s \in Steps |-> [n \in Names |-> None]]
  /\ links = [n \in Names |-> None]
  /\ file = [n \in Names |-> None]
  /\ undeleted = FALSE /\ crashes = 0

Goto(s, where) == pc' = [pc EXCEPT ![s] = where]

\* LeaseVIP goes on, or returns its error through the deferred deleteInterface.
Proceed(s, where) == Goto(s, where) /\ UNCHANGED failing
Fail(s) == Goto(s, "delete") /\ failing' = [failing EXCEPT ![s] = TRUE]

\* Mutant of macOf: the MAC of the API address is used twice.
apiMac(s, n) == asked[s].macs["api"]

\* leaseByMac is called with the MAC of its address.
macOf(s, n) == asked[s].macs[n]

\* LeaseAllocate: the request is parsed and the folder of the files created.
LeaseAllocate(s) ==
  /\ pc[s] = "idle"
  /\ overlap \/ \A t \in Steps : ~Active(t)
  /\ Goto(s, "look") \/ Goto(s, "failed")
  /\ UNCHANGED <<inputs, name, failing, vip, lease, links, file, undeleted, crashes>>

\* LeaseInterface takes an interface of that name as it is, whatever its MAC ...
LookForLink(s) ==
  /\ pc[s] = "look"
  /\ IF links[name[s]] # None THEN Proceed(s, "write") ELSE Proceed(s, "add") \/ Fail(s)
  /\ UNCHANGED <<inputs, name, vip, lease, links, file, undeleted, crashes>>

\* ... or adds one, unless another step just did, ...
AddLink(s) ==
  /\ pc[s] = "add"
  /\ \/ Fail(s) /\ UNCHANGED links
     \/ /\ links[name[s]] = None
        /\ links' = [links EXCEPT ![name[s]] = macOf(s, name[s])]
        /\ Proceed(s, "up")
  /\ UNCHANGED <<inputs, name, vip, lease, file, undeleted, crashes>>

\* ... and brings it up, if it is still there.
SetUpLink(s) ==
  /\ pc[s] = "up"
  /\ Fail(s) \/ (links[name[s]] # None /\ Proceed(s, "write"))
  /\ UNCHANGED <<inputs, name, vip, lease, links, file, undeleted, crashes>>

\* Mutant of formatLeaseFile: the lease is written as it was sent.
asSent(contents, iface) == contents

\* formatLeaseFile: the lease is that of the interface.
formatLeaseFile(contents, iface) == [contents EXCEPT !.iface = iface]

\* LeaseVIP: a lease that the service sent replaces the file.
WriteLease(s) ==
  /\ pc[s] = "write"
  /\ IF name[s] \in asked[s].sends
     THEN \/ Fail(s) /\ UNCHANGED file
          \/ /\ \E a \in Addresses :
                  LET sent == [iface |-> "foreign", mac |-> macOf(s, name[s]), address |-> a]
                      l    == formatLeaseFile(sent, name[s])
                  IN  file' = [file EXCEPT ![name[s]] = [first |-> l, last |-> l]]
             /\ Proceed(s, "dhclient")
     ELSE Proceed(s, "dhclient") /\ UNCHANGED file
  /\ UNCHANGED <<inputs, name, vip, lease, links, undeleted, crashes>>

\* What dhclient leaves in the file: a new lease for the MAC of the interface from a
\* server that answers, or the file as it is when it goes on with a recorded lease.
Obtained(n) ==
  IF server
  THEN {LET l == [iface |-> n, mac |-> links[n], address |-> a]
        IN  [first |-> IF file[n] = None THEN l ELSE file[n].first, last |-> l] : a \in Addresses}
  ELSE {file[n]} \ {None}

\* Mutant of dhclient: it runs without a timeout.
dhclientWithoutTimeout(s) ==
  /\ pc[s] = "dhclient"
  /\ links[name[s]] # None
  /\ \E f \in Obtained(name[s]) : file' = [file EXCEPT ![name[s]] = f]
  /\ Proceed(s, "delete")
  /\ UNCHANGED <<inputs, name, vip, lease, links, undeleted, crashes>>

\* "timeout 28 dhclient -1", which may fail in any case.
dhclient(s) ==
  /\ pc[s] = "dhclient"
  /\ \/ Fail(s) /\ UNCHANGED file
     \/ /\ links[name[s]] # None
        /\ \E f \in Obtained(name[s]) : file' = [file EXCEPT ![name[s]] = f]
        /\ Proceed(s, "delete")
  /\ UNCHANGED <<inputs, name, vip, lease, links, undeleted, crashes>>

\* Mutant of deleteInterface: an error of LeaseInterface returns before the defer.
deleteOnSuccess(s) ==
  /\ pc[s] = "delete"
  /\ links' = [links EXCEPT ![name[s]] = IF failing[s] THEN @ ELSE None]
  /\ Goto(s, IF failing[s] THEN "failed" ELSE "read")
  /\ UNCHANGED <<inputs, name, failing, vip, lease, file, undeleted, crashes>>

\* The deferred deleteInterface, whose errors are logged only.
deleteInterface(s) ==
  /\ pc[s] = "delete"
  /\ \/ links' = [links EXCEPT ![name[s]] = None] /\ UNCHANGED undeleted
     \/ links[name[s]] # None /\ undeleted' = TRUE /\ UNCHANGED links
  /\ Goto(s, IF failing[s] THEN "failed" ELSE "read")
  /\ UNCHANGED <<inputs, name, failing, vip, lease, file, crashes>>

\* The other address, or the response.
NextName(s) ==
  /\ Goto(s, IF name[s] = "api" THEN "look" ELSE "done")
  /\ name' = [name EXCEPT ![s] = "ingress"]

\* leaseByMac: GetLastLeaseFromFile.  A lease of another interface is no error: the
\* address stays empty.
GetLastLease(s) ==
  /\ pc[s] = "read"
  /\ \/ Goto(s, "failed") /\ UNCHANGED <<name, vip>>
     \/ /\ file[name[s]] # None
        /\ file[name[s]].last.iface = name[s]
        /\ vip' = [vip EXCEPT ![s][name[s]] = file[name[s]].last]
        /\ Goto(s, "extract") /\ UNCHANGED name
     \/ /\ file[name[s]] # None
        /\ file[name[s]].last.iface # name[s]
        /\ NextName(s) /\ UNCHANGED vip
  /\ UNCHANGED <<inputs, failing, lease, links, file, undeleted, crashes>>

\* The lease at the end of the file.
lastLease(f) == f.last

\* extractLastLease reads the file again.
extractLastLease(s) ==
  /\ pc[s] = "extract"
  /\ \/ Goto(s, "failed") /\ UNCHANGED <<name, lease>>
     \/ /\ file[name[s]] # None
        /\ lease' = [lease EXCEPT ![s][name[s]] = lastLease(file[name[s]])]
        /\ NextName(s)
  /\ UNCHANGED <<inputs, failing, vip, links, file, undeleted, crashes>>

\* The process dies, and its container goes.
Crash ==
  /\ crashes < MaxCrashes
  /\ crashes' = crashes + 1
  /\ pc' = [s \in Steps |-> IF Active(s) THEN "dead" ELSE pc[s]]
  /\ file' = [n \in Names |-> None]
  /\ UNCHANGED <<inputs, name, failing, vip, lease, links, undeleted>>

StepAction(s) ==
  \/ LookForLink(s) \/ AddLink(s) \/ SetUpLink(s) \/ WriteLease(s) \/ dhclient(s)
  \/ deleteInterface(s) \/ GetLastLease(s) \/ extractLastLease(s)

Next == Crash \/ \E s \in Steps : LeaseAllocate(s) \/ StepAction(s)

Spec == Init /\ [][Next]_vars

\* Every system call returns, and dhclient is stopped by its timeout.
FairSpec == Spec /\ \A s \in Steps : WF_vars(StepAction(s))
-----------------------------------------------------------------------------
\* The type of the state.
TypeOK ==
  /\ asked \in [Steps -> Requests] /\ overlap \in BOOLEAN /\ server \in BOOLEAN
  /\ pc \in [Steps -> {"idle", "look", "add", "up", "write", "dhclient", "delete", "read",
                       "extract"} \cup Ended]
  /\ name \in [Steps -> Names]
  /\ failing \in [Steps -> BOOLEAN]
  /\ vip \in [Steps -> [Names -> Leases \cup {None}]]
  /\ lease \in [Steps -> [Names -> Leases \cup {None}]]
  /\ links \in [Names -> Macs \cup {None}]
  /\ file \in [Names -> [first : Leases, last : Leases] \cup {None}]
  /\ undeleted \in BOOLEAN
  /\ crashes \in 0 .. MaxCrashes

\* A step that succeeded gives both addresses, overlapping steps included: the way
\* out of leaseByMac that returns no address and no error is never taken, because
\* whatever is in the file of a name was made the lease of that interface.
NoEmptyVip == \A s \in Steps : pc[s] = "done" => \A n \in Names : vip[s][n] # None

SameMacs == \A s, t \in Steps : asked[s].macs = asked[t].macs

\* As long as the cluster keeps its MACs, the addresses of a response are those leased
\* to the requested MACs, whatever interface or file an earlier, dead or concurrent step
\* left.
VipIsForMac ==
  SameMacs => \A s \in Steps : pc[s] = "done" =>
                \A n \in Names : vip[s][n] # None => vip[s][n].mac = asked[s].macs[n]

\* With one step at a time, the lease of a response is the one of its address, although
\* the file is read twice and may hold others.
VipHasLease ==
  \A s \in Steps : ~overlap /\ pc[s] = "done" =>
    \A n \in Names : vip[s][n] # None => lease[s][n] = vip[s][n]

\* When no step runs, no interface is left of steps that ended by themselves, on whatever
\* way out and however they overlapped, unless deleting one failed.
LinksAreDeleted ==
  (\A s \in Steps : ~Active(s)) /\ crashes = 0 /\ ~undeleted => \A n \in Names : links[n] = None

\* A step that started ends, whether or not a DHCP server answers.
StepEnds == \A s \in Steps : Active(s) ~> pc[s] \in Ended
=============================================================================
