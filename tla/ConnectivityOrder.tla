--------------------------- MODULE ConnectivityOrder ---------------------------
(***************************************************************************)
(* The report of the connectivity_check step with the checks of            *)
(* ConnectivityCheckers: in which order a reply lists the hosts and what   *)
(* was found of each.                                                      *)
(***************************************************************************)
EXTENDS ConnectivityReport, ConnectivityCheckers

\* The checks of a request are those JobsOfHost makes.
ASSUME JobsAssumption ==
  \A r \in Requests : \A h \in Hosts(r) :
    /\ r.ids[h] \in Nat
    /\ \A i \in Checks(r, h) :
         LET job == r.jobs[h][i]
         IN /\ \E k \in DOMAIN checkers(r.dry) : job.checker = checkers(r.dry)[k]
            /\ job.ip \in Nat /\ job.nic.name \in Nat

\* The reporters and the report are those of the checkers.
RealChecks ==
  /\ \A job : Check(job) = CheckJob(job)
  /\ \A dry, reporters : Summary(dry, reporters) = HostReport(dry, reporters)

InOrder(s, less) == \A m, n \in 1 .. Len(s) : m < n => <<n, m>> \notin less
Increases(s, less) == \A m, n \in 1 .. Len(s) : m < n => <<m, n>> \in less

IdsDiffer(r) == \A g, h \in Hosts(r) : g # h => r.ids[g] # r.ids[h]
PingsDiffer(r) ==
  \A h \in Hosts(r) : \A i, j \in Checks(r, h) :
    i # j /\ r.jobs[h][i].checker = "ping" /\ r.jobs[h][j].checker = "ping"
    => r.jobs[h][i].ip # r.jobs[h][j].ip

(***************************************************************************)
(* The reply does not depend on the order in which the checks of a real    *)
(* run return, as far as addresses tell the entries apart: the hosts are   *)
(* in the order of their ids, the results of a host for ping and the MTU   *)
(* in that of the addresses, the layer 2 results in that of address and    *)
(* MAC.  Only what the request itself asks twice can come twice: hosts     *)
(* with one id, or pings to one address (Run, Finalize).                   *)
(***************************************************************************)
OrderIsFixed ==
  reply # NoReply /\ ~request.dry =>
    /\ InOrder(reply, ById(reply))
    /\ IdsDiffer(request) => Increases(reply, ById(reply))
    /\ \A n \in 1 .. Len(reply) :
         LET r == reply[n].report
         IN /\ InOrder(r.L3, ByIP(r.L3)) /\ InOrder(r.MTU, ByIP(r.MTU))
            /\ InOrder(r.L2, ByIPAndMac(r.L2))
            /\ PingsDiffer(request) => Increases(r.L3, ByIP(r.L3))
=============================================================================
