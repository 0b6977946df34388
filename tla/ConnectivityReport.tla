-------------------------- MODULE ConnectivityReport --------------------------
(***************************************************************************)
(* What the connectivity_check step promises: it makes every check of the  *)
(* request once, and its reply lists, host by host and in the order of     *)
(* their ids, what each check of that host reported, nothing left out and  *)
(* nothing twice.  Goroutines and channels do not appear.                  *)
(***************************************************************************)
EXTENDS Sorting

CONSTANTS
  Requests,      \* the requests the service may make: their hosts' ids and checks
  Check(_),      \* the reporters a check may return
  Summary(_, _), \* what a host's reporters make of its part of the reply
  NoReporter,    \* the nil of a check that has nothing to report
  Pending,       \* a check that was not made yet
  NoReply        \* the reply before there is one

Hosts(r) == DOMAIN r.jobs
Checks(r, h) == 1 .. Len(r.jobs[h])

ASSUME RequestsAssumption ==
  \A r \in Requests :
    /\ Len(r.jobs) \in Nat /\ Hosts(r) = 1 .. Len(r.jobs)
    /\ \A h \in Hosts(r) :
         /\ Len(r.jobs[h]) \in Nat
         /\ \A i \in Checks(r, h) : Pending \notin Check(r.jobs[h][i])
ASSUME PendingAssumption == Pending # NoReporter

VARIABLES
  request,   \* what the service asked for
  found,     \* the reporter of every check that was made
  reply      \* the report

\* The checks of a host that have something to report.
Reporting(r, f, h) == {i \in Checks(r, h) : f[h][i] \notin {Pending, NoReporter}}

\* One host of the reply, its reporters having arrived in this order.
RemoteHost(r, f, h, order) ==
  [id |-> r.ids[h],
   report |-> Summary(r.dry, [n \in DOMAIN order |-> f[h][order[n]]])]

ById(hosts) == {p \in Pairs(hosts) : hosts[p[1]].id < hosts[p[2]].id}
SortedById(hosts) == StableSort(hosts, ById(hosts))

Init ==
  /\ request \in Requests
  /\ found = [h \in Hosts(request) |-> [i \in Checks(request, h) |-> Pending]]
  /\ reply = NoReply

Find(h, i) ==
  /\ found[h][i] = Pending
  /\ \E reporter \in Check(request.jobs[h][i]) :
       found' = [found EXCEPT ![h][i] = reporter]
  /\ UNCHANGED <<request, reply>>

Answer ==
  /\ reply = NoReply
  /\ \A h \in Hosts(request) : \A i \in Checks(request, h) : found[h][i] # Pending
  /\ \E collected \in Orders(Hosts(request)),
        arrived \in [Hosts(request) -> UNION {Orders(Reporting(request, found, h)) :
                                                h \in Hosts(request)}] :
       /\ \A h \in Hosts(request) : arrived[h] \in Orders(Reporting(request, found, h))
       /\ reply' = SortedById([n \in DOMAIN collected |->
                                 RemoteHost(request, found, collected[n], arrived[collected[n]])])
  /\ UNCHANGED <<request, found>>

Next ==
  \/ \E h \in Hosts(request) : \E i \in Checks(request, h) : Find(h, i)
  \/ Answer

Spec == Init /\ [][Next]_<<request, found, reply>>
=============================================================================
