-------------------------------- MODULE Probes -------------------------------
(***************************************************************************)
(* The steps that ask the network a question for every item of a request:  *)
(*   vips     are the virtual addresses still unused                       *)
(*            (vips_verifier/vips_verifier.go)                             *)
(*   tang     do the Tang servers answer                                   *)
(*            (tang_connectivity_check/tang_connectivity_check.go)         *)
(*   domains  what do names resolve to                                     *)
(*            (domain_resolution/domain_resolution.go)                     *)
(*   apivip   does the API serve an ignition                               *)
(*            (apivip_check/apivip_check.go)                               *)
(* An item comes with what the network answers for it.  A reply has the    *)
(* items of stdout, in order, and the exit code; <<>> stands for a stdout  *)
(* that is empty or says no more than that the step failed.                *)
(***************************************************************************)
EXTENDS Integers, Sequences, FiniteSetsExt, Functions, Sorting

Reply(items, code) == [items |-> items, code |-> code]
FailedReply == Reply(<<>>, -1)
-----------------------------------------------------------------------------
\* nmap lists hosts, up or down, with the kinds of their addresses.
Answers(host) == host.up /\ \E i \in DOMAIN host.addrs : host.addrs[i] \in {"ipv4", "ipv6"}
verifyVip(item, dry) ==
  [vip |-> item.vip,
   free |-> dry \/ \A i \in DOMAIN item.hosts : ~Answers(item.hosts[i])]

\* Mutated form: a VIP nmap fails on is left out of the reply.
SkipFailedVips(items, dry) ==
  LET scanned == SelectSeq(items, LAMBDA i : dry \/ i.nmap)
  IN Reply([n \in DOMAIN scanned |-> verifyVip(scanned[n], dry)], 0)

\* A VIP nmap fails on ends the step: nothing is said of the others.
verifyVips(items, dry) ==
  IF ~dry /\ \E n \in DOMAIN items : ~items[n].nmap THEN FailedReply
  ELSE Reply([n \in DOMAIN items |-> verifyVip(items[n], dry)], 0)
-----------------------------------------------------------------------------
\* A server is asked when its URL parses and its thumbprint is set.
TangRequest(server) ==
  /\ server.url /\ server.thumbprint
  /\ server.answer = "keys"

\* One server that does not answer fails the whole step.
CheckTangConnectivity(servers) ==
  IF \E n \in DOMAIN servers : ~TangRequest(servers[n]) THEN FailedReply
  ELSE Reply([n \in DOMAIN servers |-> servers[n].name], 0)
-----------------------------------------------------------------------------
\* A name that is not found resolves to nothing; any other error also leaves
\* the resolution as far as it got.
handleDomainResolution(domain) ==
  LET found == IF domain.lookup = "ok" THEN domain.ips ELSE <<>>
  IN [name |-> domain.name,
      ipv4 |-> SelectSeq(found, LAMBDA ip : ip.family = 4),
      ipv6 |-> SelectSeq(found, LAMBDA ip : ip.family = 6),
      cnames |-> IF domain.lookup # "error" /\ domain.cname # "" THEN <<domain.cname>> ELSE <<>>]

\* A domain without a name ends the step.
RunDomainResolution(domains) ==
  IF \E n \in DOMAIN domains : domains[n].name = "" THEN FailedReply
  ELSE Reply([n \in DOMAIN domains |-> handleDomainResolution(domains[n])], 0)
-----------------------------------------------------------------------------
\* The files that tell the service how the cluster's network is managed.
Indications == <<"coredns.yaml", "keepalived.yaml", "kubeconfig">>

\* The first file of a path is copied.
copyIgnitionFile(files, name) ==
  LET found == {n \in DOMAIN files : files[n].path = name}
  IN IF found = {} THEN <<>> ELSE <<files[Min(found)]>>

\* Mutated form: the filtered files are added to the original ones.
KeepsFiles(ignition) ==
  [ignition EXCEPT !.units = <<>>,
                   !.files = @ \o Joined([n \in DOMAIN Indications |->
                                            copyIgnitionFile(ignition.files, Indications[n])])]

filterIgnition(ignition) ==
  [ignition EXCEPT !.units = <<>>,
                   !.files = Joined([n \in DOMAIN Indications |->
                                       copyIgnitionFile(ignition.files, Indications[n])])]

\* What the request brings back, or an error.
downloadIgnition(request) ==
  IF /\ request.certificate \in {"none", "ok"}
     /\ request.sent /\ request.body = "read"
     /\ request.status \in 200 .. 299
     /\ request.content \in {"json", "ignition"}
  THEN request.content ELSE "error"

\* A download that fails is an answer, with exit code 0.
CheckAPIConnectivity(request) ==
  IF ~request.url THEN FailedReply
  ELSE IF downloadIgnition(request) # "ignition" THEN Reply(<<>>, 0)
  ELSE Reply(<<filterIgnition(request.ignition)>>, 0)
=============================================================================
