----------------------------- MODULE HostReports -----------------------------
(***************************************************************************)
(* One step that looks at the host or at the network and reports what it   *)
(* sees: the disks of the inventory, or one of the probes.                 *)
(***************************************************************************)
EXTENDS Disks, Probes

CONSTANTS Hosts, VipRequests, TangServers, DomainRequests, ApiRequests, NoReply

\* ghw and the requests give lists; no two links of a directory have the same name,
\* and only devices of the device mapper have a name and a UUID there.
ASSUME HostAssumption ==
  \A host \in Hosts :
    /\ host.block # Unreadable => host.block \in Seq(Range(host.block))
    /\ host.block # Unreadable => \A i \in DOMAIN host.block :
         /\ host.block[i].partitions \in Seq(Range(host.block[i].partitions))
         /\ host.block[i].family # "dm-" => host.block[i].dmUUID = "" /\ host.block[i].dmName = ""
    /\ host.byId \in Seq(Range(host.byId))
    /\ \A i, j \in DOMAIN host.byId : host.byId[i].name = host.byId[j].name => i = j
ASSUME RequestsAssumption ==
  /\ \A r \in VipRequests \cup TangServers \cup DomainRequests : r \in Seq(Range(r))
  /\ \A r \in ApiRequests :
       /\ DOMAIN r.ignition = {"files", "units", "luks", "other"}
       /\ r.ignition.files \in Seq(Range(r.ignition.files))

VARIABLES step, input, reply
reportVars == <<step, input, reply>>

ReportInit ==
  /\ \/ step = "disks" /\ input \in Hosts
     \/ step \in {"vips", "dry vips"} /\ input \in VipRequests
     \/ step = "tang" /\ input \in TangServers
     \/ step = "domains" /\ input \in DomainRequests
     \/ step = "apivip" /\ input \in ApiRequests
  /\ reply = NoReply

Answer(steps, answer) ==
  /\ step \in steps /\ reply = NoReply
  /\ reply' = answer
  /\ UNCHANGED <<step, input>>

ReportDisks == Answer({"disks"}, getDisks(input))
ReportVips == Answer({"vips", "dry vips"}, verifyVips(input, step = "dry vips"))
ReportTang == Answer({"tang"}, CheckTangConnectivity(input))
ReportDomains == Answer({"domains"}, RunDomainResolution(input))
ReportIgnition == Answer({"apivip"}, CheckAPIConnectivity(input))

ReportNext == ReportDisks \/ ReportVips \/ ReportTang \/ ReportDomains \/ ReportIgnition
Replied(steps) == step \in steps /\ reply # NoReply
-----------------------------------------------------------------------------
(***************************************************************************)
(* Two disks that are reported with different paths have different ids,    *)
(* whatever links the host has and whichever bus paths its disks share:    *)
(* the service never takes one for the other (getDisks, getDisksWWNs,      *)
(* getBusPath).                                                            *)
(***************************************************************************)
DiskIdsDiffer ==
  Replied({"disks"}) => \A i, j \in DOMAIN reply :
    reply[i].path # reply[j].path => reply[i].id # reply[j].id

(***************************************************************************)
(* What makes a disk usable does not depend on the order of its            *)
(* partitions: a disk that is reported is eligible exactly when its        *)
(* controller is known or not needed, it is no logical volume, its iSCSI   *)
(* target is running and in the firmware's table, and it is an appliance's *)
(* or nothing on it is mounted (checkEligibility).                         *)
(***************************************************************************)
UsableDisk(disk) ==
  /\ disk.controller # "unknown" \/ disk.family \in {"dasd", "md"} \/ disk.dmUUID = "mpath-"
  /\ disk.dmUUID # "LVM-"
  /\ disk.transport = "iscsi" =>
       disk.state = "running" /\ disk.target # Unreadable
         /\ input.ibft # Unreadable /\ disk.target \in input.ibft
  /\ LET parts == {disk.partitions[n] : n \in DOMAIN disk.partitions}
     IN (\E p \in parts : p.label = "agent") \/ \A p \in parts : p.mount = ""

EligibleIsUsable ==
  Replied({"disks"}) => \A i \in DOMAIN reply :
    \E n \in DOMAIN input.block :
      /\ input.block[n].name = reply[i].name
      /\ (reply[i].reasons = <<>>) <=>
           (UsableDisk(input.block[n]) \/ input.block[n].dmName = "agent")

(***************************************************************************)
(* A probe that exits with 0 has an answer for every item of its request,  *)
(* in the order of the request: the service never misses one it asked for  *)
(* (verifyVips, CheckTangConnectivity, domain resolution's Run).           *)
(***************************************************************************)
EveryItemIsAnswered ==
  Replied({"vips", "dry vips", "tang", "domains"}) /\ reply.code = 0 =>
    /\ Len(reply.items) = Len(input)
    /\ \A n \in DOMAIN input :
         CASE step \in {"vips", "dry vips"} -> reply.items[n].vip = input[n].vip
           [] step = "tang" -> reply.items[n] = input[n].name
           [] step = "domains" -> reply.items[n].name = input[n].name

(***************************************************************************)
(* The ignition that is reported keeps the files that say how the network  *)
(* is managed, once each and with their first contents, and no other file  *)
(* or unit; whatever else it holds is unchanged (filterIgnition).          *)
(***************************************************************************)
IgnitionIsFiltered ==
  Replied({"apivip"}) /\ reply.items # <<>> =>
    LET original == input.ignition
        filtered == reply.items[1]
        first(n) == \A m \in 1 .. n - 1 : original.files[m].path # original.files[n].path
        kept == {original.files[n] : n \in {m \in DOMAIN original.files :
                   first(m) /\ original.files[m].path \in Range(Indications)}}
    IN /\ Range(filtered.files) = kept
       /\ IsInjective(filtered.files)
       /\ filtered.units = <<>>
       /\ filtered.luks = original.luks /\ filtered.other = original.other
=============================================================================
