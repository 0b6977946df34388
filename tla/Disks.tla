-------------------------------- MODULE Disks --------------------------------
(***************************************************************************)
(* inventory/disks.go: the disks of a host as the inventory step reports   *)
(* them.  A host is what ghw and the /dev, /sys and iBFT trees say of it:  *)
(*   block   the block devices in the order ghw lists them, or Unreadable  *)
(*   nodes   the names that have a node in /dev                            *)
(*   byPath  the bus paths with a link in /dev/disk/by-path, and the name  *)
(*           of the device it leads to                                     *)
(*   byId    the links of /dev/disk/by-id in directory order               *)
(*   ibft    the targets the firmware knows, or Unreadable                 *)
(* A path is a tuple: its directory and its last component.                *)
(***************************************************************************)
EXTENDS Integers, Sequences, FiniteSets, FiniteSetsExt, Sorting

CONSTANTS Unreadable, Unknown
NoPath == <<>>
Dev(name) == <<"dev", name>>
ByPath(bus) == <<"by-path", bus>>
ById(link) == <<"by-id", link>>
-----------------------------------------------------------------------------
\* The links that name a disk, and the device each leads to.  A link that does
\* not resolve is entered as the empty path; of two links to one device the
\* last one read counts.
getDisksWWNs(host) ==
  LET matching(l) == l.prefix \in {"wwn-", "nvme-eui"} /\ l.symlink
      links == {i \in DOMAIN host.byId : matching(host.byId[i])}
      path(i) == IF host.byId[i].target = Unreadable THEN NoPath ELSE Dev(host.byId[i].target)
      last(p) == Max({i \in links : path(i) = p})
  IN [p \in {path(i) : i \in links} |->
        IF p = NoPath THEN NoPath ELSE ById(host.byId[last(p)].name)]

WWNOf(wwns, path) == IF path \in DOMAIN wwns THEN wwns[path] ELSE NoPath

getPath(host, disk) ==
  IF disk.name \in host.nodes THEN Dev(disk.name)
  ELSE IF disk.bus \in DOMAIN host.byPath THEN Dev(host.byPath[disk.bus])
  ELSE NoPath

getByPath(host, bus) ==
  IF bus # Unknown /\ bus \in DOMAIN host.byPath THEN ByPath(bus) ELSE NoPath

\* Mutated form: a bus path two disks share is reported for both.
BusPathOfEach(host, index) == getByPath(host, host.block[index].bus)

\* Disks that share a bus path are reported without one.
getBusPath(host, index) ==
  LET bus == host.block[index].bus
      shared == \E i \in DOMAIN host.block \ {index} : host.block[i].bus = bus
  IN IF shared THEN NoPath ELSE getByPath(host, bus)
-----------------------------------------------------------------------------
isDeviceMapper(disk) == disk.family = "dm-"
isMultipath(disk) == isDeviceMapper(disk) /\ disk.dmUUID = "mpath-"
isLVM(disk) == isDeviceMapper(disk) /\ disk.dmUUID = "LVM-"
isISCSIDisk(disk) == disk.transport = "iscsi"
isFCDisk(disk) == disk.transport = "fc"
isMultipleDevices(disk) == disk.family = "md"
isDASD(disk) == disk.family = "dasd"
isAppliance(disk) == isDeviceMapper(disk) /\ disk.dmName = "agent"

getDASDType(disk) ==
  CASE disk.discipline = "ECKD" -> IF disk.ese = Unreadable THEN "Unknown"
                                   ELSE IF disk.ese = "1" THEN "ECKD_ESE" ELSE "ECKD"
    [] disk.discipline = "FBA" -> "FBA"
    [] OTHER -> "Unknown"

\* The first of these that applies is reported, and ghw's type when none does.
getDriveType(disk) ==
  LET special ==
        <<[is |-> isISCSIDisk(disk), type |-> "iSCSI"], [is |-> isFCDisk(disk), type |-> "FC"],
          [is |-> isMultipath(disk), type |-> "Multipath"], [is |-> isLVM(disk), type |-> "LVM"],
          [is |-> isMultipleDevices(disk), type |-> "RAID"],
          [is |-> TRUE, type |-> disk.drive]>>
  IN IF isDASD(disk) THEN getDASDType(disk)
     ELSE Head(SelectSeq(special, LAMBDA t : t.is)).type

shouldReturnDisk(disk) ==
  /\ ~disk.hidden
  /\ isDeviceMapper(disk) => isMultipath(disk) \/ isLVM(disk)
  /\ disk.family \notin {"loop", "zram"}
-----------------------------------------------------------------------------
checkEligibilityISCSIState(disk) ==
  IF disk.state = "running" THEN <<>>
  ELSE <<IF disk.state = Unreadable THEN "no iSCSI state" ELSE "not running">>

\* disk.target is the target of the disk's session, Unreadable when the session
\* or its name cannot be read.
checkEligibilityISCSIinIBFT(host, disk) ==
  IF disk.target = Unreadable THEN <<"no iSCSI target">>
  ELSE IF host.ibft = Unreadable THEN <<"no iBFT">>
  ELSE IF disk.target \in host.ibft THEN <<>> ELSE <<"not in iBFT">>

\* Mutated form: the media is skipped before its reason is recorded.
MediaIsSkipped(partitions) ==
  LET counts(i) == /\ partitions[i].mount # ""
                   /\ \A j \in 1 .. i : partitions[j].mount # "iso"
  IN [n \in 1 .. Cardinality({i \in DOMAIN partitions : counts(i)}) |-> "mounted"]

\* The partitions are read in order: after the one the installer was booted
\* from, mounted ones no longer count.
PartitionReasons(partitions) ==
  LET iso(i) == partitions[i].mount = "iso"
      media(i) == \E j \in 1 .. i : iso(j)
      reason(i) == CASE iso(i) -> <<"ISO">>
                     [] ~media(i) /\ partitions[i].mount # "" -> <<"mounted">>
                     [] OTHER -> <<>>
  IN Joined([i \in DOMAIN partitions |-> reason(i)])

\* The reasons a disk is not eligible, and whether the host was booted from it.
checkEligibility(host, disk) ==
  LET controller ==
        IF /\ disk.controller = "unknown"
           /\ ~isMultipath(disk) /\ ~isLVM(disk) /\ ~isDASD(disk) /\ ~isMultipleDevices(disk)
        THEN <<"controller">> ELSE <<>>
      lvm == IF isLVM(disk) THEN <<"LVM">> ELSE <<>>
      iscsi == IF isISCSIDisk(disk)
               THEN checkEligibilityISCSIState(disk) \o checkEligibilityISCSIinIBFT(host, disk)
               ELSE <<>>
      device == controller \o lvm \o iscsi
  IN IF \E i \in DOMAIN disk.partitions : disk.partitions[i].label = "agent"
     THEN [reasons |-> device, media |-> FALSE]
     ELSE [reasons |-> device \o PartitionReasons(disk.partitions),
           media |-> \E i \in DOMAIN disk.partitions : disk.partitions[i].mount = "iso"]
-----------------------------------------------------------------------------
\* A disk of an appliance is the only one reported, and always eligible.
getApplianceDisks(host) ==
  LET found == {i \in DOMAIN host.block : isAppliance(host.block[i])}
      disk == host.block[Min(found)]
      path == getPath(host, disk)
  IN IF found = {} THEN <<>>
     ELSE <<[name |-> disk.name, id |-> NoPath, byId |-> WWNOf(getDisksWWNs(host), path),
             byPath |-> getByPath(host, disk.bus), path |-> path, driveType |-> "SSD",
             media |-> FALSE, reasons |-> <<>>]>>

DiskRecord(host, index) ==
  LET disk == host.block[index]
      eligibility == checkEligibility(host, disk)
      path == getPath(host, disk)
      byId == WWNOf(getDisksWWNs(host), path)
      byPath == getBusPath(host, index)
  IN [name |-> disk.name, byId |-> byId, byPath |-> byPath, path |-> path,
      id |-> IF byId # NoPath THEN byId ELSE IF byPath # NoPath THEN byPath ELSE path,
      driveType |-> getDriveType(disk),
      media |-> eligibility.media \/ disk.drive = "ODD", reasons |-> eligibility.reasons]

getDisks(host) ==
  IF host.block = Unreadable THEN <<>>
  ELSE IF getApplianceDisks(host) # <<>> THEN getApplianceDisks(host)
  ELSE Selected([i \in DOMAIN host.block |-> DiskRecord(host, i)],
                {i \in DOMAIN host.block : shouldReturnDisk(host.block[i])})
=============================================================================
