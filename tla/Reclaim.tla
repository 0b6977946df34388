------------------------------- MODULE Reclaim -------------------------------
(***************************************************************************)
(* reboot_for_reclaim beside download_boot_artifacts: both run in the      *)
(* process of the next step runner.  The reboot step changes the root of   *)
(* the whole process to the file system of the host, and nothing changes   *)
(* it back: when the step fails afterwards, the process goes on in that    *)
(* root, where neither the host's mount point nor the temporary folder     *)
(* exists, and so do the downloads that are under way.                     *)
(***************************************************************************)
EXTENDS BootArtifacts

CONSTANT
  Reboots    \* instructions of the service that carry reboot_for_reclaim

VARIABLES
  reclaim,       \* per reboot step: where it is
  chrooted,      \* the root of the process is that of the host
  hostRebooted,  \* the host reboots, into the boot loader entry if there is one
  s390x          \* runtime.GOARCH

reclaimVars == <<reclaim, chrooted, hostRebooted, s390x>>
allVars == <<runVars, reclaimVars>>

ReclaimInit ==
  /\ RunsInit
  /\ reclaim = [q \in Reboots |-> "idle"]
  /\ chrooted = FALSE /\ hostRebooted = FALSE /\ s390x \in BOOLEAN

ReclaimGoto(q, where) == reclaim' = [reclaim EXCEPT ![q] = where]

\* The service asks for the reboot once a download has succeeded.
Downloaded == \E r \in Runs : stage[r] \in {"copied", "exists"}

\* syscall.Chroot fails in a process that is in the root of the host already.
Chroot(q) ==
  /\ ~hostRebooted /\ reclaim[q] = "idle" /\ Downloaded
  /\ \/ ReclaimGoto(q, "failed") /\ UNCHANGED chrooted
     \/ /\ ~chrooted /\ chrooted' = TRUE
        /\ ReclaimGoto(q, IF s390x THEN "zipl" ELSE "reboot")
  /\ UNCHANGED runVars /\ UNCHANGED <<hostRebooted, s390x>>

\* s390x: the entry is read for its options, and zipl installs kernel and initrd.
Zipl(q) ==
  /\ ~hostRebooted /\ reclaim[q] = "zipl"
  /\ \/ ReclaimGoto(q, "failed")
     \/ bootArtifactsExist /\ ReclaimGoto(q, "reboot")
  /\ UNCHANGED runVars /\ UNCHANGED <<chrooted, hostRebooted, s390x>>

\* systemctl reboot
Reboot(q) ==
  /\ ~hostRebooted /\ reclaim[q] = "reboot"
  /\ \/ ReclaimGoto(q, "failed") /\ UNCHANGED hostRebooted
     \/ ReclaimGoto(q, "done") /\ hostRebooted' = TRUE
  /\ UNCHANGED runVars /\ UNCHANGED <<chrooted, s390x>>

\* Outside of the changed root, the steps of a run are as before.
Outside == ~hostRebooted /\ ~chrooted /\ UNCHANGED reclaimVars

\* In the changed root no artifact is found under the mount point ...
StartInside(r) ==
  /\ ~hostRebooted /\ chrooted
  /\ stage[r] = "idle"
  /\ concurrent \/ \A q \in Runs : ~Running(q)
  /\ Enter(r, "folders") \/ Enter(r, "failed")
  /\ UNCHANGED <<attempts, artifact, temp, boot, deaths, concurrent>> /\ UNCHANGED reclaimVars

\* ... nothing can be mounted there, ...
createFoldersInside(r) ==
  /\ ~hostRebooted /\ chrooted
  /\ stage[r] = "folders"
  /\ TryAgain(r, "folders")
  /\ UNCHANGED <<artifact, temp, boot, deaths, concurrent>> /\ UNCHANGED reclaimVars

\* ... the loop of download goes on, but its file cannot be written, ...
downloadInside(r) ==
  /\ ~hostRebooted /\ chrooted
  /\ stage[r] \in {"client", "get"}
  /\ \/ Enter(r, "failed") /\ UNCHANGED attempts
     \/ stage[r] = "client" /\ Enter(r, "get") /\ UNCHANGED attempts
     \/ stage[r] = "get" /\ TryAgain(r, "get")
  /\ UNCHANGED <<artifact, temp, boot, deaths, concurrent>> /\ UNCHANGED reclaimVars

\* ... a file that is open is still written, and every path after it fails.
filesInside(r) ==
  /\ ~hostRebooted /\ chrooted
  /\ \/ /\ stage[r] \in {"config", "space", "create"}
        /\ UNCHANGED <<temp, boot>>
     \/ /\ stage[r] = "write"
        /\ temp' \in {temp, [temp EXCEPT ![artifact[r]] = "whole"]} /\ UNCHANGED boot
     \/ /\ stage[r] = "copy"
        /\ boot' \in {boot, [boot EXCEPT ![artifact[r]] = temp[artifact[r]]]} /\ UNCHANGED temp
  /\ Enter(r, "failed")
  /\ UNCHANGED <<attempts, artifact, deaths, concurrent>> /\ UNCHANGED reclaimVars

\* The process dies, and a new one starts in the root of its container.
ProcessRestarts ==
  /\ ~hostRebooted
  /\ ProcessCrash
  /\ chrooted' = FALSE
  /\ reclaim' = [q \in Reboots |->
                   IF reclaim[q] \in {"zipl", "reboot"} THEN "failed" ELSE reclaim[q]]
  /\ UNCHANGED <<hostRebooted, s390x>>

ReclaimStep(q) == Chroot(q) \/ Zipl(q) \/ Reboot(q)
InsideStep(r) ==
  StartInside(r) \/ createFoldersInside(r) \/ downloadInside(r) \/ filesInside(r)

ReclaimNext ==
  \/ ProcessRestarts
  \/ \E r \in Runs : Outside /\ Start(r)
  \/ \E r \in Runs : Outside /\ createFolders(r)
  \/ \E r \in Runs : Outside /\ createHTTPClient(r)
  \/ \E r \in Runs : Outside /\ downloadAnswered(r)
  \/ \E r \in Runs : Outside /\ downloadUnanswered(r)
  \/ \E r \in Runs : Outside /\ downloadWritten(r)
  \/ \E r \in Runs : Outside /\ createBootLoaderConfigInTempFolder(r)
  \/ \E r \in Runs : Outside /\ ensureBootHasSpace(r)
  \/ \E r \in Runs : Outside /\ copyCreates(r)
  \/ \E r \in Runs : Outside /\ copyEnds(r)
  \/ \E r \in Runs : InsideStep(r)
  \/ \E q \in Reboots : ReclaimStep(q)

ReclaimSpec == ReclaimInit /\ [][ReclaimNext]_allVars

\* Every system call and request returns, in either root.
ReclaimFairSpec ==
  /\ ReclaimSpec
  /\ \A r \in Runs : WF_allVars(Running(r) /\ ((Outside /\ RunStep(r)) \/ InsideStep(r)))
  /\ \A q \in Reboots : WF_allVars(Zipl(q) \/ Reboot(q))
-----------------------------------------------------------------------------
\* The host never reboots into an entry that names a missing or cut-short kernel or
\* initrd, nor without an entry: the reboot is asked for after a download, and no
\* later run undoes what it left, in whatever root it finds itself, as long as one
\* run ends before the next.
RebootIsLoadable ==
  hostRebooted /\ ~concurrent =>
    boot[Config] # "absent" /\ \A n \in Nums \ {Config} : boot[n] = "whole"

\* One process changes its root once: a reboot step that failed after that cannot be
\* repeated with success before the process has restarted.
OneRebootPerProcess ==
  \A p, q \in Reboots :
    reclaim[p] \in {"zipl", "reboot", "done"} /\ reclaim[q] \in {"zipl", "reboot", "done"} => p = q

\* A run that started, or was overtaken by the change of the root, comes to an end,
\* and so does a reboot step.
EverythingEnds ==
  /\ \A r \in Runs : Running(r) ~> (stage[r] \in EndStages \/ hostRebooted)
  /\ \A q \in Reboots : reclaim[q] \in {"zipl", "reboot"} ~> (reclaim[q] \in {"failed", "done"})
=============================================================================
