---------------------------- MODULE BootArtifacts ----------------------------
(***************************************************************************)
(* The download_boot_artifacts step: every instruction is one run of the   *)
(* function "run", which downloads a kernel and an initrd to a temporary   *)
(* folder of the container and copies them, then a boot loader entry that  *)
(* names them, to /boot of the host.  A file under /boot survives the      *)
(* crash of the process; the temporary folder does not.                    *)
(*                                                                         *)
(* A file is absent, partial (created or truncated, not written and synced *)
(* to its end) or whole.                                                   *)
(***************************************************************************)
EXTENDS Integers

CONSTANTS
  Runs,          \* instructions of the service that carry this step
  MaxAttempts,   \* defaultRetryAmount
  MaxDeaths      \* bound on the crashes of the process

ASSUME RunsAssumption == MaxAttempts \in Nat \ {0} /\ MaxDeaths \in Nat

VARIABLES
  stage,      \* per run: where it is
  attempts,   \* per run: failed attempts of the loop it is in
  artifact,   \* per run: the file it downloads or copies
  temp,       \* the files of the temporary folder
  boot,       \* the files under /boot of the host
  deaths,     \* crashes of the process so far
  concurrent  \* whether the service sends one while another still runs

runVars == <<stage, attempts, artifact, temp, boot, deaths, concurrent>>

\* In the order in which they are copied.
Files  == <<"kernel", "initrd", "config">>
Config == 3
Nums   == 1 .. 3

EndStages == {"exists", "copied", "failed", "crashed", "panicked"}
Running(r) == stage[r] \notin EndStages \cup {"idle"}
-----------------------------------------------------------------------------
RunsInit ==
  /\ stage = [r \in Runs |-> "idle"]
  /\ attempts = [r \in Runs |-> 0]
  /\ artifact = [r \in Runs |-> 1]
  /\ temp = [n \in Nums |-> "absent"]
  /\ boot = [n \in Nums |-> "absent"]
  /\ deaths = 0
  /\ concurrent \in BOOLEAN

Enter(r, where) == stage' = [stage EXCEPT ![r] = where]

\* bootArtifactsExist looks for the names only.
bootArtifactsExist == \A n \in Nums : boot[n] # "absent"

\* run: parse the request (an error ends the run), then look for the files.
Start(r) ==
  /\ stage[r] = "idle"
  /\ concurrent \/ \A q \in Runs : ~Running(q)
  /\ \/ Enter(r, "failed")
     \/ Enter(r, IF bootArtifactsExist THEN "exists" ELSE "folders")
  /\ UNCHANGED <<attempts, artifact, temp, boot, deaths, concurrent>>

\* Mutant of TryAgain: the last attempt starts the count again.
TryForever(r, again) ==
  /\ attempts' = [attempts EXCEPT ![r] = (@ + 1) % MaxAttempts]
  /\ Enter(r, again)

\* A failed attempt of a loop of MaxAttempts.
TryAgain(r, again) ==
  /\ attempts' = [attempts EXCEPT ![r] = @ + 1]
  /\ Enter(r, IF attempts[r] + 1 < MaxAttempts THEN again ELSE "failed")

\* createFolders: remount /boot and create three folders.
createFolders(r) ==
  /\ stage[r] = "folders"
  /\ \/ TryAgain(r, "folders")
     \/ /\ Enter(r, "client")
        /\ attempts' = [attempts EXCEPT ![r] = 0]
  /\ UNCHANGED <<artifact, temp, boot, deaths, concurrent>>

\* createHTTPClient reads the certificate, if there is one.
createHTTPClient(r) ==
  /\ stage[r] = "client"
  /\ \E where \in {"get", "failed"} : Enter(r, where)
  /\ UNCHANGED <<attempts, artifact, temp, boot, deaths, concurrent>>

\* The process ends: all runs and the temporary folder with it.
Dead == [r \in Runs |-> IF Running(r) THEN "crashed" ELSE stage[r]]

ProcessDies ==
  /\ deaths < MaxDeaths
  /\ deaths' = deaths + 1
  /\ temp' = [n \in Nums |-> "absent"]
  /\ UNCHANGED <<attempts, artifact, boot, concurrent>>

\* download, one attempt that gets an answer: a status other than 2xx is tried
\* again, the body of a good one is read and os.WriteFile truncates the file.
downloadAnswered(r) ==
  /\ stage[r] = "get"
  /\ \/ TryAgain(r, "get") /\ UNCHANGED temp
     \/ Enter(r, "failed") /\ UNCHANGED <<attempts, temp>>    \* reading the body
     \/ /\ temp' = [temp EXCEPT ![artifact[r]] = "partial"]
        /\ Enter(r, "write")
        /\ attempts' = [attempts EXCEPT ![r] = 0]
  /\ UNCHANGED <<artifact, boot, deaths, concurrent>>

\* download, one attempt without an answer: the warning reads the status code of
\* a nil response, and the panic ends the process.
downloadUnanswered(r) ==
  /\ stage[r] = "get"
  /\ ProcessDies
  /\ stage' = [Dead EXCEPT ![r] = "panicked"]

\* The process or the host is stopped at any other moment.
ProcessCrash ==
  /\ ProcessDies
  /\ stage' = Dead

\* os.WriteFile ends; the initrd follows the kernel.
downloadWritten(r) ==
  /\ stage[r] = "write"
  /\ \/ Enter(r, "failed") /\ UNCHANGED <<artifact, temp>>
     \/ /\ temp' = [temp EXCEPT ![artifact[r]] = "whole"]
        /\ artifact' = [artifact EXCEPT ![r] = @ + 1]
        /\ Enter(r, IF artifact[r] + 1 = Config THEN "config" ELSE "get")
  /\ UNCHANGED <<attempts, boot, deaths, concurrent>>

\* createBootLoaderConfigInTempFolder, which truncates and writes a few lines.
createBootLoaderConfigInTempFolder(r) ==
  /\ stage[r] = "config"
  /\ \/ /\ temp' = [temp EXCEPT ![Config] = "whole"] /\ Enter(r, "space")
     \/ /\ temp' = [temp EXCEPT ![Config] = "partial"] /\ Enter(r, "failed")
  /\ UNCHANGED <<attempts, artifact, boot, deaths, concurrent>>

\* ensureBootHasSpace: the space is there, is made by rpm-ostree, or is not.
ensureBootHasSpace(r) ==
  /\ stage[r] = "space"
  /\ \/ Enter(r, "failed") /\ UNCHANGED artifact
     \/ /\ \A n \in Nums : temp[n] # "absent"
        /\ Enter(r, "create") /\ artifact' = [artifact EXCEPT ![r] = 1]
  /\ UNCHANGED <<attempts, temp, boot, deaths, concurrent>>

\* copyFile: os.Open and os.Create, which truncates.
copyCreates(r) ==
  /\ stage[r] = "create"
  /\ \/ Enter(r, "failed") /\ UNCHANGED boot
     \/ /\ temp[artifact[r]] # "absent"
        /\ boot' = [boot EXCEPT ![artifact[r]] = "partial"]
        /\ Enter(r, "copy")
  /\ UNCHANGED <<attempts, artifact, temp, deaths, concurrent>>

\* A copy is over: the next file, or the end of the run.
NextCopy(r) ==
  /\ Enter(r, IF artifact[r] = Config THEN "copied" ELSE "create")
  /\ artifact' = [artifact EXCEPT ![r] = IF @ = Config THEN @ ELSE @ + 1]

\* Mutant of copyEnds: an error of io.Copy is logged only.
copyIgnoresErrors(r) ==
  /\ stage[r] = "copy"
  /\ boot' \in {boot, [boot EXCEPT ![artifact[r]] = temp[artifact[r]]]}
  /\ NextCopy(r)
  /\ UNCHANGED <<attempts, temp, deaths, concurrent>>

\* copyFile: io.Copy, os.Chmod and Sync.  The copy is as whole as its source is.
copyEnds(r) ==
  /\ stage[r] = "copy"
  /\ \/ Enter(r, "failed") /\ UNCHANGED <<artifact, boot>>
     \/ /\ boot' = [boot EXCEPT ![artifact[r]] = temp[artifact[r]]]
        /\ NextCopy(r)
  /\ UNCHANGED <<attempts, temp, deaths, concurrent>>

RunStep(r) ==
  \/ Start(r) \/ createFolders(r) \/ createHTTPClient(r) \/ downloadAnswered(r)
  \/ downloadUnanswered(r) \/ downloadWritten(r)
  \/ createBootLoaderConfigInTempFolder(r) \/ ensureBootHasSpace(r) \/ copyCreates(r) \/ copyEnds(r)
-----------------------------------------------------------------------------
FileStates == {"absent", "partial", "whole"}

\* The type of the state; a run makes at most MaxAttempts attempts in a loop.
RunsTypeOK ==
  /\ stage \in [Runs -> {"idle", "folders", "client", "get", "write", "config", "space",
                         "create", "copy"} \cup EndStages]
  /\ attempts \in [Runs -> 0 .. MaxAttempts]
  /\ artifact \in [Runs -> Nums]
  /\ temp \in [Nums -> FileStates]
  /\ boot \in [Nums -> FileStates]
  /\ deaths \in 0 .. MaxDeaths
  /\ concurrent \in BOOLEAN

\* The boot loader entry never names a file that is missing or cut short, whatever
\* fails and whenever the process dies, as long as one run ends before the next:
\* copyFilesToBootFolder copies it last, and no run writes once it is there.
EntryNeverDangles ==
  ~concurrent /\ boot[Config] # "absent" => \A n \in Nums \ {Config} : boot[n] = "whole"

\* A run that copied the files and says so has left three whole files, and they
\* stay so, as long as one run ends before the next.
CopiedIsWhole ==
  \A r \in Runs : ~concurrent /\ stage[r] = "copied" => \A n \in Nums : boot[n] = "whole"

\* With one run at a time, a run that finds the artifacts in place and does nothing
\* has a whole kernel and a whole initrd in place.
ExistsIsLoadable ==
  \A r \in Runs :
    ~concurrent /\ stage[r] = "exists" => \A n \in Nums \ {Config} : boot[n] = "whole"

\* A download error is counted as a failed attempt; it does not end the process.
DownloadErrorIsHandled == \A r \in Runs : stage[r] # "panicked"
=============================================================================
