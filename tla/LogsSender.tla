----------------------------- MODULE LogsSender ------------------------------
(***************************************************************************)
(* The logs sender: SendLogs and GatherInstallerLogs on the main thread,   *)
(* and CollectPartialLogs, the goroutine that uploads partial bundles      *)
(* while the installer gathers.  Both archive the same directory into the  *)
(* same file, so the final upload has to wait for the goroutine.           *)
(*                                                                         *)
(* Any write, tar, upload or progress report may fail.  The removal of the *)
(* sender's own files, whose error the code drops, is taken to succeed.    *)
(***************************************************************************)
EXTENDS Integers

VARIABLES
  gathers,    \* InstallerGatherlogging
  bootstrap,  \* IsBootstrap
  clean,      \* CleanWhenDone
  main,       \* where SendLogs is
  partial,    \* where CollectPartialLogs is
  wg,         \* the counter of the WaitGroup
  cancelled,  \* collectContext was cancelled
  failed,     \* an error was added to the result
  dir,        \* what is in the directory that is archived
  archive,    \* what the archive file holds; "torn" while a tar writes it
  uploaded,   \* the last archive that reached the service
  progress    \* the last logs state that reached the service

vars == <<gathers, bootstrap, clean, main, partial, wg, cancelled, failed, dir,
          archive, uploaded, progress>>

Entries == {"mounts", "journals", "errors", "bundle", "partial", "report"}

NoFile == {"no file"}
Torn   == {"torn"}
-----------------------------------------------------------------------------
Init ==
  /\ gathers \in BOOLEAN /\ bootstrap \in BOOLEAN /\ clean \in BOOLEAN
  /\ main = "requested"
  /\ partial = "none"
  /\ wg = 0
  /\ cancelled = FALSE
  /\ failed = FALSE
  /\ dir = {} /\ archive = NoFile /\ uploaded = NoFile
  /\ progress = "none"

\* A progress report that fails is logged and changes nothing else.
Report(state) == progress' \in {progress, state}

\* An error of a command is remembered only; the file of its output may be there.
Collects(entry) ==
  /\ dir' \in {dir, dir \cup {entry}}
  /\ failed' \in {failed, TRUE}

\* SendLogs: report, create the folder (an error ends it), collect the mounts ...
getMountLogs ==
  /\ main = "requested"
  /\ Report("requested")
  /\ \/ main' = "clean" /\ UNCHANGED <<dir, failed>>
     \/ main' = "journals" /\ Collects("mounts")
  /\ UNCHANGED <<gathers, bootstrap, clean, partial, wg, cancelled, archive, uploaded>>

\* ... and the journal of every tag, and of every service that systemd knows.
getJournalLogs ==
  /\ main = "journals"
  /\ Collects("journals")
  /\ main' = IF gathers THEN "errors" ELSE "report"
  /\ UNCHANGED <<gathers, bootstrap, clean, partial, wg, cancelled, archive, uploaded, progress>>

\* GatherErrorLogs: dmesg, the core dumps and the whole journal.  A line of
\* coredumpctl with fewer fields than getCoreDumps indexes panics; the deferred
\* function of SendLogs still runs before the process ends.
GatherErrorLogs ==
  /\ main = "errors"
  /\ Collects("errors")
  /\ main' \in {IF bootstrap THEN "spawn" ELSE "report", "unwind"}
  /\ UNCHANGED <<gathers, bootstrap, clean, partial, wg, cancelled, archive, uploaded, progress>>

\* GatherInstallerLogs: the goroutine is started ...
StartPartial ==
  /\ main = "spawn"
  /\ partial' = "start"
  /\ main' = "add"
  /\ UNCHANGED <<gathers, bootstrap, clean, wg, cancelled, failed, dir, archive,
                 uploaded, progress>>

\* ... and counted afterwards.
AddPartial ==
  /\ main = "add"
  /\ wg' = wg + 1
  /\ main' = "gather"
  /\ UNCHANGED <<gathers, bootstrap, clean, partial, cancelled, failed, dir, archive,
                 uploaded, progress>>

\* The gather scripts run, then their bundle is moved into the directory.
GatherInstallerLogs ==
  /\ main = "gather"
  /\ \/ dir' = dir \cup {"bundle"} /\ failed' \in {failed, TRUE}
     \/ failed' = TRUE /\ UNCHANGED dir
  /\ main' = "cancel"
  /\ UNCHANGED <<gathers, bootstrap, clean, partial, wg, cancelled, archive, uploaded,
                 progress>>

\* Mutant of CancelPartial: the context is cancelled after the wait.
CancelTooLate ==
  /\ main = "cancel"
  /\ main' = "wait"
  /\ UNCHANGED <<gathers, bootstrap, clean, partial, wg, cancelled, failed, dir, archive,
                 uploaded, progress>>

\* The deferred function: collectContextCancel ...
CancelPartial ==
  /\ main = "cancel"
  /\ cancelled' = TRUE
  /\ main' = "wait"
  /\ UNCHANGED <<gathers, bootstrap, clean, partial, wg, failed, dir, archive,
                 uploaded, progress>>

\* Mutant of WaitPartial: the main thread does not wait for the goroutine.
DoNotWait ==
  /\ main = "wait"
  /\ main' = "report"
  /\ UNCHANGED <<gathers, bootstrap, clean, partial, wg, cancelled, failed, dir,
                 archive, uploaded, progress>>

\* ... and wg.Wait.
WaitPartial ==
  /\ main = "wait" /\ wg = 0
  /\ main' = "report"
  /\ UNCHANGED <<gathers, bootstrap, clean, partial, wg, cancelled, failed, dir,
                 archive, uploaded, progress>>

\* The errors so far become a file of the directory, if it can be written.
WriteReport ==
  /\ main = "report"
  /\ dir' \in IF failed THEN {dir, dir \cup {"report"}} ELSE {dir}
  /\ main' = "tar"
  /\ UNCHANGED <<gathers, bootstrap, clean, partial, wg, cancelled, failed, archive,
                 uploaded, progress>>

\* uploadLogs, final: report progress and start tar, which truncates the file.
FinalTar ==
  /\ main = "tar"
  /\ Report("collecting")
  /\ archive' = Torn
  /\ main' = "archive"
  /\ UNCHANGED <<gathers, bootstrap, clean, partial, wg, cancelled, failed, dir, uploaded>>

\* tar ends: the archive holds the directory, or the upload is given up.
FinalArchive ==
  /\ main = "archive"
  /\ \/ archive' = dir /\ main' = "upload"
     \/ main' = "clean" /\ UNCHANGED archive
  /\ UNCHANGED <<gathers, bootstrap, clean, partial, wg, cancelled, failed, dir,
                 uploaded, progress>>

\* FileUploader and, if it succeeded, the report that all is done.
FinalUpload ==
  /\ main = "upload"
  /\ \/ uploaded' = archive /\ Report("completed")
     \/ UNCHANGED <<uploaded, progress>>
  /\ main' = "clean"
  /\ UNCHANGED <<gathers, bootstrap, clean, partial, wg, cancelled, failed, dir, archive>>

\* SendLogs returned, or unwinds from a panic of its own.
Leaving == main \in {"clean", "unwind"}
Left    == main' = IF main = "clean" THEN "done" ELSE "crashed"

\* The deferred cleanup of SendLogs, on every way out.
CleanUp ==
  /\ Leaving /\ Left
  /\ dir' = IF clean THEN {} ELSE dir
  /\ archive' = IF clean THEN NoFile ELSE archive
  /\ UNCHANGED <<gathers, bootstrap, clean, partial, wg, cancelled, failed, uploaded,
                 progress>>
-----------------------------------------------------------------------------
\* The deferred wg.Done: below zero the WaitGroup panics, which ends the process.
Done ==
  /\ partial' = "ended"
  /\ wg' = wg - 1
  /\ main' = IF wg = 0 THEN "panicked" ELSE main

\* CollectPartialLogs creates its folder, and returns if it cannot.
PartialFolder ==
  /\ partial = "start"
  /\ \/ /\ dir' = dir \cup {"partial"}
        /\ partial' = "select"
        /\ UNCHANGED <<wg, main>>
     \/ Done /\ UNCHANGED dir
  /\ UNCHANGED <<gathers, bootstrap, clean, cancelled, failed, archive, uploaded, progress>>

\* select, ctx.Done: remove the folder and return.
PartialCancelled ==
  /\ partial = "select" /\ cancelled
  /\ dir' = dir \ {"partial"}
  /\ Done
  /\ UNCHANGED <<gathers, bootstrap, clean, cancelled, failed, archive, uploaded, progress>>

\* select, ticker: bundle what was gathered so far (an error skips the tick),
\* then uploadLogs reports progress and starts tar.
PartialTick ==
  /\ partial = "select"
  /\ Report("collecting")
  /\ archive' = Torn
  /\ partial' = "archive"
  /\ UNCHANGED <<gathers, bootstrap, clean, main, wg, cancelled, failed, dir, uploaded>>

\* tar ends: the archive holds the directory as it is now, or the tick is over.
PartialArchive ==
  /\ partial = "archive"
  /\ \/ archive' = dir /\ partial' = "upload"
     \/ partial' = "select" /\ UNCHANGED archive
  /\ UNCHANGED <<gathers, bootstrap, clean, main, wg, cancelled, failed, dir, uploaded, progress>>

\* FileUploader; an error is logged, the loop goes on.
PartialUpload ==
  /\ partial = "upload"
  /\ uploaded' \in {uploaded, archive}
  /\ partial' = "select"
  /\ UNCHANGED <<gathers, bootstrap, clean, main, wg, cancelled, failed, dir, archive, progress>>

Ended == main \in {"done", "crashed", "panicked", "killed"}

\* The sender runs under "timeout 1h".
TimedOut ==
  /\ ~Ended
  /\ main' = "killed"
  /\ UNCHANGED <<gathers, bootstrap, clean, partial, wg, cancelled, failed, dir, archive,
                 uploaded, progress>>
-----------------------------------------------------------------------------
SendLogs ==
  \/ getMountLogs \/ getJournalLogs \/ GatherErrorLogs \/ StartPartial \/ AddPartial \/ GatherInstallerLogs
  \/ CancelPartial \/ WaitPartial \/ WriteReport \/ FinalTar \/ FinalArchive
  \/ FinalUpload \/ CleanUp

\* The goroutine ends with the process.
CollectPartialLogs ==
  /\ ~Ended
  /\ PartialFolder \/ PartialCancelled \/ PartialTick \/ PartialArchive \/ PartialUpload

Next == SendLogs \/ CollectPartialLogs \/ TimedOut

Spec == Init /\ [][Next]_vars

\* Both threads are scheduled and every call returns; select picks among the
\* ready cases at random, so a cancelled context is not passed over for ever.
\* Nothing makes the timeout of an hour happen.
FairSpec ==
  /\ Spec
  /\ WF_vars(SendLogs)
  /\ WF_vars(CollectPartialLogs)
  /\ SF_vars(~Ended /\ PartialCancelled)
-----------------------------------------------------------------------------
MainStates == {"requested", "journals", "errors", "spawn", "add", "gather", "cancel", "wait",
               "report", "tar", "archive", "upload", "clean", "unwind", "done", "crashed",
               "panicked", "killed"}

\* The type of the state.
TypeOK ==
  /\ gathers \in BOOLEAN /\ bootstrap \in BOOLEAN /\ clean \in BOOLEAN
  /\ cancelled \in BOOLEAN /\ failed \in BOOLEAN
  /\ main \in MainStates
  /\ partial \in {"none", "start", "select", "archive", "upload", "ended"}
  /\ wg \in -1 .. 1
  /\ dir \in SUBSET Entries
  /\ archive \in (SUBSET Entries) \cup {NoFile, Torn}
  /\ uploaded \in (SUBSET Entries) \cup {NoFile, Torn}
  /\ progress \in {"none", "requested", "collecting", "completed"}

\* What the final upload of SendLogs reads is exactly the directory: no tar of the
\* partial collection, which writes the same file, has replaced it or is replacing
\* it between the final tar and the final upload.
FinalArchiveIsIntact == main = "upload" => archive = dir

\* The bundle of the partial collection is no part of the final logs: the
\* goroutine has removed its folder before SendLogs archives the directory.
NoPartialInFinal == main = "upload" => "partial" \notin archive

\* Once SendLogs has told the service that the logs are complete, the service gets
\* neither another progress report nor another archive.
CompletedIsLast == [][progress = "completed" => UNCHANGED <<progress, uploaded>>]_vars

\* A sender that ends by itself under CleanWhenDone leaves no file, on any way out,
\* a panic of its main thread included.
CleanWhenDone == main \in {"done", "crashed"} /\ clean => dir = {} /\ archive = NoFile

\* SendLogs ends: wg.Wait never waits for a goroutine that keeps collecting.
SendLogsEnds == <>Ended

\* The synchronisation of GatherInstallerLogs lets the sender go on to the final
\* logs: the WaitGroup does not panic.
SynchronisationHolds == main # "panicked"
=============================================================================
