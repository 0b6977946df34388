--------------------------- MODULE HostStepProofs ---------------------------
(***************************************************************************)
(* The steps that work on state of the host that outlives them, where a    *)
(* crash, a second instruction or a step that runs at the same time finds  *)
(* what another has left: ntp_synchronizer, download_boot_artifacts with   *)
(* reboot_for_reclaim, and dhcp_lease_allocate.  For any number of         *)
(* instructions and crashes.                                               *)
(***************************************************************************)
EXTENDS Reclaim, DhcpLease, NtpSynchronizer, TLAPS
-----------------------------------------------------------------------------
(***************************************************************************)
(* The NTP synchroniser, for any number of steps, servers and addresses.   *)
(* RequestedIsReported says nothing of a step that has not replied: the    *)
(* invariant says what holds of the servers a step has passed, and that    *)
(* what a step has read is still there, since chrony keeps its sources.    *)
(***************************************************************************)
NtpSpec == NtpInit /\ [][NtpNext]_ntpVars

Adding == {"check", "lookup", "add"}

NtpType ==
  /\ wanted \in [NtpSteps -> Seq(NtpServers)]
  /\ nth \in [NtpSteps -> Nat]
  /\ ntpPc \in [NtpSteps -> Adding \cup {"read", "done", "failed"}]
  /\ refused \in [NtpSteps -> SUBSET NtpServers]
  /\ seen \in [NtpSteps -> SUBSET NtpAddresses]
  /\ DOMAIN sources \subseteq NtpAddresses
  /\ DOMAIN ntpReply = NtpSteps

\* A server a step need not care about any more.
Settled(s, n, known) ==
  \/ wanted[s][n] \in refused[s]
  \/ Resolves[wanted[s][n]] \cap known # {}

NtpProgress ==
  \A s \in NtpSteps :
    /\ nth[s] > 0
    /\ ntpPc[s] \in Adding => nth[s] <= Len(wanted[s])
    /\ ntpPc[s] \in {"read", "done"} => nth[s] = Len(wanted[s]) + 1

NtpSettled ==
  \A s \in NtpSteps :
    /\ seen[s] \subseteq DOMAIN sources
    /\ \A n \in DOMAIN wanted[s] : n < nth[s] => Settled(s, n, DOMAIN sources)
    /\ ntpPc[s] = "done" =>
         \A n \in DOMAIN wanted[s] : Settled(s, n, DOMAIN ntpReply[s])

NtpInv == NtpType /\ NtpProgress /\ NtpSettled
-----------------------------------------------------------------------------
\* A step starts before its first server, or, when it has none, at the reply.
LEMMA NtpStart == NtpInit => NtpInv
<1> SUFFICES ASSUME NtpInit PROVE NtpInv
  OBVIOUS
<1>1. wanted \in [NtpSteps -> Seq(NtpServers)]
  BY NtpAssumption DEF NtpInit
<1>2. DOMAIN sources \subseteq NtpAddresses
  BY DEF NtpInit
<1>3. NtpType
  BY <1>1, <1>2 DEF NtpInit, NtpType, Adding
<1>4. ASSUME NEW s \in NtpSteps
      PROVE  /\ Len(wanted[s]) \in Nat
             /\ wanted[s] # <<>> => Len(wanted[s]) > 0
             /\ wanted[s] = <<>> => Len(wanted[s]) = 0
  BY <1>1
<1>5. NtpProgress
  BY <1>4 DEF NtpInit, NtpProgress, Adding
<1>6. ASSUME NEW s \in NtpSteps, NEW n \in DOMAIN wanted[s]
      PROVE  n \in Nat \ {0}
  BY <1>1
<1>7. NtpSettled
  BY <1>6 DEF NtpInit, NtpSettled
<1> QED
  BY <1>3, <1>5, <1>7 DEF NtpInv

\* Chrony keeps its sources: what a step has settled stays settled.
LEMMA NtpKept ==
  ASSUME NtpInv, wanted' = wanted,
         DOMAIN sources \subseteq DOMAIN sources',
         \A s \in NtpSteps : refused[s] \subseteq refused'[s],
         NEW s \in NtpSteps, NEW n \in DOMAIN wanted[s], n < nth[s]
  PROVE  wanted'[s][n] \in refused'[s] \/ Resolves[wanted'[s][n]] \cap DOMAIN sources' # {}
BY DEF NtpInv, NtpSettled, Settled
-----------------------------------------------------------------------------
\* A step that goes to the next server leaves a settled one behind.
LEMMA NtpPassing ==
  ASSUME NtpInv, NEW s \in NtpSteps, ntpPc[s] \in Adding, NextServer(s),
         wanted' = wanted, ntpReply' = ntpReply,
         DOMAIN sources \subseteq DOMAIN sources',
         \A t \in NtpSteps : refused[t] \subseteq refused'[t],
         \A t \in NtpSteps : seen'[t] \subseteq DOMAIN sources',
         \/ Server(s) \in refused'[s]
         \/ Resolves[Server(s)] \cap DOMAIN sources' # {}
  PROVE  NtpProgress' /\ NtpSettled'
<1> USE DEF NtpInv, NtpType
<1>1. ASSUME NEW t \in NtpSteps
      PROVE  Len(wanted[t]) \in Nat /\ DOMAIN wanted[t] = 1 .. Len(wanted[t])
  OBVIOUS
<1>2. /\ nth'[s] = nth[s] + 1
      /\ ntpPc'[s] = IF nth[s] = Len(wanted[s]) THEN "read" ELSE "check"
      /\ \A t \in NtpSteps : t # s => nth'[t] = nth[t] /\ ntpPc'[t] = ntpPc[t]
  BY DEF NextServer
<1>3. NtpProgress'
  <2> SUFFICES ASSUME NEW t \in NtpSteps
               PROVE  /\ nth'[t] > 0
                      /\ ntpPc'[t] \in Adding => nth'[t] <= Len(wanted[t])
                      /\ ntpPc'[t] \in {"read", "done"} => nth'[t] = Len(wanted[t]) + 1
    BY DEF NtpProgress
  <2>1. CASE t # s
    BY <1>2, <2>1 DEF NtpProgress
  <2>2. CASE t = s
    <3>1. nth[s] \in Nat /\ nth[s] > 0 /\ nth[s] <= Len(wanted[s])
      BY DEF NtpProgress
    <3> QED
      BY <1>1, <1>2, <2>2, <3>1 DEF Adding
  <2> QED
    BY <2>1, <2>2
<1>4. ASSUME NEW t \in NtpSteps, NEW n \in DOMAIN wanted'[t], n < nth'[t]
      PROVE  Settled(t, n, DOMAIN sources)'
  <2>1. CASE n < nth[t]
    BY <2>1, NtpKept, Zenon DEF Settled
  <2>2. CASE t = s /\ n = nth[s]
    BY <2>2 DEF Settled, Server
  <2> QED
    BY <1>1, <1>2, <1>4, <2>1, <2>2
<1>5. ASSUME NEW t \in NtpSteps, ntpPc'[t] = "done", NEW n \in DOMAIN wanted'[t]
      PROVE  Settled(t, n, DOMAIN ntpReply[t])'
  <2>1. ntpPc[t] = "done"
    BY <1>2, <1>5
  <2> QED
    BY <2>1 DEF NtpSettled, Settled
<1>6. NtpSettled'
  BY <1>4, <1>5 DEF NtpSettled
<1> QED
  BY <1>3, <1>6

\* A step that stays at its server changes nothing else that counts.
LEMMA NtpStaying ==
  ASSUME NtpInv, NEW s \in NtpSteps, ntpPc[s] \in Adding,
         NEW state \in Adding, NtpGoto(s, state),
         wanted' = wanted, ntpReply' = ntpReply, refused' = refused, sources' = sources,
         \A t \in NtpSteps : seen'[t] \subseteq DOMAIN sources'
  PROVE  NtpProgress' /\ NtpSettled'
<1> USE DEF NtpInv, NtpType
<1>1. /\ nth' = nth /\ ntpPc'[s] = state
      /\ \A t \in NtpSteps : t # s => ntpPc'[t] = ntpPc[t]
  BY DEF NtpGoto
<1>2. NtpProgress'
  BY <1>1 DEF NtpProgress, Adding
<1>3. NtpSettled'
  BY <1>1, Zenon DEF NtpSettled, Settled, Adding
<1> QED
  BY <1>2, <1>3
-----------------------------------------------------------------------------
\* Moving on or staying keeps the types.
LEMMA NtpMoves ==
  ASSUME NtpInv, NEW s \in NtpSteps,
         NextServer(s) \/ \E state \in Adding \cup {"done", "failed"} : NtpGoto(s, state)
  PROVE  /\ nth' \in [NtpSteps -> Nat]
         /\ ntpPc' \in [NtpSteps -> Adding \cup {"read", "done", "failed"}]
<1> USE DEF NtpInv, NtpType
<1>1. CASE NextServer(s)
  <2>1. nth' = [nth EXCEPT ![s] = nth[s] + 1]
    BY <1>1 DEF NextServer
  <2>2. (IF nth[s] = Len(wanted[s]) THEN "read" ELSE "check") \in Adding \cup {"read"}
    BY DEF Adding
  <2> QED
    BY <1>1, <2>1, <2>2 DEF NextServer
<1>2. CASE \E state \in Adding \cup {"done", "failed"} : NtpGoto(s, state)
  BY <1>2 DEF NtpGoto
<1> QED
  BY <1>1, <1>2

\* The variables keep their types.
LEMMA NtpTypeStep == NtpInv /\ [NtpNext]_ntpVars => NtpType'
<1> SUFFICES ASSUME NtpInv, [NtpNext]_ntpVars PROVE NtpType'
  OBVIOUS
<1> USE DEF NtpInv, NtpType, Adding
<1>0. ASSUME NEW s \in NtpSteps, ntpPc[s] \in Adding PROVE Server(s) \in NtpServers
  <2>1. nth[s] \in 1 .. Len(wanted[s])
    BY <1>0 DEF NtpProgress
  <2> QED
    BY <2>1 DEF Server
<1>1. ASSUME NEW s \in NtpSteps, getNTPSources(s) PROVE NtpType'
  <2>1. NextServer(s) \/ \E state \in Adding \cup {"done", "failed"} : NtpGoto(s, state)
    BY <1>1 DEF getNTPSources
  <2>2. seen' \in [NtpSteps -> SUBSET NtpAddresses]
    BY <1>1, Zenon DEF getNTPSources
  <2> QED
    BY <1>1, <2>1, <2>2, NtpMoves DEF getNTPSources
<1>2. ASSUME NEW s \in NtpSteps, isServerConfigured(s) PROVE NtpType'
  <2>1. NextServer(s) \/ \E state \in Adding \cup {"done", "failed"} : NtpGoto(s, state)
    BY <1>2 DEF isServerConfigured
  <2> QED
    BY <1>2, <2>1, NtpMoves DEF isServerConfigured
<1>3. ASSUME NEW s \in NtpSteps, addServer(s) PROVE NtpType'
  <2>1. refused' \in [NtpSteps -> SUBSET NtpServers]
    <3>1. Server(s) \in NtpServers
      BY <1>0, <1>3 DEF addServer
    <3>2. refused' = refused \/ refused' = [refused EXCEPT ![s] = refused[s] \cup {Server(s)}]
      BY <1>3, Zenon DEF addServer
    <3>3. refused[s] \cup {Server(s)} \in SUBSET NtpServers
      BY <3>1
    <3> QED
      BY <3>2, <3>3, Zenon
  <2>2. Resolves[Server(s)] \subseteq NtpAddresses
    BY <1>0, <1>3 DEF addServer, NtpAddresses
  <2>3. DOMAIN sources' \subseteq NtpAddresses
    <3>1. DOMAIN sources \subseteq NtpAddresses
      BY DEF NtpInv, NtpType
    <3>2. \/ DOMAIN sources' = DOMAIN sources
          \/ \E a \in Resolves[Server(s)] : DOMAIN sources' = DOMAIN sources \cup {a}
      BY ONLY <1>3 DEF addServer
    <3> QED
      BY ONLY <2>2, <3>1, <3>2, Zenon
  <2> QED
    BY <1>3, <2>1, <2>3, NtpMoves DEF addServer
<1>4. ASSUME NEW s \in NtpSteps, RunNtp(s) PROVE NtpType'
  BY <1>4, Zenon DEF RunNtp, NtpGoto
<1>5. ASSUME NEW a \in NtpAddresses, Poll(a) PROVE NtpType'
  BY <1>5 DEF Poll
<1>6. CASE UNCHANGED ntpVars
  BY <1>6 DEF ntpVars
<1> QED
  BY <1>1, <1>2, <1>3, <1>4, <1>5, <1>6 DEF NtpNext

\* Every action preserves the invariant.
LEMMA NtpStep == NtpInv /\ [NtpNext]_ntpVars => NtpInv'
<1> SUFFICES ASSUME NtpInv, [NtpNext]_ntpVars PROVE NtpProgress' /\ NtpSettled'
  BY NtpTypeStep DEF NtpInv
<1>0. \A t \in NtpSteps : seen[t] \subseteq DOMAIN sources
  BY DEF NtpInv, NtpSettled
<1>1. ASSUME NEW s \in NtpSteps, getNTPSources(s) PROVE NtpProgress' /\ NtpSettled'
  <2>1. /\ ntpPc[s] \in Adding /\ UNCHANGED <<wanted, sources, refused, ntpReply>>
        /\ \A t \in NtpSteps : seen'[t] \subseteq DOMAIN sources'
    BY <1>0, <1>1, Zenon DEF getNTPSources, Adding, NtpInv, NtpType
  <2>2. CASE Server(s) \in DOMAIN sources /\ NextServer(s)
    <3>1. nth[s] \in 1 .. Len(wanted[s])
      BY <2>1 DEF NtpInv, NtpType, NtpProgress
    <3>2. Server(s) \in NtpServers /\ Server(s) \in NtpAddresses
      BY <2>2, <3>1 DEF Server, NtpInv, NtpType
    <3> QED
      BY <2>1, <2>2, <3>2, NtpAssumption, NtpPassing
  <2>3. CASE NtpGoto(s, "lookup") \/ NtpGoto(s, "add")
    BY <2>1, <2>3, NtpStaying DEF Adding
  <2> QED
    BY <1>1, <2>2, <2>3 DEF getNTPSources
<1>2. ASSUME NEW s \in NtpSteps, isServerConfigured(s) PROVE NtpProgress' /\ NtpSettled'
  <2>1. /\ ntpPc[s] \in Adding /\ UNCHANGED <<wanted, seen, sources, refused, ntpReply>>
    BY <1>2 DEF isServerConfigured, Adding
  <2>2. CASE Resolves[Server(s)] \cap seen[s] # {} /\ NextServer(s)
    <3>1. Resolves[Server(s)] \cap DOMAIN sources' # {}
      BY <1>0, <2>1, <2>2
    <3> QED
      BY <1>0, <2>1, <2>2, <3>1, NtpPassing
  <2>3. CASE NtpGoto(s, "add")
    BY <1>0, <2>1, <2>3, NtpStaying DEF Adding
  <2> QED
    BY <1>2, <2>2, <2>3 DEF isServerConfigured
<1>3. ASSUME NEW s \in NtpSteps, addServer(s) PROVE NtpProgress' /\ NtpSettled'
  <2>1. ntpPc[s] \in Adding /\ NextServer(s) /\ UNCHANGED <<wanted, seen, ntpReply>>
    BY <1>3 DEF addServer, Adding
  <2>2. CASE \E a \in Resolves[Server(s)] \ DOMAIN sources :
               /\ sources' = [b \in DOMAIN sources \cup {a} |-> IF b = a THEN "?" ELSE sources[b]]
               /\ UNCHANGED refused
    BY <1>0, <2>1, <2>2, NtpPassing
  <2>3. CASE /\ refused' = [refused EXCEPT ![s] = @ \cup {Server(s)}]
             /\ UNCHANGED sources
    <3>1. /\ Server(s) \in refused'[s]
          /\ \A t \in NtpSteps : refused[t] \subseteq refused'[t]
      BY <2>3 DEF NtpInv, NtpType
    <3> QED
      BY <1>0, <2>1, <2>3, <3>1, NtpPassing
  <2> QED
    BY <1>3, <2>2, <2>3 DEF addServer
<1>4. ASSUME NEW s \in NtpSteps, RunNtp(s) PROVE NtpProgress' /\ NtpSettled'
  <2>1. /\ ntpPc[s] = "read" /\ nth' = nth /\ ntpPc'[s] \in {"done", "failed"}
        /\ UNCHANGED <<wanted, seen, sources, refused>>
        /\ \A t \in NtpSteps : t # s => ntpPc'[t] = ntpPc[t] /\ ntpReply'[t] = ntpReply[t]
    BY <1>4 DEF RunNtp, NtpGoto, NtpInv, NtpType
  <2>2. ntpPc'[s] = "done" => DOMAIN ntpReply'[s] = DOMAIN sources
    BY <1>4 DEF RunNtp, NtpGoto, NtpInv, NtpType, formatChronySourcesOutput
  <2>3. NtpProgress'
    BY <2>1 DEF NtpProgress, NtpInv, Adding
  <2>4. ASSUME NEW n \in DOMAIN wanted[s] PROVE Settled(s, n, DOMAIN sources)
    <3>1. n < nth[s]
      BY <2>1 DEF NtpInv, NtpType, NtpProgress
    <3> QED
      BY <3>1 DEF NtpInv, NtpSettled
  <2>5. NtpSettled'
    BY <2>1, <2>2, <2>4, SMTT(20) DEF NtpSettled, NtpInv, Settled
  <2> QED
    BY <2>3, <2>5
<1>5. ASSUME NEW a \in NtpAddresses, Poll(a) PROVE NtpProgress' /\ NtpSettled'
  <2>1. UNCHANGED <<wanted, nth, ntpPc, seen, refused, ntpReply>> /\ DOMAIN sources' = DOMAIN sources
    BY <1>5 DEF Poll
  <2> QED
    BY <2>1 DEF NtpInv, NtpProgress, NtpSettled, Settled
<1>6. CASE UNCHANGED ntpVars
  BY <1>6 DEF ntpVars, NtpInv, NtpProgress, NtpSettled, Settled
<1> QED
  BY <1>1, <1>2, <1>3, <1>4, <1>5, <1>6 DEF NtpNext
-----------------------------------------------------------------------------
\* The servers a step has passed are settled, in every behaviour.
THEOREM NtpInvariance == NtpSpec => []NtpInv
BY NtpStart, NtpStep, PTL DEF NtpSpec

\* However many steps add servers at the same time, and whatever fails, each
\* reply has every server its step asked for that chrony did not refuse.
THEOREM NtpReportSafety == NtpSpec => []RequestedIsReported
<1>1. NtpInv => RequestedIsReported
  BY DEF NtpInv, NtpSettled, Settled, RequestedIsReported
<1> QED
  BY <1>1, NtpInvariance, PTL
-----------------------------------------------------------------------------
(***************************************************************************)
(* download_boot_artifacts and reboot_for_reclaim: what the runs leave     *)
(* under /boot and what the host reboots into.                             *)
(***************************************************************************)

\* What a run knows of its own loops, whether or not another one runs.
Counted(r) ==
  /\ stage[r] \in {"idle", "folders", "client", "get", "write"} => attempts[r] < MaxAttempts
  /\ stage[r] \in {"idle", "folders", "client"} => artifact[r] = 1
  /\ stage[r] \in {"get", "write"} => artifact[r] # Config

\* A run that has not ended is the only one.
OneRunning == \A q, r \in Runs : Running(q) /\ Running(r) => q = r

\* How far the only run is: what it has downloaded and what it has copied.  It goes
\* on behind an entry only while it copies that entry, or in the changed root.
Reached(r) ==
  /\ stage[r] \in {"get", "write"} => \A n \in Nums : n < artifact[r] => temp[n] = "whole"
  /\ stage[r] = "config" => \A n \in Nums \ {Config} : temp[n] = "whole"
  /\ stage[r] \in {"space", "create", "copy"} => \A n \in Nums : temp[n] = "whole"
  /\ stage[r] \in {"create", "copy"} => \A n \in Nums : n < artifact[r] => boot[n] = "whole"
  /\ Running(r) /\ boot[Config] # "absent" =>
       \/ stage[r] = "copy" /\ artifact[r] = Config
       \/ stage[r] = "folders" /\ chrooted
  /\ stage[r] \in {"exists", "copied"} => boot[Config] # "absent"

\* A reboot step that got into the root of the host.
Rebooting(q) == reclaim[q] \in {"zipl", "reboot", "done"}

\* The state of the reboot steps.
ReclaimInv ==
  /\ reclaim \in [Reboots -> {"idle", "zipl", "reboot", "failed", "done"}]
  /\ chrooted \in BOOLEAN /\ hostRebooted \in BOOLEAN
  /\ OneRebootPerProcess
  /\ \A q \in Reboots : Rebooting(q) => chrooted
  /\ \A q \in Reboots : reclaim[q] = "done" => hostRebooted
  /\ hostRebooted => \E q \in Reboots : reclaim[q] = "done"

\* What holds while one run ends before the next.
OneAtATime ==
  /\ OneRunning
  /\ \A r \in Runs : Reached(r)
  /\ \A q \in Reboots : Rebooting(q) => boot[Config] # "absent"

\* The inductive invariant.
BootInv ==
  /\ RunsTypeOK
  /\ \A r \in Runs : Counted(r)
  /\ ~concurrent => OneAtATime
  /\ EntryNeverDangles
  /\ CopiedIsWhole
  /\ ExistsIsLoadable

\* The initial states satisfy it.
LEMMA BootInit == ReclaimInit => BootInv /\ ReclaimInv
<1> SUFFICES ASSUME ReclaimInit
             PROVE  BootInv /\ ReclaimInv
    OBVIOUS
<1>1. RunsTypeOK
  BY RunsAssumption DEF ReclaimInit, RunsInit, RunsTypeOK, Nums, FileStates
<1>2. OneRunning /\ EntryNeverDangles /\ CopiedIsWhole /\ ExistsIsLoadable
  BY DEF ReclaimInit, RunsInit, OneRunning, Running, EntryNeverDangles, CopiedIsWhole,
     ExistsIsLoadable, Nums, Config
<1>3. ASSUME NEW r \in Runs
      PROVE  Counted(r) /\ Reached(r)
  <2>1. stage[r] = "idle" /\ attempts[r] < MaxAttempts /\ artifact[r] = 1
    BY RunsAssumption DEF ReclaimInit, RunsInit
  <2> QED
    BY <2>1 DEF Counted, Reached, Running
<1>4. ReclaimInv /\ \A q \in Reboots : ~Rebooting(q)
  BY Zenon DEF ReclaimInit, ReclaimInv, Rebooting, OneRebootPerProcess
<1> QED
  BY <1>1, <1>2, <1>3, <1>4 DEF BootInv, OneAtATime

\* A step of one run in its own root keeps it.
LEMMA BootRunStep ==
  ASSUME BootInv, NEW r \in Runs, Outside, RunStep(r)
  PROVE  BootInv'
<1>1. CASE Start(r)
  BY <1>1 DEF Start, bootArtifactsExist, BootInv, RunsTypeOK, OneAtATime, OneRunning,
     Counted, Reached, Rebooting, EntryNeverDangles, CopiedIsWhole, ExistsIsLoadable,
     Running, EndStages, Nums, Config, FileStates, Enter, Outside, reclaimVars
<1>2. CASE createFolders(r)
  <2>1. CASE TryAgain(r, "folders")
    BY <1>2, <2>1, RunsAssumption DEF createFolders, TryAgain, BootInv, RunsTypeOK,
       OneAtATime, OneRunning, Counted, Reached, Rebooting, EntryNeverDangles,
       CopiedIsWhole, ExistsIsLoadable, Running, EndStages, Nums, Config, FileStates,
       Enter, Outside, reclaimVars
  <2>2. CASE Enter(r, "client") /\ attempts' = [attempts EXCEPT ![r] = 0]
    BY <1>2, <2>2, RunsAssumption DEF createFolders, BootInv, RunsTypeOK, OneAtATime,
       OneRunning, Counted, Reached, Rebooting, EntryNeverDangles, CopiedIsWhole,
       ExistsIsLoadable, Running, EndStages, Nums, Config, FileStates, Enter, Outside,
       reclaimVars
  <2> QED
    BY <1>2, <2>1, <2>2 DEF createFolders
<1>10. CASE createHTTPClient(r)
  <2>1. PICK where \in {"get", "failed"} : Enter(r, where)
    BY <1>10, Zenon DEF createHTTPClient
  <2> QED
    BY <1>10, <2>1 DEF createHTTPClient, BootInv, RunsTypeOK, OneAtATime, OneRunning,
       Counted, Reached, Rebooting, EntryNeverDangles, CopiedIsWhole, ExistsIsLoadable,
       Running, EndStages, Nums, Config, FileStates, Enter, Outside, reclaimVars
<1>3. CASE downloadAnswered(r)
  <2>1. CASE TryAgain(r, "get") /\ UNCHANGED temp
    BY <1>3, <2>1, RunsAssumption DEF downloadAnswered, TryAgain, BootInv, RunsTypeOK,
       OneAtATime, OneRunning, Counted, Reached, Rebooting, EntryNeverDangles,
       CopiedIsWhole, ExistsIsLoadable, Running, EndStages, Nums, Config, FileStates,
       Enter, Outside, reclaimVars
  <2>2. CASE Enter(r, "failed") /\ UNCHANGED <<attempts, temp>>
    BY <1>3, <2>2 DEF downloadAnswered, BootInv, RunsTypeOK, OneAtATime, OneRunning,
       Counted, Reached, Rebooting, EntryNeverDangles, CopiedIsWhole, ExistsIsLoadable,
       Running, EndStages, Nums, Config, FileStates, Enter, Outside, reclaimVars
  <2>3. CASE /\ temp' = [temp EXCEPT ![artifact[r]] = "partial"]
             /\ Enter(r, "write")
             /\ attempts' = [attempts EXCEPT ![r] = 0]
    BY <1>3, <2>3, RunsAssumption DEF downloadAnswered, BootInv, RunsTypeOK, OneAtATime,
       OneRunning, Counted, Reached, Rebooting, EntryNeverDangles, CopiedIsWhole,
       ExistsIsLoadable, Running, EndStages, Nums, Config, FileStates, Enter, Outside,
       reclaimVars
  <2> QED
    BY <1>3, <2>1, <2>2, <2>3, Zenon DEF downloadAnswered
<1>4. CASE downloadUnanswered(r)
  BY <1>4, RunsAssumption DEF downloadUnanswered, ProcessDies, Dead, BootInv,
     RunsTypeOK, OneAtATime, OneRunning, Counted, Reached, Rebooting, EntryNeverDangles,
     CopiedIsWhole, ExistsIsLoadable, Running, EndStages, Nums, Config, FileStates, Enter,
     Outside, reclaimVars
<1>5. CASE downloadWritten(r)
  BY <1>5 DEF downloadWritten, BootInv, RunsTypeOK, OneAtATime, OneRunning, Counted,
     Reached, Rebooting, EntryNeverDangles, CopiedIsWhole, ExistsIsLoadable, Running,
     EndStages, Nums, Config, FileStates, Enter, Outside, reclaimVars
<1>6. CASE createBootLoaderConfigInTempFolder(r)
  BY <1>6 DEF createBootLoaderConfigInTempFolder, BootInv, RunsTypeOK, OneAtATime,
     OneRunning, Counted, Reached, Rebooting, EntryNeverDangles, CopiedIsWhole,
     ExistsIsLoadable, Running, EndStages, Nums, Config, FileStates, Enter, Outside,
     reclaimVars
<1>7. CASE ensureBootHasSpace(r)
  BY <1>7 DEF ensureBootHasSpace, BootInv, RunsTypeOK, OneAtATime, OneRunning, Counted,
     Reached, Rebooting, EntryNeverDangles, CopiedIsWhole, ExistsIsLoadable, Running,
     EndStages, Nums, Config, FileStates, Enter, Outside, reclaimVars
<1>8. CASE copyCreates(r)
  BY <1>8 DEF copyCreates, BootInv, RunsTypeOK, OneAtATime, OneRunning, Counted,
     Reached, Rebooting, EntryNeverDangles, CopiedIsWhole, ExistsIsLoadable, Running,
     EndStages, Nums, Config, FileStates, Enter, Outside, reclaimVars
<1>9. CASE copyEnds(r)
  BY <1>9 DEF copyEnds, NextCopy, BootInv, RunsTypeOK, OneAtATime, OneRunning, Counted,
     Reached, Rebooting, EntryNeverDangles, CopiedIsWhole, ExistsIsLoadable, Running,
     EndStages, Nums, Config, FileStates, Enter, Outside, reclaimVars
<1> QED
  BY <1>1, <1>2, <1>3, <1>4, <1>5, <1>6, <1>7, <1>8, <1>9, <1>10 DEF RunStep

\* A step of one run in the root of the host keeps it.
LEMMA BootInsideStep ==
  ASSUME BootInv, NEW r \in Runs, InsideStep(r)
  PROVE  BootInv' /\ UNCHANGED reclaimVars
<1>1. CASE StartInside(r)
  BY <1>1 DEF StartInside, BootInv, RunsTypeOK, OneAtATime, OneRunning, Counted,
     Reached, Rebooting, EntryNeverDangles, CopiedIsWhole, ExistsIsLoadable, Running,
     EndStages, Nums, Config, FileStates, Enter, reclaimVars
<1>2. CASE createFoldersInside(r)
  BY <1>2, RunsAssumption DEF createFoldersInside, TryAgain, BootInv, RunsTypeOK,
     OneAtATime, OneRunning, Counted, Reached, Rebooting, EntryNeverDangles,
     CopiedIsWhole, ExistsIsLoadable, Running, EndStages, Nums, Config, FileStates, Enter,
     reclaimVars
<1>3. CASE downloadInside(r)
  BY <1>3, RunsAssumption DEF downloadInside, TryAgain, BootInv, RunsTypeOK, OneAtATime,
     OneRunning, Counted, Reached, Rebooting, EntryNeverDangles, CopiedIsWhole,
     ExistsIsLoadable, Running, EndStages, Nums, Config, FileStates, Enter, reclaimVars
<1>4. CASE filesInside(r)
  BY <1>4 DEF filesInside, BootInv, RunsTypeOK, OneAtATime, OneRunning, Counted,
     Reached, Rebooting, EntryNeverDangles, CopiedIsWhole, ExistsIsLoadable, Running,
     EndStages, Nums, Config, FileStates, Enter, reclaimVars
<1> QED
  BY <1>1, <1>2, <1>3, <1>4 DEF InsideStep

\* A reboot step keeps it: it finds an entry in place, and changes nothing under /boot.
LEMMA BootReclaimStep ==
  ASSUME BootInv, ReclaimInv, NEW q \in Reboots, ReclaimStep(q)
  PROVE  BootInv' /\ ReclaimInv'
<1>1. UNCHANGED runVars
  BY DEF ReclaimStep, Chroot, Zipl, Reboot
<1>2. ReclaimInv'
  <2>1. CASE Chroot(q)
    <3>1. CASE ~chrooted
      BY <2>1, <3>1, Zenon DEF OneRebootPerProcess, Chroot, ReclaimGoto, ReclaimInv,
         Rebooting
    <3>2. CASE ReclaimGoto(q, "failed") /\ UNCHANGED chrooted
      BY <2>1, <3>2 DEF OneRebootPerProcess, Chroot, ReclaimGoto, ReclaimInv, Rebooting
    <3> QED
      BY <2>1, <3>1, <3>2 DEF Chroot
  <2>2. CASE Zipl(q)
    BY <2>2 DEF OneRebootPerProcess, Zipl, ReclaimGoto, ReclaimInv, Rebooting
  <2>3. CASE Reboot(q)
    <3>1. hostRebooted' => reclaim'[q] = "done"
      BY <2>3, Zenon DEF Reboot, ReclaimGoto, ReclaimInv
    <3> QED
      BY <2>3, <3>1, Zenon DEF Reboot, ReclaimGoto, ReclaimInv, Rebooting,
         OneRebootPerProcess
  <2> QED
    BY <2>1, <2>2, <2>3, Zenon DEF ReclaimStep
<1>3. ~concurrent => \A p \in Reboots : Rebooting(p)' => boot[Config] # "absent"
  BY DEF BootInv, OneAtATime, Reached, Downloaded, ReclaimStep, Chroot, Zipl, Reboot,
     Rebooting
<1>4. chrooted => chrooted'
  BY Zenon DEF ReclaimStep, Chroot, Zipl, Reboot
<1>5. BootInv'
  BY <1>1, <1>3, <1>4 DEF runVars, BootInv, RunsTypeOK, OneAtATime, OneRunning, Counted,
     Reached, EntryNeverDangles, CopiedIsWhole, ExistsIsLoadable, Running
<1> QED
  BY <1>2, <1>5

\* Every step keeps it.
LEMMA BootStep == BootInv /\ ReclaimInv /\ [ReclaimNext]_allVars => BootInv' /\ ReclaimInv'
<1> SUFFICES ASSUME BootInv, ReclaimInv, [ReclaimNext]_allVars
             PROVE  BootInv' /\ ReclaimInv'
    OBVIOUS
<1>1. CASE ProcessRestarts
  <2>1. BootInv'
    BY <1>1, RunsAssumption DEF ProcessRestarts, ProcessCrash, ProcessDies, Dead,
       BootInv, RunsTypeOK, OneAtATime, OneRunning, Counted, Reached, Rebooting,
       EntryNeverDangles, CopiedIsWhole, ExistsIsLoadable, Running, EndStages, FileStates
  <2>2. ReclaimInv'
    BY <1>1, Zenon DEF ProcessRestarts, ReclaimInv, Rebooting, OneRebootPerProcess
  <2> QED
    BY <2>1, <2>2
<1>2. ASSUME UNCHANGED reclaimVars
      PROVE  ReclaimInv'
  BY <1>2 DEF reclaimVars, ReclaimInv, Rebooting, OneRebootPerProcess
<1>3. ASSUME NEW r \in Runs, Outside, RunStep(r)
      PROVE  BootInv' /\ ReclaimInv'
  BY <1>2, <1>3, BootRunStep DEF Outside
<1>4. ASSUME NEW r \in Runs, InsideStep(r)
      PROVE  BootInv' /\ ReclaimInv'
  BY <1>2, <1>4, BootInsideStep
<1>5. CASE UNCHANGED allVars
  <2>1. BootInv'
    BY <1>5 DEF allVars, runVars, reclaimVars, BootInv, RunsTypeOK, OneAtATime,
       OneRunning, Counted, Reached, Rebooting, EntryNeverDangles, CopiedIsWhole,
       ExistsIsLoadable, Running
  <2> QED
    BY <1>2, <1>5, <2>1 DEF allVars
<1> QED
  BY <1>1, <1>3, <1>4, <1>5, BootReclaimStep DEF ReclaimNext, RunStep

\* The two invariants hold in every reachable state.
THEOREM BootInvariant == ReclaimSpec => [](BootInv /\ ReclaimInv)
  BY BootInit, BootStep, PTL DEF ReclaimSpec

\* The state stays within its type, runs that overlap included: no loop makes more
\* attempts than it may, and no run downloads or copies a fourth file.
THEOREM BootTypeCorrect == ReclaimSpec => []RunsTypeOK
<1>1. BootInv => RunsTypeOK
  BY DEF BootInv
<1> QED
  BY <1>1, BootInvariant, PTL

\* With one run at a time, whatever fails and however often the process dies or
\* changes its root, the boot loader entry never names a missing or cut-short file.
THEOREM BootEntrySafety == ReclaimSpec => []EntryNeverDangles
<1>1. BootInv => EntryNeverDangles
  BY DEF BootInv
<1> QED
  BY <1>1, BootInvariant, PTL

\* With one run at a time, a run that says it copied the artifacts has left three
\* whole files for good.
THEOREM BootCopySafety == ReclaimSpec => []CopiedIsWhole
<1>1. BootInv => CopiedIsWhole
  BY DEF BootInv
<1> QED
  BY <1>1, BootInvariant, PTL

\* With one run at a time, a run that skips the download has a kernel and an initrd
\* that can be loaded.
THEOREM BootSkipSafety == ReclaimSpec => []ExistsIsLoadable
<1>1. BootInv => ExistsIsLoadable
  BY DEF BootInv
<1> QED
  BY <1>1, BootInvariant, PTL

\* With one run at a time, reboot_for_reclaim reboots the host into an entry whose
\* kernel and initrd are whole.
THEOREM RebootSafety == ReclaimSpec => []RebootIsLoadable
<1>1. BootInv /\ ReclaimInv => RebootIsLoadable
  BY DEF BootInv, OneAtATime, ReclaimInv, Rebooting, EntryNeverDangles, RebootIsLoadable
<1> QED
  BY <1>1, BootInvariant, PTL

\* One process of the runner gets into the root of the host for one reboot step only.
THEOREM ChrootSafety == ReclaimSpec => []OneRebootPerProcess
<1>1. ReclaimInv => OneRebootPerProcess
  BY DEF ReclaimInv
<1> QED
  BY <1>1, BootInvariant, PTL

-----------------------------------------------------------------------------
(***************************************************************************)
(* dhcp_lease_allocate: what the response of a step holds and what the     *)
(* steps leave behind.                                                     *)
(***************************************************************************)

\* A step between LeaseAllocate and its end.
Working == {"look", "add", "up", "write", "dhclient", "delete", "read", "extract"}

\* The file of a name ends with a lease of its interface.
FileIsOurs == \A n \in Names : file[n] # None => file[n].last.iface = n

\* The first address is there before the second is asked for, and the address of a
\* name before its lease.
Given(s) ==
  /\ pc[s] = "idle" => name[s] = "api"
  /\ pc[s] \in Working /\ name[s] = "ingress" => vip[s]["api"] # None
  /\ pc[s] = "extract" => vip[s][name[s]] # None
  /\ pc[s] = "done" => \A n \in Names : vip[s][n] # None

\* Interfaces, files and responses carry the MACs of the cluster.
Cluster(s, n) ==
  /\ links[n] # None => links[n] = asked[s].macs[n]
  /\ file[n] # None => file[n].last.mac = asked[s].macs[n]
  /\ vip[s][n] # None => vip[s][n].mac = asked[s].macs[n]

\* A step that is not over is the only one.
OneActive == \A s, t \in Steps : Active(s) /\ Active(t) => s = t

\* The file does not change between the two reads of the only step.
ReadTwice(s) ==
  /\ pc[s] = "extract" => file[name[s]] # None /\ vip[s][name[s]] = file[name[s]].last
  /\ pc[s] \in Working /\ name[s] = "ingress" => lease[s]["api"] = vip[s]["api"]
  /\ pc[s] = "done" => \A n \in Names : lease[s][n] = vip[s][n]

\* An interface is that of a step which will delete it.
Deleter(n) == \E s \in Steps : name[s] = n /\ pc[s] \in {"up", "write", "dhclient", "delete"}
LinksAreOwned ==
  crashes = 0 /\ ~undeleted => \A n \in Names : links[n] # None => Deleter(n)

\* The inductive invariant.
DhcpInv ==
  /\ TypeOK
  /\ FileIsOurs
  /\ \A s \in Steps : Given(s)
  /\ SameMacs => \A s \in Steps, n \in Names : Cluster(s, n)
  /\ ~overlap => OneActive /\ \A s \in Steps : ReadTwice(s)
  /\ LinksAreOwned

\* The initial states satisfy the inductive invariant.
LEMMA DhcpInit == Init => DhcpInv
<1> SUFFICES ASSUME Init
             PROVE  DhcpInv
    OBVIOUS
<1>1. TypeOK
  <2>1. crashes \in 0 .. MaxCrashes
    BY DhcpAssumption DEF Init
  <2>2. failing \in [Steps -> BOOLEAN] /\ undeleted \in BOOLEAN
    BY Zenon DEF Init
  <2>3. asked \in [Steps -> Requests] /\ overlap \in BOOLEAN /\ server \in BOOLEAN
    BY DhcpAssumption DEF Init
  <2> QED
    BY <2>1, <2>2, <2>3 DEF Init, TypeOK, Names
<1>2. FileIsOurs /\ LinksAreOwned /\ OneActive
  BY DEF Init, FileIsOurs, LinksAreOwned, OneActive, Active
<1>3. \A s \in Steps : Given(s) /\ ReadTwice(s)
  BY Zenon DEF Init, Given, ReadTwice, Working
<1>4. \A s \in Steps, n \in Names : Cluster(s, n)
  BY DEF Init, Cluster
<1> QED
  BY <1>1, <1>2, <1>3, <1>4 DEF DhcpInv

\* What dhclient leaves is a file that ends with a lease of the interface.
LEMMA ObtainedFile ==
  ASSUME DhcpInv, NEW n \in Names, links[n] # None, NEW f \in Obtained(n)
  PROVE  /\ f \in [first : Leases, last : Leases]
         /\ f.last.iface = n
         /\ (f.last.mac = links[n]) \/ (f = file[n] /\ file[n] # None)
<1>1. links[n] \in Macs /\ file[n] \in [first : Leases, last : Leases] \cup {None}
  BY DEF DhcpInv, TypeOK
<1>2. CASE server
  <2>1. PICK a \in Addresses :
          f = LET l == [iface |-> n, mac |-> links[n], address |-> a]
              IN  [first |-> IF file[n] = None THEN l ELSE file[n].first, last |-> l]
    BY <1>2 DEF Obtained
  <2> DEFINE l == [iface |-> n, mac |-> links[n], address |-> a]
  <2>2. l \in Leases /\ f.last = l /\ l.iface = n /\ l.mac = links[n]
    BY <1>1, <2>1 DEF Leases
  <2>3. f \in [first : Leases, last : Leases]
    BY <1>1, <2>1, <2>2
  <2>4. f.last.iface = n /\ f.last.mac = links[n]
    BY <2>2
  <2> QED
    BY <2>3, <2>4
<1>3. CASE ~server
  BY <1>1, <1>3 DEF Obtained, DhcpInv, FileIsOurs
<1> QED
  BY <1>2, <1>3

\* The update of one entry of a table.
LEMMA Nested ==
  ASSUME NEW S, NEW N, NEW T, NEW f \in [S -> [N -> T]], NEW s \in S, NEW n \in N, NEW x \in T
  PROVE  [f EXCEPT ![s][n] = x] \in [S -> [N -> T]]
OBVIOUS

\* NextName goes to a known place and name.
LEMMA NextNameType ==
  ASSUME TypeOK, NEW s \in Steps, NextName(s)
  PROVE  pc' \in [Steps -> Working \cup Ended \cup {"idle"}] /\ name' \in [Steps -> Names]
<1>1. name' \in [Steps -> Names]
  BY DEF TypeOK, NextName, Names
<1>2. pc' \in [Steps -> Working \cup Ended \cup {"idle"}]
  BY DEF TypeOK, NextName, Goto, Working, Ended
<1> QED
  BY <1>1, <1>2

\* Every step keeps the type.
LEMMA DhcpType ==
  ASSUME DhcpInv, Next
  PROVE  TypeOK'
<1> USE DEF TypeOK, Goto, Proceed, Fail, inputs, Ended
<1>0. TypeOK
  BY Zenon DEF DhcpInv
<1>1. CASE Crash
  BY <1>0, <1>1, DhcpAssumption DEF Crash
<1> SUFFICES ASSUME NEW s \in Steps, LeaseAllocate(s) \/ StepAction(s)
             PROVE  TypeOK'
  BY <1>1 DEF Next
<1> DEFINE n == name[s]
<1>2. n \in Names /\ asked[s] \in Requests /\ macOf(s, n) \in Macs
  BY <1>0 DEF Requests, macOf
<1>3. CASE LeaseAllocate(s) \/ LookForLink(s) \/ SetUpLink(s)
  BY <1>0, <1>3, Zenon DEF LeaseAllocate, LookForLink, SetUpLink
<1>4. CASE AddLink(s)
  <2>1. links' \in [Names -> Macs \cup {None}]
    BY <1>0, <1>2, <1>4, Zenon DEF AddLink
  <2>2. failing' \in [Steps -> BOOLEAN]
    BY <1>0, <1>4, Zenon DEF AddLink
  <2> QED
    BY <1>0, <1>4, <2>1, <2>2, Zenon DEF AddLink
<1>5. CASE WriteLease(s)
  <2>1. file' \in [Names -> [first : Leases, last : Leases] \cup {None}]
    <3>1. CASE UNCHANGED file
      BY <1>0, <3>1, Zenon
    <3>2. ASSUME NEW a \in Addresses,
                 LET sent == [iface |-> "foreign", mac |-> macOf(s, name[s]), address |-> a]
                     l    == formatLeaseFile(sent, name[s])
                 IN  file' = [file EXCEPT ![name[s]] = [first |-> l, last |-> l]]
          PROVE  file' \in [Names -> [first : Leases, last : Leases] \cup {None}]
      <4> DEFINE l == [iface |-> n, mac |-> macOf(s, n), address |-> a]
      <4>1. l \in Leases
        BY <1>2 DEF Leases
      <4>3. formatLeaseFile([iface |-> "foreign", mac |-> macOf(s, n), address |-> a], n) = l
        BY DEF formatLeaseFile
      <4>2. file' = [file EXCEPT ![n] = [first |-> l, last |-> l]]
        BY <3>2, <4>3, Zenon
      <4> QED
        BY <1>0, <1>2, <4>1, <4>2, Zenon
    <3> QED
      BY <1>5, <3>1, <3>2, Zenon DEF WriteLease
  <2> QED
    BY <1>0, <1>5, <2>1, Zenon DEF WriteLease
<1>6. CASE dhclient(s)
  <2>1. file' \in [Names -> [first : Leases, last : Leases] \cup {None}]
    <3>1. CASE UNCHANGED file
      BY <1>0, <3>1
    <3>2. ASSUME links[n] # None, NEW f \in Obtained(n), file' = [file EXCEPT ![n] = f]
          PROVE  file' \in [Names -> [first : Leases, last : Leases] \cup {None}]
      <4>1. f \in [first : Leases, last : Leases]
        BY <1>2, <3>2, ObtainedFile
      <4> QED
        BY <1>0, <1>2, <3>2, <4>1, Zenon
    <3> QED
      BY <1>6, <3>1, <3>2, Zenon DEF dhclient
  <2> QED
    BY <1>0, <1>6, <2>1, Zenon DEF dhclient
<1>7. CASE deleteInterface(s)
  BY <1>0, <1>2, <1>7, Zenon DEF deleteInterface
<1>8. CASE GetLastLease(s)
  <2>1. file[n] # None => file[n].last \in Leases
    BY <1>0, <1>2, Zenon
  <2>2. vip' \in [Steps -> [Names -> Leases \cup {None}]]
    <3>1. CASE UNCHANGED vip
      BY <1>0, <3>1
    <3>2. CASE file[n] # None /\ vip' = [vip EXCEPT ![s][n] = file[n].last]
      BY <1>0, <1>2, <2>1, <3>2, Nested, Zenon
    <3> QED
      BY <1>8, <3>1, <3>2, Zenon DEF GetLastLease
  <2>3. name' \in [Steps -> Names] /\ pc' \in [Steps -> Working \cup Ended \cup {"idle"}]
    <3>1. CASE NextName(s)
      BY <1>0, <3>1, NextNameType, Zenon
    <3>2. CASE (Goto(s, "failed") \/ Goto(s, "extract")) /\ UNCHANGED name
      BY <1>0, <3>2 DEF Working
    <3> QED
      BY <1>8, <3>1, <3>2, Zenon DEF GetLastLease
  <2> QED
    BY <1>0, <1>8, <2>2, <2>3, Zenon DEF GetLastLease, Working
<1>9. CASE extractLastLease(s)
  <2>1. file[n] # None => lastLease(file[n]) \in Leases
    BY <1>0, <1>2 DEF lastLease
  <2>2. lease' \in [Steps -> [Names -> Leases \cup {None}]]
    <3>1. CASE UNCHANGED lease
      BY <1>0, <3>1
    <3>2. CASE file[n] # None /\ lease' = [lease EXCEPT ![s][n] = lastLease(file[n])]
      BY <1>0, <1>2, <2>1, <3>2, Nested, Zenon
    <3> QED
      BY <1>9, <3>1, <3>2 DEF extractLastLease
  <2>3. name' \in [Steps -> Names] /\ pc' \in [Steps -> Working \cup Ended \cup {"idle"}]
    <3>1. CASE NextName(s)
      BY <1>0, <3>1, NextNameType, Zenon
    <3>2. CASE Goto(s, "failed") /\ UNCHANGED name
      BY <1>0, <3>2 DEF Working
    <3> QED
      BY <1>9, <3>1, <3>2 DEF extractLastLease
  <2> QED
    BY <1>0, <1>9, <2>2, <2>3, Zenon DEF extractLastLease, Working
<1> QED
  BY <1>3, <1>4, <1>5, <1>6, <1>7, <1>8, <1>9, Zenon DEF StepAction

\* The files stay files of their interface: formatLeaseFile and dhclient name it.
LEMMA DhcpFiles ==
  ASSUME DhcpInv, Next
  PROVE  FileIsOurs'
<1> USE DEF DhcpInv, TypeOK, FileIsOurs
<1>1. CASE UNCHANGED file
  BY <1>1
<1>2. CASE Crash
  BY <1>2 DEF Crash
<1>3. ASSUME NEW s \in Steps, WriteLease(s), NEW a \in Addresses,
             LET sent == [iface |-> "foreign", mac |-> macOf(s, name[s]), address |-> a]
                 l    == formatLeaseFile(sent, name[s])
             IN  file' = [file EXCEPT ![name[s]] = [first |-> l, last |-> l]]
      PROVE  FileIsOurs'
  <2> DEFINE l == [iface |-> name[s], mac |-> macOf(s, name[s]), address |-> a]
  <2>1. formatLeaseFile([iface |-> "foreign", mac |-> macOf(s, name[s]), address |-> a], name[s]) = l
    BY ONLY s \in Steps DEF formatLeaseFile
  <2>2. file' = [file EXCEPT ![name[s]] = [first |-> l, last |-> l]]
    BY <1>3, <2>1, Zenon
  <2> QED
    BY <2>2, Zenon
<1>4. ASSUME NEW s \in Steps, links[name[s]] # None, NEW f \in Obtained(name[s]),
             file' = [file EXCEPT ![name[s]] = f]
      PROVE  FileIsOurs'
  <2>1. f.last.iface = name[s]
    BY <1>4, ObtainedFile
  <2> QED
    BY <1>4, <2>1
<1> QED
  BY <1>1, <1>2, <1>3, <1>4, Zenon DEF Next, StepAction, LeaseAllocate, LookForLink, AddLink, SetUpLink,
     WriteLease, dhclient, deleteInterface, GetLastLease, extractLastLease

\* The addresses of a response are filled in order.
LEMMA DhcpGiven ==
  ASSUME DhcpInv, Next
  PROVE  \A s \in Steps : Given(s)'
<1> USE DEF TypeOK, Given, Goto, Proceed, Fail, Working, Ended
<1>0. TypeOK /\ \A s \in Steps : Given(s)
  BY Zenon DEF DhcpInv
<1>1. CASE Crash
  BY <1>0, <1>1 DEF Crash, Active
<1> DEFINE Before == {"look", "add", "up", "write", "dhclient", "delete", "read", "failed"}
<1>2. ASSUME NEW t \in Steps, pc[t] \in Working \cup {"idle"}, NEW x \in Before,
             pc' = [pc EXCEPT ![t] = x], UNCHANGED <<name, vip>>
      PROVE  \A s \in Steps : Given(s)'
  <2>1. pc \in [Steps -> Working \cup Ended \cup {"idle"}] /\ name[t] \in Names
    BY <1>0
  <2>2. Given(t)'
    BY ONLY <1>0, <1>2, <2>1, t \in Steps DEF Given, Working, Ended, Names
  <2>3. ASSUME NEW s \in Steps, s # t
        PROVE  Given(s)'
    BY ONLY <1>0, <1>2, <2>1, <2>3 DEF Given
  <2> QED
    BY ONLY <2>2, <2>3
<1>3. ASSUME NEW t \in Steps,
             \/ LeaseAllocate(t) \/ LookForLink(t) \/ AddLink(t) \/ SetUpLink(t)
             \/ WriteLease(t) \/ dhclient(t) \/ deleteInterface(t)
      PROVE  \A s \in Steps : Given(s)'
  <2>1. pc[t] \in Working \cup {"idle"} /\ UNCHANGED <<name, vip>>
    BY ONLY <1>3, Zenon DEF LeaseAllocate, LookForLink, AddLink, SetUpLink, WriteLease, dhclient,
       deleteInterface, Working
  <2>2. \E x \in Before : pc' = [pc EXCEPT ![t] = x]
    BY ONLY <1>3, Zenon DEF LeaseAllocate, LookForLink, AddLink, SetUpLink, WriteLease, dhclient,
       deleteInterface, Goto, Proceed, Fail
  <2> QED
    BY ONLY <1>2, <2>1, <2>2, t \in Steps, Zenon
<1>4. ASSUME NEW t \in Steps, GetLastLease(t)
      PROVE  \A s \in Steps : Given(s)'
  <2>1. file[name[t]] # None => file[name[t]].last \in Leases /\ file[name[t]].last # None
    BY <1>0, DhcpAssumption
  <2>2. file[name[t]] # None => file[name[t]].last.iface = name[t]
    BY <1>0, Zenon DEF DhcpInv, FileIsOurs
  <2>3. CASE Goto(t, "failed") /\ UNCHANGED <<name, vip>>
    BY <1>0, <2>3
  <2>4. CASE /\ pc[t] = "read" /\ file[name[t]] # None
             /\ vip' = [vip EXCEPT ![t][name[t]] = file[name[t]].last]
             /\ Goto(t, "extract") /\ UNCHANGED name
    <3>1. \A s \in Steps, n \in Names : vip[s][n] # None => vip'[s][n] # None
      BY <1>0, <2>1, <2>4
    <3>2. vip'[t][name[t]] # None
      BY <1>0, <2>1, <2>4
    <3>3. ASSUME NEW s \in Steps
          PROVE  Given(s)'
      BY <1>0, <2>4, <3>1, <3>2, <3>3, Zenon DEF Names
    <3> QED
      BY <3>3
  <2> QED
    BY <1>4, <2>2, <2>3, <2>4 DEF GetLastLease
<1>5. ASSUME NEW t \in Steps, extractLastLease(t)
      PROVE  \A s \in Steps : Given(s)'
  <2>1. /\ pc \in [Steps -> Working \cup Ended \cup {"idle"}]
        /\ name \in [Steps -> Names]
    BY <1>0
  <2>2. pc[t] = "extract" /\ UNCHANGED vip
    BY ONLY <1>5 DEF extractLastLease
  <2>3. \/ pc' = [pc EXCEPT ![t] = "failed"] /\ UNCHANGED name
        \/ NextName(t)
    BY ONLY <1>5 DEF extractLastLease, Goto
  <2>4. CASE pc' = [pc EXCEPT ![t] = "failed"] /\ UNCHANGED name
    BY ONLY <1>2, <2>2, <2>4, t \in Steps, Zenon DEF Working
  <2>5. CASE NextName(t)
    <3>1. /\ pc' = [pc EXCEPT ![t] = IF name[t] = "api" THEN "look" ELSE "done"]
          /\ name' = [name EXCEPT ![t] = "ingress"]
      BY ONLY <2>5 DEF NextName, Goto
    <3>2. ASSUME NEW s \in Steps, s # t
          PROVE  Given(s)'
      <4>1. Given(s) /\ pc'[s] = pc[s] /\ name'[s] = name[s] /\ vip'[s] = vip[s]
        BY ONLY <1>0, <2>1, <2>2, <3>1, <3>2
      <4> QED
        BY ONLY <4>1 DEF Given
    <3>3. Given(t)'
      <4>1. /\ Given(t) /\ name[t] \in Names /\ name'[t] = "ingress"
            /\ pc'[t] = IF name[t] = "api" THEN "look" ELSE "done"
        BY ONLY <1>0, <2>1, <3>1, t \in Steps, Zenon
      <4> QED
        BY ONLY <2>2, <4>1 DEF Given, Working, Names
    <3> QED
      BY ONLY <3>2, <3>3
  <2> QED
    BY ONLY <2>3, <2>4, <2>5
<1> QED
  BY ONLY Next, <1>1, <1>3, <1>4, <1>5, Zenon DEF Next, StepAction

\* While the cluster keeps its MACs, so do interfaces, files and responses.
LEMMA DhcpCluster ==
  ASSUME DhcpInv, Next, SameMacs
  PROVE  \A s \in Steps, n \in Names : Cluster(s, n)'
<1> USE DEF Cluster
<1>0. /\ \A s \in Steps, n \in Names : Cluster(s, n)
      /\ name \in [Steps -> Names]
      /\ links \in [Names -> Macs \cup {None}]
      /\ file \in [Names -> [first : Leases, last : Leases] \cup {None}]
      /\ vip \in [Steps -> [Names -> Leases \cup {None}]]
  BY Zenon DEF DhcpInv, TypeOK
<1>1. UNCHANGED asked
  BY Zenon DEF Next, StepAction, LeaseAllocate, LookForLink, AddLink, SetUpLink, WriteLease, dhclient,
     deleteInterface, GetLastLease, extractLastLease, Crash, inputs
<1>2. CASE Crash
  BY <1>0, <1>1, <1>2 DEF Crash
<1>3. ASSUME NEW t \in Steps, LeaseAllocate(t) \/ LookForLink(t) \/ SetUpLink(t)
      PROVE  \A s \in Steps, n \in Names : Cluster(s, n)'
  <2>1. UNCHANGED <<links, file, vip>>
    BY ONLY <1>3, Zenon DEF LeaseAllocate, LookForLink, SetUpLink
  <2> QED
    BY ONLY <1>0, <1>1, <2>1 DEF Cluster
<1>4. ASSUME NEW t \in Steps, AddLink(t)
      PROVE  \A s \in Steps, n \in Names : Cluster(s, n)'
  <2>1. UNCHANGED <<file, vip>>
    BY ONLY <1>4, Zenon DEF AddLink
  <2>2. CASE UNCHANGED links
    BY ONLY <1>0, <1>1, <2>1, <2>2 DEF Cluster
  <2>3. CASE links' = [links EXCEPT ![name[t]] = macOf(t, name[t])]
    <3>1. \A s \in Steps : macOf(t, name[t]) = asked[s].macs[name[t]]
      BY ONLY SameMacs, t \in Steps, Zenon DEF SameMacs, macOf
    <3>2. \A n \in Names : links'[n] = IF n = name[t] THEN macOf(t, name[t]) ELSE links[n]
      BY ONLY <1>0, <2>3
    <3> QED
      BY ONLY <1>0, <1>1, <2>1, <3>1, <3>2, Zenon DEF Cluster
  <2> QED
    BY ONLY <1>4, <2>2, <2>3, Zenon DEF AddLink
<1>5. ASSUME NEW t \in Steps, WriteLease(t)
      PROVE  \A s \in Steps, n \in Names : Cluster(s, n)'
  <2>1. CASE UNCHANGED file
    BY <1>0, <1>1, <1>5, <2>1, Zenon DEF WriteLease
  <2>2. ASSUME NEW a \in Addresses,
               LET sent == [iface |-> "foreign", mac |-> macOf(t, name[t]), address |-> a]
                   l    == formatLeaseFile(sent, name[t])
               IN  file' = [file EXCEPT ![name[t]] = [first |-> l, last |-> l]]
        PROVE  \A s \in Steps, n \in Names : Cluster(s, n)'
    <3> DEFINE l == [iface |-> name[t], mac |-> macOf(t, name[t]), address |-> a]
    <3>1. formatLeaseFile([iface |-> "foreign", mac |-> macOf(t, name[t]), address |-> a], name[t]) = l
      BY DEF formatLeaseFile
    <3>2. file' = [file EXCEPT ![name[t]] = [first |-> l, last |-> l]]
      BY <2>2, <3>1, Zenon
    <3>3. \A s \in Steps : l.mac = asked[s].macs[name[t]]
      BY Zenon DEF macOf, SameMacs
    <3> QED
      BY <1>0, <1>1, <1>5, <3>2, <3>3, Zenon DEF WriteLease
  <2> QED
    BY <1>5, <2>1, <2>2, Zenon DEF WriteLease
<1>6. ASSUME NEW t \in Steps, dhclient(t)
      PROVE  \A s \in Steps, n \in Names : Cluster(s, n)'
  <2>1. ASSUME links[name[t]] # None, NEW f \in Obtained(name[t])
        PROVE  \A s \in Steps : f.last.mac = asked[s].macs[name[t]]
    <3>1. (f.last.mac = links[name[t]]) \/ (f = file[name[t]] /\ file[name[t]] # None)
      BY <1>0, <2>1, ObtainedFile, Zenon
    <3>2. name[t] \in Names
      BY ONLY <1>0, t \in Steps, Zenon
    <3> QED
      BY ONLY <1>0, <2>1, <3>1, <3>2, Zenon DEF Cluster
  <2>2. UNCHANGED <<links, vip>>
    BY ONLY <1>6, Zenon DEF dhclient
  <2>3. CASE UNCHANGED file
    BY ONLY <1>0, <1>1, <2>2, <2>3, Zenon DEF Cluster
  <2>4. ASSUME links[name[t]] # None, NEW f \in Obtained(name[t]), file' = [file EXCEPT ![name[t]] = f]
        PROVE  \A s \in Steps, n \in Names : Cluster(s, n)'
    <3>1. \A n \in Names : file'[n] = IF n = name[t] THEN f ELSE file[n]
      BY ONLY <1>0, <2>4, Zenon
    <3>2. \A s \in Steps : f.last.mac = asked[s].macs[name[t]]
      BY <2>1, <2>4, Zenon
    <3>3. ASSUME NEW s \in Steps, NEW n \in Names
          PROVE  Cluster(s, n)'
      <4>1. Cluster(s, n) /\ (file'[n] = IF n = name[t] THEN f ELSE file[n])
        BY ONLY <1>0, <3>1, <3>3, Zenon
      <4>2. f.last.mac = asked[s].macs[name[t]]
        BY ONLY <3>2, <3>3, Zenon
      <4>3. file'[n] # None => file'[n].last.mac = asked[s].macs[n]
        BY ONLY <4>1, <4>2, Zenon DEF Cluster
      <4> QED
        BY ONLY <1>1, <2>2, <4>1, <4>3, Zenon DEF Cluster
    <3> QED
      BY ONLY <3>3, Zenon
  <2> QED
    BY ONLY <1>6, <2>3, <2>4, Zenon DEF dhclient
<1>7. ASSUME NEW t \in Steps, deleteInterface(t)
      PROVE  \A s \in Steps, n \in Names : Cluster(s, n)'
  BY <1>0, <1>1, <1>7, Zenon DEF deleteInterface
<1>8. ASSUME NEW t \in Steps, GetLastLease(t) \/ extractLastLease(t)
      PROVE  \A s \in Steps, n \in Names : Cluster(s, n)'
  <2>0. UNCHANGED <<links, file>>
    BY ONLY <1>8, Zenon DEF GetLastLease, extractLastLease
  <2>1. CASE UNCHANGED vip
    BY ONLY <1>0, <1>1, <2>0, <2>1, Zenon DEF Cluster
  <2>2. CASE file[name[t]] # None /\ vip' = [vip EXCEPT ![t][name[t]] = file[name[t]].last]
    <3>1. ASSUME NEW s \in Steps, NEW n \in Names, vip'[s][n] # None
          PROVE  vip'[s][n].mac = asked[s].macs[n]
      <4>1. vip'[s][n] = IF s = t /\ n = name[t] THEN file[name[t]].last ELSE vip[s][n]
        BY ONLY <1>0, <2>2, s \in Steps, n \in Names, t \in Steps, Zenon
      <4>2. Cluster(s, n) /\ (s = t /\ n = name[t] => Cluster(s, name[t]))
        BY ONLY <1>0, s \in Steps, n \in Names, Zenon
      <4>3. CASE s = t /\ n = name[t]
        BY ONLY <2>2, <4>1, <4>2, <4>3, Zenon DEF Cluster
      <4>4. CASE ~(s = t /\ n = name[t])
        BY ONLY <3>1, <4>1, <4>2, <4>4, Zenon DEF Cluster
      <4> QED
        BY ONLY <4>3, <4>4
    <3> QED
      BY ONLY <1>0, <1>1, <2>0, <3>1, Zenon DEF Cluster
  <2> QED
    BY <1>8, <2>1, <2>2, Zenon DEF GetLastLease, extractLastLease
<1> QED
  BY <1>2, <1>3, <1>4, <1>5, <1>6, <1>7, <1>8, Zenon DEF Next, StepAction

\* With one step at a time, nobody else is active and the two reads agree.
LEMMA DhcpReads ==
  ASSUME DhcpInv, Next, ~overlap
  PROVE  OneActive' /\ \A s \in Steps : ReadTwice(s)'
<1> USE DEF TypeOK, Goto, Proceed, Fail, Working, Ended, Active
<1>0. TypeOK /\ OneActive /\ \A s \in Steps : ReadTwice(s)
  BY Zenon DEF DhcpInv
<1>1. CASE Crash
  BY <1>0, <1>1, Zenon DEF Crash, OneActive, ReadTwice
<1> SUFFICES ASSUME NEW t \in Steps, LeaseAllocate(t) \/ StepAction(t)
             PROVE  OneActive' /\ \A s \in Steps : ReadTwice(s)'
  BY <1>1 DEF Next
<1>2. \A s \in Steps : s # t => ~Active(s) /\ pc'[s] = pc[s]
  BY <1>0, Zenon DEF OneActive, StepAction, LeaseAllocate, LookForLink, AddLink, SetUpLink, WriteLease,
     dhclient, deleteInterface, GetLastLease, extractLastLease, NextName
<1>3. OneActive'
  BY <1>2 DEF OneActive
<1>4. ASSUME NEW s \in Steps, s # t
      PROVE  ReadTwice(s)'
  <2>1. pc'[s] \notin Working /\ (pc'[s] = "done" => pc[s] = "done")
    BY <1>0, <1>2, <1>4, Zenon
  <2>2. vip'[s] = vip[s] /\ lease'[s] = lease[s]
    BY <1>0, <1>4, Zenon DEF StepAction, LeaseAllocate, LookForLink, AddLink, SetUpLink, WriteLease,
       dhclient, deleteInterface, GetLastLease, extractLastLease
  <2> QED
    BY <1>0, <2>1, <2>2, Zenon DEF ReadTwice
<1>5. ReadTwice(t)'
  <2>0. ReadTwice(t) /\ Given(t)
    BY <1>0, Zenon DEF DhcpInv
  <2>1. CASE LeaseAllocate(t) \/ LookForLink(t) \/ AddLink(t) \/ SetUpLink(t)
    BY <1>0, <2>0, <2>1, Zenon DEF ReadTwice, Given, LeaseAllocate, LookForLink, AddLink, SetUpLink
  <2>2. CASE WriteLease(t) \/ dhclient(t) \/ deleteInterface(t)
    BY <1>0, <2>0, <2>2, Zenon DEF ReadTwice, WriteLease, dhclient, deleteInterface
  <2>3. CASE GetLastLease(t)
    <3>1. CASE Goto(t, "failed")
      BY <1>0, <3>1, Zenon DEF ReadTwice
    <3>2. CASE /\ file[name[t]] # None
               /\ vip' = [vip EXCEPT ![t][name[t]] = file[name[t]].last]
               /\ Goto(t, "extract") /\ UNCHANGED name
      <4>1. pc'[t] = "extract" /\ name'[t] = name[t] /\ UNCHANGED <<file, lease>> /\ pc[t] = "read"
        BY <1>0, <2>3, <3>2, Zenon DEF GetLastLease
      <4>2. vip'[t][name[t]] = file[name[t]].last
        BY <1>0, <3>2, Zenon
      <4>3. name[t] = "ingress" => vip'[t]["api"] = vip[t]["api"]
        BY <1>0, <3>2, Zenon DEF Names
      <4> QED
        BY <2>0, <3>2, <4>1, <4>2, <4>3, Zenon DEF ReadTwice
    <3>3. file[name[t]] # None => file[name[t]].last.iface = name[t]
      BY <1>0, Zenon DEF DhcpInv, FileIsOurs
    <3> QED
      BY <2>3, <3>1, <3>2, <3>3, Zenon DEF GetLastLease
  <2>4. CASE extractLastLease(t)
    <3>1. CASE Goto(t, "failed")
      BY <1>0, <3>1, Zenon DEF ReadTwice
    <3>2. CASE /\ lease' = [lease EXCEPT ![t][name[t]] = lastLease(file[name[t]])]
               /\ NextName(t)
      <4>1. pc[t] = "extract" /\ UNCHANGED <<vip, file>>
        BY <2>4 DEF extractLastLease
      <4>2. lease'[t][name[t]] = vip[t][name[t]]
        BY <1>0, <2>0, <3>2, <4>1, Zenon DEF ReadTwice, lastLease
      <4>3. name[t] = "ingress" => lease'[t]["api"] = vip[t]["api"]
        BY <1>0, <2>0, <3>2, <4>1, Zenon DEF ReadTwice, Names
      <4>4. name[t] = "ingress" => \A n \in Names : lease'[t][n] = vip[t][n]
        BY ONLY <4>2, <4>3 DEF Names
      <4>5. \/ name[t] = "api" /\ pc'[t] = "look" /\ name'[t] = "ingress"
            \/ name[t] = "ingress" /\ pc'[t] = "done"
        BY <1>0, <3>2, Zenon DEF NextName, Names
      <4> QED
        BY <4>1, <4>2, <4>4, <4>5, Zenon DEF ReadTwice
    <3> QED
      BY <2>4, <3>1, <3>2, Zenon DEF extractLastLease
  <2> QED
    BY <2>1, <2>2, <2>3, <2>4, Zenon DEF StepAction
<1> QED
  BY <1>3, <1>4, <1>5

\* No step of the process counts a crash, and only a failed deletion is remembered.
LEMMA StepKeeps ==
  ASSUME NEW t \in Steps, LeaseAllocate(t) \/ StepAction(t)
  PROVE  crashes' = crashes /\ (undeleted => undeleted')
<1>1. CASE LeaseAllocate(t)
  BY ONLY <1>1 DEF LeaseAllocate
<1>2. CASE LookForLink(t)
  BY ONLY <1>2 DEF LookForLink
<1>3. CASE AddLink(t)
  BY ONLY <1>3 DEF AddLink
<1>4. CASE SetUpLink(t)
  BY ONLY <1>4 DEF SetUpLink
<1>5. CASE WriteLease(t)
  BY ONLY <1>5, Zenon DEF WriteLease
<1>6. CASE dhclient(t)
  BY ONLY <1>6 DEF dhclient
<1>7. CASE deleteInterface(t)
  <2>1. crashes' = crashes
    BY ONLY <1>7, Zenon DEF deleteInterface
  <2>2. CASE UNCHANGED undeleted
    BY ONLY <2>1, <2>2
  <2>3. CASE undeleted' = TRUE
    BY ONLY <2>1, <2>3
  <2> QED
    BY ONLY <1>7, <2>2, <2>3, Zenon DEF deleteInterface
<1>8. CASE GetLastLease(t)
  BY ONLY <1>8, Zenon DEF GetLastLease
<1>9. CASE extractLastLease(t)
  BY ONLY <1>9 DEF extractLastLease
<1> QED
  BY ONLY Zenon, <1>1, <1>2, <1>3, <1>4, <1>5, <1>6, <1>7, <1>8, <1>9,
     LeaseAllocate(t) \/ StepAction(t) DEF StepAction

\* Whoever adds an interface, or takes it as it is, comes to deleteInterface.
LEMMA DhcpLinks ==
  ASSUME DhcpInv, Next
  PROVE  LinksAreOwned'
<1> USE DEF TypeOK, Goto, Proceed, Fail, Ended
<1>0. TypeOK /\ LinksAreOwned
  BY Zenon DEF DhcpInv
<1>1. CASE Crash
  <2>0. crashes \in 0 .. MaxCrashes
    BY ONLY <1>0, Zenon DEF TypeOK
  <2>1. crashes \in Nat
    BY ONLY <2>0, DhcpAssumption
  <2>2. crashes' = crashes + 1
    BY ONLY <1>1 DEF Crash
  <2>3. crashes' # 0
    BY ONLY <2>1, <2>2
  <2> QED
    BY ONLY <2>3 DEF LinksAreOwned
<1> SUFFICES ASSUME NEW t \in Steps, LeaseAllocate(t) \/ StepAction(t),
                    crashes' = 0, ~undeleted', NEW n \in Names, links'[n] # None
             PROVE  Deleter(n)'
  BY <1>1 DEF Next, LinksAreOwned
<1>2. crashes = 0 /\ ~undeleted
  <2>1. crashes' = crashes /\ (undeleted => undeleted')
    BY StepKeeps
  <2> QED
    BY ONLY <2>1, crashes' = 0, ~undeleted'
<1>3. CASE deleteInterface(t)
  <2>1. links' = [links EXCEPT ![name[t]] = None]
    BY <1>3, Zenon DEF deleteInterface
  <2>2. n # name[t] /\ links[n] # None
    BY <1>0, <2>1, Zenon
  <2>3. PICK s \in Steps : name[s] = n /\ pc[s] \in {"up", "write", "dhclient", "delete"}
    BY <1>0, <1>2, <2>2, Zenon DEF LinksAreOwned, Deleter
  <2> QED
    BY <1>0, <1>3, <2>2, <2>3, Zenon DEF deleteInterface, Deleter
<1>4. CASE AddLink(t) /\ n = name[t] /\ links[n] = None
  BY <1>0, <1>4, Zenon DEF AddLink, Deleter
<1>5. ASSUME links[n] # None, ~deleteInterface(t)
      PROVE  Deleter(n)'
  <2>1. PICK s \in Steps : name[s] = n /\ pc[s] \in {"up", "write", "dhclient", "delete"}
    BY <1>0, <1>2, <1>5, Zenon DEF LinksAreOwned, Deleter
  <2>2. name'[s] = n /\ pc'[s] \in {"up", "write", "dhclient", "delete"}
    BY <1>0, <1>5, <2>1, Zenon DEF StepAction, LeaseAllocate, LookForLink, AddLink, SetUpLink, WriteLease,
       dhclient, GetLastLease, extractLastLease, NextName
  <2> QED
    BY <2>2 DEF Deleter
<1>6. links[n] = None => AddLink(t) /\ n = name[t]
  BY <1>0, Zenon DEF StepAction, LeaseAllocate, LookForLink, AddLink, SetUpLink, WriteLease, dhclient,
     deleteInterface, GetLastLease, extractLastLease
<1> QED
  BY <1>3, <1>4, <1>5, <1>6, Zenon

\* Every step keeps the inductive invariant.
LEMMA DhcpStep == DhcpInv /\ [Next]_vars => DhcpInv'
<1> SUFFICES ASSUME DhcpInv, [Next]_vars
             PROVE  DhcpInv'
    OBVIOUS
<1>1. CASE UNCHANGED vars
  <2>1. UNCHANGED <<asked, overlap, server, pc, name, failing, vip, lease, links, file, undeleted,
                    crashes>>
    BY ONLY <1>1 DEF vars, inputs
  <2>2. TypeOK'
    BY <2>1, Zenon DEF DhcpInv, TypeOK
  <2>3. FileIsOurs' /\ \A s \in Steps : Given(s)'
    BY <2>1, Zenon DEF DhcpInv, FileIsOurs, Given
  <2>4. SameMacs' => \A s \in Steps, n \in Names : Cluster(s, n)'
    BY <2>1, Zenon DEF DhcpInv, SameMacs, Cluster
  <2>5. ~overlap' => OneActive' /\ \A s \in Steps : ReadTwice(s)'
    BY <2>1, Zenon DEF DhcpInv, OneActive, Active, ReadTwice
  <2>6. LinksAreOwned'
    BY <2>1, Zenon DEF DhcpInv, LinksAreOwned, Deleter
  <2> QED
    BY ONLY <2>2, <2>3, <2>4, <2>5, <2>6, Zenon DEF DhcpInv
<1>2. CASE Next
  <2>1. UNCHANGED inputs
    BY <1>2, Zenon DEF Next, StepAction, LeaseAllocate, LookForLink, AddLink, SetUpLink, WriteLease,
       dhclient, deleteInterface, GetLastLease, extractLastLease, Crash, inputs
  <2>2. (SameMacs' <=> SameMacs) /\ overlap' = overlap
    BY <2>1 DEF inputs, SameMacs
  <2> QED
    BY <1>2, <2>2, DhcpType, DhcpFiles, DhcpGiven, DhcpCluster, DhcpReads, DhcpLinks, Zenon DEF DhcpInv
<1> QED
  BY <1>1, <1>2

\* The inductive invariant holds in every reachable state.
THEOREM DhcpInvariant == Spec => []DhcpInv
  BY DhcpInit, DhcpStep, PTL DEF Spec

\* The state of the steps stays within its type.
THEOREM DhcpTypeCorrect == Spec => []TypeOK
<1>1. DhcpInv => TypeOK
  BY DEF DhcpInv
<1> QED
  BY <1>1, DhcpInvariant, PTL

\* A response of leaseByMac without an error never lacks an address, whatever steps
\* overlap and however often the process dies.
THEOREM ResponseIsFilled == Spec => []NoEmptyVip
<1>1. DhcpInv => NoEmptyVip
  BY Zenon DEF DhcpInv, Given, NoEmptyVip
<1> QED
  BY <1>1, DhcpInvariant, PTL

\* While the cluster keeps its MACs, a response carries the addresses leased to them.
THEOREM ResponseIsForMac == Spec => []VipIsForMac
<1>1. DhcpInv => VipIsForMac
  BY Zenon DEF DhcpInv, Cluster, VipIsForMac
<1> QED
  BY <1>1, DhcpInvariant, PTL

\* With one step at a time, the address and the lease of a response are those of one
\* lease, although the file is read twice.
THEOREM ResponseIsConsistent == Spec => []VipHasLease
<1>1. DhcpInv => VipHasLease
  BY Zenon DEF DhcpInv, ReadTwice, VipHasLease
<1> QED
  BY <1>1, DhcpInvariant, PTL

\* No interface is left of steps that ended by themselves, unless deleting one failed.
THEOREM NoLinkIsLeft == Spec => []LinksAreDeleted
<1>1. DhcpInv => LinksAreDeleted
  BY Zenon DEF DhcpInv, LinksAreOwned, Deleter, LinksAreDeleted, Active, Ended
<1> QED
  BY <1>1, DhcpInvariant, PTL
=============================================================================
