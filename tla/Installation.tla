----------------------------- MODULE Installation -----------------------------
(***************************************************************************)
(* The steps that share podman together with the command line of the       *)
(* installer: what a running installer was started with.                   *)
(***************************************************************************)
EXTENDS InstallCommand, InstallerArgs

\* What a request to install says, and the host it finds.  Times are numbers, and a
\* file system keeps them in units of at least one.
ASSUME RequestAssumption ==
  \A a \in Asked : \A s \in DOMAIN a : a[s].kind = "install" =>
    /\ a[s].insecure \in BOOLEAN
    /\ a[s].installerArgs \in Seq(STRING)
    /\ a[s].disksToFormat \in Seq(Disks)
    /\ a[s].host.tuiStart \in Nat
    /\ a[s].host.granularity \in Nat \ {0}
    /\ \A f \in a[s].host.files : f.written \in Nat
-----------------------------------------------------------------------------
\* The installer that is started sees every flag of the step that started it.
InstallerSeesArguments ==
  container.state = "running" =>
    ArgumentsAreSeen(asked[container.owner], asked[container.owner].host)

\* The installer that is started copies the network configured in the console.
InstallerCopiesNetwork ==
  container.state = "running" =>
    ConsoleNetworkIsCopied(asked[container.owner], asked[container.owner].host)
=============================================================================
