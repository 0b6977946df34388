---------------------------- MODULE InstallerArgs ----------------------------
(***************************************************************************)
(* The command line of the install step: what Validate accepts, which      *)
(* flags getFullInstallerCommand passes to the installer, and how          *)
(* hasManualNetworkConfig decides on --copy-network.                       *)
(*                                                                         *)
(* A request is a record.  Texts are abstracted to what the code tells     *)
(* apart: "" for absent, "ok" for well formed, "bad" for malformed.  Times *)
(* are counted in the finest unit of the clock; a file system may keep     *)
(* them more coarsely.                                                     *)
(***************************************************************************)
EXTENDS Integers, Sequences, Functions, Sorting

Texts == {"", "ok", "bad"}

\* A disk of the request: its name may not start with /dev/, or nothing is there.
Disks == {"present", "missing", "elsewhere"}

pathExists(disk) == disk = "present"

validateDisks(r) ==
  \A disk \in Range(r.disksToFormat) \cup {r.bootDevice} : disk # "elsewhere" /\ pathExists(disk)

validateProxy(p) == "bad" \notin {p.http, p.https, p.no}

\* Text that is no JSON is the one image of "ocp"; each image is checked, and the
\* operator it is for.
validateMustGatherImages(entries) ==
  \A e \in entries : e.image = "ok" /\ e.operator \in {"cnv", "lso", "ocs", "odf", "ocp"}

\* A nil proxy is one without any address.  installerArgs is the list of arguments,
\* or an element outside of the known ones for text that does not parse.
Validate(r) ==
  /\ validateMustGatherImages(r.mustGather)
  /\ validateProxy(r.proxy)
  /\ "bad" \notin Range(r.installerArgs)
  /\ r.version # "bad"
  /\ validateDisks(r)
-----------------------------------------------------------------------------
\* A time as a file system of that granularity keeps it.
Kept(t, granularity) == t - (t % granularity)

NoTime == -1

\* The birth of the log directory, if the console wrote its log and the file
\* system knows births.
agentTUIStartTime(host) ==
  IF host.tuiLog /\ host.birthTimes THEN Kept(host.tuiStart, host.granularity) ELSE NoTime

\* Mutant of isManual: a file of the very instant of the start is left out.
isManualLater(host, f) ==
  /\ ~f.dir /\ f.readable
  /\ Kept(f.written, host.granularity) > agentTUIStartTime(host)
  /\ f.connection

\* A key file written when the console had been started.
isManual(host, f) ==
  /\ ~f.dir /\ f.readable
  /\ ~(Kept(f.written, host.granularity) < agentTUIStartTime(host))
  /\ f.connection

hasManualNetworkConfig(host) ==
  agentTUIStartTime(host) # NoTime /\ \E f \in host.files : isManual(host, f)

buildInstallerArgs(r, host) ==
  IF hasManualNetworkConfig(host) /\ "copy-network" \notin Range(r.installerArgs)
  THEN Append(r.installerArgs, "copy-network") ELSE r.installerArgs
-----------------------------------------------------------------------------
\* The arguments are a sequence of flags and values.
Flag(name) == [flag |-> TRUE, of |-> name]
Value(name) == [flag |-> FALSE, of |-> name]
Valued(name) == <<Flag(name), Value(name)>>
Given(cond, args) == IF cond THEN args ELSE <<>>

\* The no-proxy list alone is not passed on.
getProxyArguments(p) ==
  Given(p.http # "" \/ p.https # "",
        Given(p.http # "", Valued("http-proxy")) \o Given(p.https # "", Valued("https-proxy"))
          \o Given(p.no # "", Valued("no-proxy")))

\* Mutant of insecureArg: the flag is followed by its value.
insecureWithValue(r) == Given(r.insecure, Valued("insecure"))

\* A boolean flag has no value.
insecureArg(r) == Given(r.insecure, <<Flag("insecure")>>)

\* role and host-id stand for the eight flags that are always there.
installerParts(r, host) ==
  <<Valued("role"), Valued("host-id"),
    Given(r.controlPlaneCount # 0, Valued("control-plane-count")),
    Given(r.mcoImage, Valued("mco-image")),
    Given(r.mustGather # {}, Valued("must-gather-image")),
    Given(r.version # "", Valued("openshift-version")),
    Joined([n \in DOMAIN r.disksToFormat |-> Valued("format-disk")]),
    insecureArg(r),
    Given(r.checkCvo, <<Flag("check-cluster-version")>>),
    Given(r.skipCleanup, <<Flag("skip-installation-disk-cleanup")>>),
    Given(r.caCert, Valued("cacert")),
    Given(buildInstallerArgs(r, host) # <<>>, Valued("installer-args")),
    Given(r.skipMcoReboot, <<Flag("enable-skip-mco-reboot")>>),
    Given(r.notifyReboots, <<Flag("notify-num-reboots")>>),
    getProxyArguments(r.proxy),
    Given(r.serviceIps, Valued("service-ips")),
    Given(r.coreosImage, Valued("coreos-image"))>>

getFullInstallerCommand(r, host) == Joined(installerParts(r, host))

\* The flags of the installer that take no value.
BooleanFlags ==
  {"insecure", "check-cluster-version", "skip-installation-disk-cleanup",
   "enable-skip-mco-reboot", "notify-num-reboots"}

\* Go's flag package: a flag that takes a value takes the next argument for it; the
\* first argument that is no flag ends the flags.
Scan(acc, arg) ==
  CASE acc.state = "stopped" -> acc
    [] acc.state = "value" -> [acc EXCEPT !.state = "flag"]
    [] acc.state = "flag" /\ ~arg.flag -> [acc EXCEPT !.state = "stopped"]
    [] OTHER -> [state |-> IF arg.of \in BooleanFlags THEN "flag" ELSE "value",
                 seen |-> acc.seen \cup {arg.of}]
Parsed(args) ==
  LET parse[n \in 0 .. Len(args)] ==
        IF n = 0 THEN [state |-> "flag", seen |-> {}] ELSE Scan(parse[n - 1], args[n])
  IN parse[Len(args)]
-----------------------------------------------------------------------------
\* The installer sees every flag the step passes to it: no flag is taken for the
\* value of another, none comes after the end of the flags.
ArgumentsAreSeen(r, host) ==
  LET args == getFullInstallerCommand(r, host)
      p == Parsed(args)
  IN /\ p.state = "flag"
     /\ p.seen = {args[n].of : n \in {m \in DOMAIN args : args[m].flag}}
     /\ "insecure" \in p.seen <=> r.insecure
     /\ "no-proxy" \in p.seen => p.seen \cap {"http-proxy", "https-proxy"} # {}

\* The network a user configured in the console is copied, whatever the granularity
\* of the file system; on one that keeps exact times, nothing else is.
ConsoleNetworkIsCopied(r, host) ==
  LET copied == "copy-network" \in Range(buildInstallerArgs(r, host))
      usable(f) == ~f.dir /\ f.readable /\ f.connection
      session == host.tuiLog /\ host.birthTimes
      byUser == \E f \in host.files : usable(f) /\ f.written >= host.tuiStart
      asked == "copy-network" \in Range(r.installerArgs)
  IN /\ session /\ byUser => copied
     /\ copied /\ host.granularity = 1 => asked \/ (session /\ byUser)
=============================================================================
