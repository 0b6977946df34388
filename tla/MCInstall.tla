------------------------------ MODULE MCInstall ------------------------------
(***************************************************************************)
(* Small instances of Installation: steps that meet, and single installs   *)
(* over many requests and hosts.                                           *)
(***************************************************************************)
EXTENDS Installation, TLC

NoProxy == [http |-> "", https |-> "", no |-> ""]
File(written, dir, connection) ==
  [written |-> written, dir |-> dir, readable |-> TRUE, connection |-> connection]

\* A host whose console was started at 3 and whose network was configured then.
Console(files, granularity) ==
  [tuiLog |-> TRUE, birthTimes |-> TRUE, tuiStart |-> 3, granularity |-> granularity,
   files |-> files]
PlainHost == [Console({File(2, FALSE, TRUE)}, 1) EXCEPT !.tuiLog = FALSE]

PlainRequest ==
  [kind |-> "install", image |-> "installer", mustGather |-> {}, proxy |-> NoProxy,
   installerArgs |-> <<>>, version |-> "ok", disksToFormat |-> <<>>, bootDevice |-> "present",
   controlPlaneCount |-> 3, mcoImage |-> FALSE, insecure |-> FALSE, checkCvo |-> FALSE,
   skipCleanup |-> FALSE, caCert |-> FALSE, skipMcoReboot |-> FALSE, notifyReboots |-> FALSE,
   serviceIps |-> FALSE, coreosImage |-> FALSE, host |-> PlainHost]

Stop == [kind |-> "stop"]
Check1 == [kind |-> "check", images |-> <<"installer", "other">>, timeout |-> 1, dry |-> FALSE]
Check2 == [kind |-> "check", images |-> <<"other">>, timeout |-> 0, dry |-> FALSE]
DryCheck == [kind |-> "check", images |-> <<"other">>, timeout |-> 1, dry |-> TRUE]

Meeting ==
  {("i" :> PlainRequest) @@ ("j" :> PlainRequest) @@ ("s" :> Stop),
   ("i" :> PlainRequest) @@ ("s" :> Stop) @@ ("t" :> Stop) @@ ("d" :> DryCheck),
   ("i" :> PlainRequest) @@ ("c" :> Check1) @@ ("d" :> Check2)}

\* Malformed and well formed parts of a request, one at a time.
Requests ==
  {[PlainRequest EXCEPT !.proxy = [http |-> h, https |-> s, no |-> n]] :
     h, s, n \in Texts}
    \cup {[PlainRequest EXCEPT !.disksToFormat = <<d>>, !.bootDevice = b] : d, b \in Disks}
    \cup {[PlainRequest EXCEPT !.mustGather = {[operator |-> o, image |-> i]}, !.version = v] :
            o \in {"ocp", "other"}, i \in {"ok", "bad"}, v \in Texts}
    \cup {[PlainRequest EXCEPT !.insecure = x, !.checkCvo = y, !.skipCleanup = y,
                               !.skipMcoReboot = z, !.notifyReboots = z, !.caCert = x,
                               !.serviceIps = y, !.coreosImage = z, !.mcoImage = y,
                               !.controlPlaneCount = IF z THEN 1 ELSE 0] :
            x, y, z \in BOOLEAN}

\* Key files around the start of the console, on file systems that keep times
\* exactly, in twos and in threes.
NetworkHosts ==
  {Console({File(w, d, c), File(2, FALSE, TRUE)}, g) :
     w \in 0 .. 5, d, c \in BOOLEAN, g \in {1, 2, 3}}
    \cup {[Console({File(4, FALSE, TRUE)}, 1) EXCEPT !.tuiLog = t, !.birthTimes = b] :
            t, b \in BOOLEAN}
    \cup {Console({}, 1)}

Single ==
  {"i" :> r : r \in Requests}
    \cup {"i" :> [PlainRequest EXCEPT !.host = h, !.installerArgs = a] :
            h \in NetworkHosts, a \in {<<>>, <<"copy-network">>, <<"append-karg">>, <<"bad">>}}

SmallAsked == Meeting \cup Single
SmallStores == {{}, {"installer"}}
=============================================================================
