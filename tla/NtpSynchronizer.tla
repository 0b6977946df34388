--------------------------- MODULE NtpSynchronizer ---------------------------
(***************************************************************************)
(* ntp_synchronizer/ntp_synchronizer.go: a step adds the NTP servers the   *)
(* service asks for to the host's chrony and reports the sources chrony    *)
(* has.  Several steps of one agent may run at the same time; between what *)
(* a step reads and what it adds, another step, or chrony itself, acts.    *)
(* chronyc and the resolver are external: a call may fail at any time.     *)
(***************************************************************************)
EXTENDS Integers, Sequences, FiniteSets

CONSTANTS
  NtpSteps,      \* the steps
  NtpRequests,   \* for each scenario, the servers each step is asked to add
  Resolves       \* the addresses of each server name

NtpServers == DOMAIN Resolves
NtpAddresses == UNION {Resolves[n] : n \in NtpServers}

\* An address resolves to itself.
ASSUME NtpAssumption ==
  /\ NtpRequests \subseteq [NtpSteps -> Seq(NtpServers)]
  /\ \A n \in NtpServers : n \in NtpAddresses => n \in Resolves[n]

VARIABLES
  wanted,    \* the servers each step is asked to add
  nth,       \* the server a step has come to
  ntpPc,     \* "check", "lookup", "add", "read", "done" or "failed"
  seen,      \* the sources a step read last
  sources,   \* chrony's servers: address -> mark chronyc prints
  refused,   \* the servers chrony refused to add when a step asked
  ntpReply   \* the sources a step reported

ntpVars == <<wanted, nth, ntpPc, seen, sources, refused, ntpReply>>

convertSourceState(mark) ==
  CASE mark = "*" -> "synced"
    [] mark = "+" -> "combined"
    [] mark = "-" -> "not_combined"
    [] mark = "?" -> "unreachable"
    [] mark = "~" -> "variable"
    [] OTHER -> "error"

\* The servers of `chronyc -n sources`: other sources are skipped.
formatChronySourcesOutput == [a \in DOMAIN sources |-> convertSourceState(sources[a])]

NtpInit ==
  /\ wanted \in NtpRequests
  /\ nth = [s \in NtpSteps |-> 1]
  /\ ntpPc = [s \in NtpSteps |-> IF wanted[s] = <<>> THEN "read" ELSE "check"]
  /\ seen = [s \in NtpSteps |-> {}]
  /\ sources \in UNION {[d -> {"*"}] : d \in {{}} \cup {{a} : a \in NtpAddresses}}
  /\ refused = [s \in NtpSteps |-> {}]
  /\ ntpReply = [s \in NtpSteps |-> <<>>]

\* handleNewNtpSources goes to the next server, or the sources are read.
Server(s) == wanted[s][nth[s]]
NextServer(s) ==
  /\ nth' = [nth EXCEPT ![s] = @ + 1]
  /\ ntpPc' = [ntpPc EXCEPT ![s] = IF nth[s] = Len(wanted[s]) THEN "read" ELSE "check"]
NtpGoto(s, state) == ntpPc' = [ntpPc EXCEPT ![s] = state] /\ UNCHANGED nth
-----------------------------------------------------------------------------
\* isServerConfigured reads the sources; when that fails the server is added
\* all the same.
getNTPSources(s) ==
  /\ ntpPc[s] = "check"
  /\ \/ /\ seen' = [seen EXCEPT ![s] = DOMAIN sources]
        /\ IF Server(s) \in DOMAIN sources THEN NextServer(s) ELSE NtpGoto(s, "lookup")
     \/ NtpGoto(s, "add") /\ UNCHANGED seen
  /\ UNCHANGED <<wanted, sources, refused, ntpReply>>

\* Mutated form: a server whose look-up fails is taken for configured.
SkipsUnresolved(s) ==
  /\ ntpPc[s] = "lookup"
  /\ \/ /\ Resolves[Server(s)] \cap seen[s] = {}
        /\ NtpGoto(s, "add")
     \/ NextServer(s)
  /\ UNCHANGED <<wanted, seen, sources, refused, ntpReply>>

\* The names of the server are looked up and compared with the sources read.
isServerConfigured(s) ==
  /\ ntpPc[s] = "lookup"
  /\ \/ IF Resolves[Server(s)] \cap seen[s] # {} THEN NextServer(s) ELSE NtpGoto(s, "add")
     \/ NtpGoto(s, "add")
  /\ UNCHANGED <<wanted, seen, sources, refused, ntpReply>>

\* chronyd resolves the name to one of its addresses and refuses one it has.
addServer(s) ==
  /\ ntpPc[s] = "add"
  /\ \/ \E a \in Resolves[Server(s)] \ DOMAIN sources :
          /\ sources' = [b \in DOMAIN sources \cup {a} |-> IF b = a THEN "?" ELSE sources[b]]
          /\ UNCHANGED refused
     \/ /\ refused' = [refused EXCEPT ![s] = @ \cup {Server(s)}]
        /\ UNCHANGED sources
  /\ NextServer(s)
  /\ UNCHANGED <<wanted, seen, ntpReply>>

\* The sources are read again for the reply; a reverse look-up that fails
\* leaves the address as the name.
RunNtp(s) ==
  /\ ntpPc[s] = "read"
  /\ \/ /\ ntpReply' = [ntpReply EXCEPT ![s] = formatChronySourcesOutput]
        /\ NtpGoto(s, "done")
     \/ NtpGoto(s, "failed") /\ UNCHANGED ntpReply
  /\ UNCHANGED <<wanted, seen, sources, refused>>

\* chronyd finds out about a source.
Poll(a) ==
  /\ a \in DOMAIN sources
  /\ \E mark \in {"*", "x"} : mark # sources[a] /\ sources' = [sources EXCEPT ![a] = mark]
  /\ UNCHANGED <<wanted, nth, ntpPc, seen, refused, ntpReply>>

NtpNext ==
  \/ \E s \in NtpSteps : getNTPSources(s)
  \/ \E s \in NtpSteps : isServerConfigured(s)
  \/ \E s \in NtpSteps : addServer(s)
  \/ \E s \in NtpSteps : RunNtp(s)
  \/ \E a \in NtpAddresses : Poll(a)
-----------------------------------------------------------------------------
(***************************************************************************)
(* A step that reports reports every server it was asked to add, under one *)
(* of its addresses, except one chrony refused when the step asked: a      *)
(* failure to read the sources or to resolve the name never leaves a       *)
(* server out, and what other steps do meanwhile does not either           *)
(* (handleNewNtpSources, isServerConfigured).                              *)
(***************************************************************************)
RequestedIsReported ==
  \A s \in NtpSteps : ntpPc[s] = "done" =>
    \A n \in DOMAIN wanted[s] :
      \/ wanted[s][n] \in refused[s]
      \/ Resolves[wanted[s][n]] \cap DOMAIN ntpReply[s] # {}
=============================================================================
