-------------------------- MODULE ConnectivityRunner --------------------------
(***************************************************************************)
(* connectivityRunner: Run starts one goroutine per host (ProcessHost),    *)
(* ProcessHost one per check, and a last one that closes the channel of    *)
(* the reporters once the checks are through.  The checks of a host share  *)
(* a WaitGroup and that channel, which has a capacity.                     *)
(*                                                                         *)
(* It all runs in the process of the next step runner: a panic of one      *)
(* goroutine ends everything.                                              *)
(***************************************************************************)
EXTENDS ConnectivityReport

CONSTANTS
  ChannelCap,    \* the capacity of reporterChan
  MayPanic(_)    \* whether a check may fail a type assertion

ASSUME ChannelCapAssumption == ChannelCap \in Nat \ {0}

VARIABLES
  pc,           \* per host: where ProcessHost is
  spawned,      \* per host: checks started so far
  goroutine,    \* per host and check: where its goroutine is
  wg,           \* per host: the counter of the WaitGroup
  reporterChan, \* per host: the reporters in the channel, by number of check
  closed,       \* per host: the channel was closed
  received,     \* per host: the reporters Report was called for, in order
  resultChan,   \* the hosts whose result is in the channel of Run
  collected,    \* the hosts Run has taken from it, in order
  panicked      \* the process was ended by a panic

runVars == <<pc, spawned, goroutine, wg, reporterChan, closed, received, resultChan,
             collected, panicked>>
vars    == <<request, found, reply, runVars>>

Host  == Hosts(request)
Job(h) == Checks(request, h)

RunInit ==
  /\ Init
  /\ pc = [h \in Host |-> "spawn"]
  /\ spawned = [h \in Host |-> 0]
  /\ goroutine = [h \in Host |-> [i \in Job(h) |-> "none"]]
  /\ wg = [h \in Host |-> 0]
  /\ reporterChan = [h \in Host |-> <<>>]
  /\ closed = [h \in Host |-> FALSE]
  /\ received = [h \in Host |-> <<>>]
  /\ resultChan = <<>> /\ collected = <<>>
  /\ panicked = FALSE
-----------------------------------------------------------------------------
\* spawnChecker: counted by the caller, then started.
spawnChecker(h) ==
  /\ ~panicked /\ pc[h] = "spawn" /\ spawned[h] < Len(request.jobs[h])
  /\ spawned' = [spawned EXCEPT ![h] = @ + 1]
  /\ wg' = [wg EXCEPT ![h] = @ + 1]
  /\ goroutine' = [goroutine EXCEPT ![h][spawned[h] + 1] = "check"]
  /\ UNCHANGED <<request, found, reply, pc, reporterChan, closed, received, resultChan,
                 collected, panicked>>

\* The loops of ProcessHost are over: the closing goroutine starts, the channel is read.
AllSpawned(h) ==
  /\ ~panicked /\ pc[h] = "spawn" /\ spawned[h] = Len(request.jobs[h])
  /\ pc' = [pc EXCEPT ![h] = "read"]
  /\ UNCHANGED <<request, found, reply, spawned, goroutine, wg, reporterChan, closed, received,
                 resultChan, collected, panicked>>

\* Check returns: a nil reporter is skipped.
CheckReturns(h, i) ==
  /\ ~panicked /\ goroutine[h][i] = "check"
  /\ \E reporter \in Check(request.jobs[h][i]) :
       /\ found' = [found EXCEPT ![h][i] = reporter]
       /\ goroutine' = [goroutine EXCEPT ![h][i] =
                          IF reporter = NoReporter THEN "finish" ELSE "send"]
  /\ UNCHANGED <<request, reply, pc, spawned, wg, reporterChan, closed, received, resultChan,
                 collected, panicked>>

\* Check fails a type assertion.
CheckPanics(h, i) ==
  /\ ~panicked /\ goroutine[h][i] = "check"
  /\ MayPanic(request.jobs[h][i])
  /\ panicked' = TRUE
  /\ UNCHANGED <<request, found, reply, pc, spawned, goroutine, wg, reporterChan, closed,
                 received, resultChan, collected>>

\* reporterChan <- reporter waits for room; on a closed channel it panics.
SendReporter(h, i) ==
  /\ ~panicked /\ goroutine[h][i] = "send"
  /\ closed[h] \/ Len(reporterChan[h]) < ChannelCap
  /\ panicked' = closed[h]
  /\ reporterChan' = [reporterChan EXCEPT ![h] = IF closed[h] THEN @ ELSE Append(@, i)]
  /\ goroutine' = [goroutine EXCEPT ![h][i] = "finish"]
  /\ UNCHANGED <<request, found, reply, pc, spawned, wg, closed, received, resultChan, collected>>

\* The deferred wg.Done.
CheckDone(h, i) ==
  /\ ~panicked /\ goroutine[h][i] = "finish"
  /\ goroutine' = [goroutine EXCEPT ![h][i] = "done"]
  /\ wg' = [wg EXCEPT ![h] = @ - 1]
  /\ UNCHANGED <<request, found, reply, pc, spawned, reporterChan, closed, received, resultChan,
                 collected, panicked>>

\* Mutant of CloseChannel: the WaitGroup is not waited for.
CloseAtOnce(h) ==
  /\ ~panicked /\ pc[h] = "read" /\ ~closed[h]
  /\ closed' = [closed EXCEPT ![h] = TRUE]
  /\ UNCHANGED <<request, found, reply, pc, spawned, goroutine, wg, reporterChan, received,
                 resultChan, collected, panicked>>

\* The closing goroutine: wg.Wait, then close.
CloseChannel(h) ==
  /\ ~panicked /\ pc[h] = "read" /\ ~closed[h]
  /\ wg[h] = 0
  /\ closed' = [closed EXCEPT ![h] = TRUE]
  /\ UNCHANGED <<request, found, reply, pc, spawned, goroutine, wg, reporterChan, received,
                 resultChan, collected, panicked>>

\* Mutant of ReceiveReporter: the channel is read once all checks are through.
ReceiveAfterClose(h) ==
  /\ ~panicked /\ pc[h] = "read" /\ reporterChan[h] # <<>>
  /\ closed[h]
  /\ received' = [received EXCEPT ![h] = Append(@, Head(reporterChan[h]))]
  /\ reporterChan' = [reporterChan EXCEPT ![h] = Tail(@)]
  /\ UNCHANGED <<request, found, reply, pc, spawned, goroutine, wg, closed, resultChan, collected,
                 panicked>>

\* The loop over the channel: Report adds the reporter's entries to the host.
ReceiveReporter(h) ==
  /\ ~panicked /\ pc[h] = "read" /\ reporterChan[h] # <<>>
  /\ received' = [received EXCEPT ![h] = Append(@, Head(reporterChan[h]))]
  /\ reporterChan' = [reporterChan EXCEPT ![h] = Tail(@)]
  /\ UNCHANGED <<request, found, reply, pc, spawned, goroutine, wg, closed, resultChan, collected,
                 panicked>>

\* Mutant of HostReady: the loop ends as soon as the channel is empty.
ChannelEmpty(h) == reporterChan[h] = <<>>

\* The loop over the channel ends once it is closed and empty.
HostReady(h) == closed[h] /\ reporterChan[h] = <<>>

\* Finalize, and the deferred send of the result.
HostDone(h) ==
  /\ ~panicked /\ pc[h] = "read" /\ HostReady(h)
  /\ pc' = [pc EXCEPT ![h] = "done"]
  /\ resultChan' = Append(resultChan, h)
  /\ UNCHANGED <<request, found, reply, spawned, goroutine, wg, reporterChan, closed, received,
                 collected, panicked>>

\* Run takes the result of one host.
CollectHost ==
  /\ ~panicked /\ resultChan # <<>>
  /\ collected' = Append(collected, Head(resultChan))
  /\ resultChan' = Tail(resultChan)
  /\ UNCHANGED <<request, found, reply, pc, spawned, goroutine, wg, reporterChan, closed, received,
                 panicked>>

\* for i := 0; i != len(params); i++
AllCollected == Len(collected) = Len(request.jobs)

\* Run sorts the hosts by id and returns; connectivityCheck prints the report.
RunReturns ==
  /\ ~panicked /\ AllCollected /\ reply = NoReply
  /\ reply' = SortedById([n \in DOMAIN collected |->
                            RemoteHost(request, found, collected[n], received[collected[n]])])
  /\ UNCHANGED <<request, found>> /\ UNCHANGED runVars
-----------------------------------------------------------------------------
\* What a goroutine of a check does.
Checking(h, i) == CheckReturns(h, i) \/ SendReporter(h, i) \/ CheckDone(h, i)

\* What the goroutine of a host and the one that closes its channel do.
ProcessHost(h) == spawnChecker(h) \/ AllSpawned(h) \/ ReceiveReporter(h) \/ HostDone(h)

RunNext ==
  \/ \E h \in Host : ProcessHost(h) \/ CloseChannel(h)
  \/ \E h \in Host : \E i \in Job(h) : Checking(h, i) \/ CheckPanics(h, i)
  \/ CollectHost \/ RunReturns

RunSpec == RunInit /\ [][RunNext]_vars

\* Every goroutine is scheduled; ping, arping and nmap end by themselves.
RunFairSpec ==
  /\ RunSpec
  /\ WF_vars(CollectHost \/ RunReturns)
  /\ WF_vars(\E h \in Host : ProcessHost(h) \/ CloseChannel(h))
  /\ WF_vars(\E h \in Host : \E i \in Job(h) : Checking(h, i))
-----------------------------------------------------------------------------
\* The type of the state: the channel never holds more than its capacity, the
\* WaitGroup never falls below zero.
TypeOK ==
  /\ request \in Requests
  /\ pc \in [Host -> {"spawn", "read", "done"}]
  /\ spawned \in [Host -> Nat] /\ wg \in [Host -> Nat]
  /\ closed \in [Host -> BOOLEAN] /\ panicked \in BOOLEAN
  /\ DOMAIN found = Host /\ DOMAIN goroutine = Host
  /\ reporterChan \in [Host -> Seq(Nat)] /\ received \in [Host -> Seq(Nat)]
  /\ \A h \in Host :
       /\ spawned[h] <= Len(request.jobs[h])
       /\ DOMAIN found[h] = Job(h)
       /\ goroutine[h] \in [Job(h) -> {"none", "check", "send", "finish", "done"}]
       /\ Len(reporterChan[h]) <= ChannelCap
  /\ resultChan \in Seq(Host) /\ collected \in Seq(Host)

\* No check sends its reporter on a closed channel, which would end the process:
\* every check was counted before the closing goroutine began to wait.
NoSendAfterClose ==
  \A h \in Host : closed[h] => \A i \in Job(h) : goroutine[h][i] = "done"

\* The reply is the one ConnectivityReport promises: every host of the request is
\* in it, with what each of its checks reported, once.
CR == INSTANCE ConnectivityReport WITH
        request <- request, found <- found, reply <- reply

ReportsEveryCheck == CR!Spec

\* The step ends: the checks never wait for room in a channel nobody reads, nor
\* Run for a host that never reports, unless a panic ended the process.
RunEnds == <>(reply # NoReply \/ panicked)
=============================================================================
