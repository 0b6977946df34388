------------------------------ MODULE DiskSpeed ------------------------------
(***************************************************************************)
(* disk_speed_check/disk_speed_check.go and the step that starts it        *)
(* (commands/actions/disk_perfomance_check_cmd.go): a container in which   *)
(* several fio jobs write to a disk at the same time and send what they    *)
(* measured over a channel, which is read once all of them have sent.      *)
(* Steps of the agent overlap: the shell looks for a running container     *)
(* and then starts one, under a timeout.                                   *)
(***************************************************************************)
EXTENDS Integers, Sequences, FiniteSets, FiniteSetsExt

CONSTANTS
  FioSteps,       \* the steps
  numOfFioJobs,   \* the jobs of a check
  FioLatencies,   \* what fio may measure, in milliseconds
  FioRequests,    \* "missing", "empty" or "disk": the path a request names
  NoOwner

\* fio reports latencies in whole milliseconds.
ASSUME FioAssumption ==
  /\ numOfFioJobs \in Nat
  /\ FioLatencies \subseteq Nat
  /\ NoOwner \notin FioSteps

Jobs == 1 .. numOfFioJobs
Failed == [latency |-> -1, ok |-> FALSE]
Measured(l) == [latency |-> l, ok |-> TRUE]

VARIABLES
  path,         \* the path each step is asked to check
  speedPc,      \* "look", "start", "check", "done"
  owner,        \* the step whose container runs, or NoOwner
  job,          \* "idle", "fio", "send" or "sent", for each job of the container
  outcome,      \* what each job measured
  responseCh,   \* the channel
  reader,       \* "waiting", "reading" or "ended": FioPerfCheck
  maxLatency,
  speedReply    \* stdout's latency (-1: none) and the exit code, for each step

speedVars == <<path, speedPc, owner, job, outcome, responseCh, reader, maxLatency, speedReply>>
container == <<job, outcome, responseCh, reader, maxLatency>>

SpeedInit ==
  /\ path \in FioRequests
  /\ speedPc = [s \in FioSteps |-> "look"]
  /\ owner = NoOwner
  /\ job = [j \in Jobs |-> "idle"]
  /\ outcome = [j \in Jobs |-> Failed]
  /\ responseCh = <<>>
  /\ reader = "ended"
  /\ maxLatency = -1
  /\ speedReply = [s \in FioSteps |-> <<>>]

SpeedReturns(s, latency, code) ==
  /\ speedReply' = [speedReply EXCEPT ![s] = [latency |-> latency, code |-> code]]
  /\ speedPc' = [speedPc EXCEPT ![s] = "done"]
-----------------------------------------------------------------------------
\* `podman ps`: a step that sees the container of another one says nothing.
LookForContainer(s) ==
  /\ speedPc[s] = "look"
  /\ IF owner = NoOwner
     THEN speedPc' = [speedPc EXCEPT ![s] = "start"] /\ UNCHANGED speedReply
     ELSE SpeedReturns(s, -1, 0)
  /\ UNCHANGED <<path, owner, container>>

\* `podman run` fails when the name is taken.  In the container, a request
\* without a path is refused, and the jobs are started otherwise.
executeMultipleDiskPerf(s) ==
  /\ speedPc[s] = "start"
  /\ IF owner # NoOwner \/ path[s] = "missing"
     THEN /\ SpeedReturns(s, -1, IF owner # NoOwner THEN 125 ELSE 255)
          /\ UNCHANGED <<owner, container>>
     ELSE /\ owner' = s
          /\ speedPc' = [speedPc EXCEPT ![s] = "check"]
          /\ job' = [j \in Jobs |-> "fio"]
          /\ outcome' = [j \in Jobs |-> Failed]
          /\ responseCh' = <<>>
          /\ reader' = "waiting"
          /\ maxLatency' = -1
          /\ UNCHANGED speedReply
  /\ UNCHANGED path

\* A job without a path, or whose fio fails or writes no JSON, reports an error.
getDiskPerf(j) ==
  /\ job[j] = "fio"
  /\ \E result \in {Failed} \cup {Measured(l) : l \in FioLatencies} :
       /\ path[owner] = "empty" => result = Failed
       /\ outcome' = [outcome EXCEPT ![j] = result]
  /\ job' = [job EXCEPT ![j] = "send"]
  /\ UNCHANGED <<path, speedPc, owner, responseCh, reader, maxLatency, speedReply>>

\* Mutated form: the channel has room for one answer.
SendToShortChannel(j) ==
  /\ job[j] = "send"
  /\ Len(responseCh) < 1
  /\ responseCh' = Append(responseCh, outcome[j])
  /\ job' = [job EXCEPT ![j] = "sent"]
  /\ UNCHANGED <<path, speedPc, owner, outcome, reader, maxLatency, speedReply>>

\* The channel has room for the answer of every job.
SendResponse(j) ==
  /\ job[j] = "send"
  /\ Len(responseCh) < numOfFioJobs
  /\ responseCh' = Append(responseCh, outcome[j])
  /\ job' = [job EXCEPT ![j] = "sent"]
  /\ UNCHANGED <<path, speedPc, owner, outcome, reader, maxLatency, speedReply>>

\* Once every job has sent, the channel is closed and read.
WaitJobs ==
  /\ reader = "waiting"
  /\ \A j \in Jobs : job[j] = "sent"
  /\ reader' = "reading"
  /\ UNCHANGED <<path, speedPc, owner, job, outcome, responseCh, maxLatency, speedReply>>

\* Mutated form: the last answer counts.
LastLatency(max, response) == IF response.ok THEN response.latency ELSE max

\* The worst of the answers counts.
worstLatency(max, response) ==
  IF response.ok /\ response.latency > max THEN response.latency ELSE max

ReadResponse ==
  /\ reader = "reading"
  /\ responseCh # <<>>
  /\ responseCh' = Tail(responseCh)
  /\ maxLatency' = worstLatency(maxLatency, Head(responseCh))
  /\ UNCHANGED <<path, speedPc, owner, job, outcome, reader, speedReply>>

\* The check fails when no job measured anything.
FioPerfCheck ==
  /\ reader = "reading"
  /\ responseCh = <<>>
  /\ reader' = "ended"
  /\ IF maxLatency = -1 THEN SpeedReturns(owner, 0, 255) ELSE SpeedReturns(owner, maxLatency, 0)
  /\ owner' = NoOwner
  /\ UNCHANGED <<path, job, outcome, responseCh, maxLatency>>

\* The container is killed: by `timeout`, or because a job panics on a report of
\* fio without jobs.
ContainerDies ==
  /\ reader # "ended"
  /\ \E code \in {124} \cup {2 : j \in {i \in Jobs : job[i] = "fio" /\ path[owner] = "disk"}} :
       SpeedReturns(owner, -1, code)
  /\ owner' = NoOwner
  /\ reader' = "ended"
  /\ job' = [j \in Jobs |-> "idle"]
  /\ UNCHANGED <<path, outcome, responseCh, maxLatency>>

CheckStep(s) == LookForContainer(s) \/ executeMultipleDiskPerf(s)
JobStep(j) == getDiskPerf(j) \/ SendResponse(j)
ReaderStep == WaitJobs \/ ReadResponse \/ FioPerfCheck

SpeedNext ==
  \/ \E s \in FioSteps : LookForContainer(s)
  \/ \E s \in FioSteps : executeMultipleDiskPerf(s)
  \/ \E j \in Jobs : getDiskPerf(j)
  \/ \E j \in Jobs : SendResponse(j)
  \/ WaitJobs
  \/ ReadResponse
  \/ FioPerfCheck
  \/ ContainerDies

\* fio ends by itself, and Go runs every goroutine; `timeout` is not relied on.
SpeedFairness ==
  /\ \A s \in FioSteps : WF_speedVars(CheckStep(s))
  /\ \A j \in Jobs : WF_speedVars(JobStep(j))
  /\ WF_speedVars(ReaderStep)
-----------------------------------------------------------------------------
(***************************************************************************)
(* A check that succeeds reports the worst latency its jobs measured, and  *)
(* one that fails in fio did so in every job: the errors of some jobs      *)
(* neither hide nor replace what the others measured (FioPerfCheck).       *)
(***************************************************************************)
WorstLatencyIsReported ==
  [][FioPerfCheck =>
       LET reply == speedReply'[owner]
           measured == {outcome[j].latency : j \in {i \in Jobs : outcome[i].ok}}
       IN IF measured = {} THEN reply.code = 255
          ELSE reply = [latency |-> Max(measured), code |-> 0]]_speedVars

(***************************************************************************)
(* Every step ends without the help of its timeout: the jobs can always    *)
(* send although nothing is read before all of them have (responseCh has   *)
(* room for numOfFioJobs answers).                                         *)
(***************************************************************************)
DiskCheckEnds == \A s \in FioSteps : <>(speedPc[s] = "done")
=============================================================================
