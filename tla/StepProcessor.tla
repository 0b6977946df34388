---------------------------- MODULE StepProcessor ----------------------------
(***************************************************************************)
(* The next step runner process: the polling loop of ProcessSteps, the     *)
(* goroutine that handleSteps starts for every instruction, the reply      *)
(* cache they share, the two semaphores (agent image pull, image           *)
(* availability), the cancellation of the loop after an upgrade, and       *)
(* next_step_runner.Main, which decides when the process ends.             *)
(*                                                                         *)
(* The service is modelled by what it may answer and by what it took.      *)
(***************************************************************************)
EXTENDS Naturals

CONSTANTS
  Steps,              \* the instructions the service may hand out
  StepTypes,          \* the step types it uses
  UpgradeAgent,       \* models.StepTypeUpgradeAgent
  ImageAvailability,  \* models.StepTypeContainerImageAvailability
  Outputs,            \* what the command of a step may print
  None,               \* no reply, no cache entry
  MaxRetries,         \* repeated HTTP attempts of one call (session.retries)
  MaxTries,           \* failed queries within backoff.DefaultMaxElapsedTime
  DryRuns             \* the values of agentConfig.DryRunEnabled

ASSUME BoundsAssumption == MaxRetries \in Nat /\ MaxTries \in Nat
ASSUME DryRunsAssumption == DryRuns \subseteq BOOLEAN

VARIABLES
  \* the polling loop and its process
  loop,        \* where ProcessSteps is
  tries,       \* failed queries of the current backoff.RetryNotify
  exit,        \* the service's post step action was "exit"
  cancelled,   \* the context was cancelled
  dryRun,      \* agentConfig.DryRunEnabled
  rebooted,    \* the dry run's fake reboot marker exists
  process,     \* the process of next_step_runner.Main
  \* the goroutines of handleSteps
  pc,          \* where the goroutine of a step is
  stepType,    \* step.StepType
  output,      \* reply.Output
  code,        \* reply.ExitCode
  attempt,     \* HTTP attempts made before the current one
  succeeded,   \* steps whose command ended with exit code 0
  \* shared by the goroutines
  cache,       \* stepSession.stepCache: the last successful output of a type
  held,        \* the semaphore of an exclusive type is taken
  \* what reached the service
  taken,       \* the reply to a step that the service took, or None
  latest,      \* the last successful output of a type that the service took
  late,        \* copies of a failed post that may still reach the service
  suppressed   \* the steps whose reply was not sent: "already exists"

loopVars    == <<loop, tries, exit, rebooted, dryRun, process>>
stepVars    == <<stepType, output, code, succeeded>>
serviceVars == <<taken, latest, late, suppressed>>
vars        == <<loop, tries, exit, cancelled, rebooted, dryRun, process, pc, stepType,
                 output, code, attempt, succeeded, cache, held, taken, latest,
                 late, suppressed>>
-----------------------------------------------------------------------------
\* Types whose command is guarded by semaphore.NewWeighted(1).TryAcquire(1).
ExclusiveTypes == {UpgradeAgent, ImageAvailability}

\* What upgrade_agent.Run prints: a response whose result is success, failure
\* or, when another pull is in progress, absent.
PullResults == {"success", "failure"}
NoResult    == "no result"

\* The output of a step that never ran, or of a busy image availability step.
Empty == "empty"

AllOutputs == Outputs \cup PullResults \cup {NoResult, Empty}

\* Exit codes: 0, any other of the command (or -1), and MediaDisconnected.
Codes == {"ok", "failed", "media"}

Replies == [type : StepTypes, output : AllOutputs, code : Codes]

ASSUME NoneAssumption == None \notin AllOutputs /\ None \notin Replies

Reply(s) == [type |-> stepType[s], output |-> output[s], code |-> code[s]]

Running == process = "running"
-----------------------------------------------------------------------------
\* Nothing has been handed out, sent or remembered yet.
Fresh ==
  /\ loop = "query" /\ tries = 0 /\ exit = FALSE
  /\ cancelled = FALSE /\ rebooted = FALSE /\ dryRun \in DryRuns
  /\ pc = [s \in Steps |-> "idle"]
  /\ stepType \in [Steps -> StepTypes]
  /\ output = [s \in Steps |-> Empty]
  /\ code = [s \in Steps |-> "ok"]
  /\ attempt = [s \in Steps |-> 0]
  /\ succeeded = {}
  /\ cache = [t \in StepTypes |-> None]
  /\ held = [t \in ExclusiveTypes |-> FALSE]
  /\ taken = [s \in Steps |-> None]
  /\ latest = [t \in StepTypes |-> None]
  /\ late = [s \in Steps |-> 0]
  /\ suppressed = {}

Init == Fresh /\ process = "running"
-----------------------------------------------------------------------------
(***************************************************************************)
(* The polling loop.  Every query builds a new session first; the reply    *)
(* cache is the one of the process.                                        *)
(***************************************************************************)

\* The memory of the process is gone, or new: no goroutine of an earlier query,
\* no cached reply, no taken semaphore.
MemoryLost ==
  /\ pc' = [s \in Steps |-> IF pc[s] \in {"idle", "done"} THEN pc[s] ELSE "dead"]
  /\ cache' = [t \in StepTypes |-> None]
  /\ held' = [t \in ExclusiveTypes |-> FALSE]

ProcessEnds(how) == process' = how /\ MemoryLost

\* newSession: session.New failed, logrus.Fatalf ends the process.
SessionFails ==
  /\ Running /\ loop = "query"
  /\ ProcessEnds("crashed")
  /\ UNCHANGED <<loop, tries, exit, cancelled, rebooted, dryRun, attempt>>
  /\ UNCHANGED stepVars /\ UNCHANGED serviceVars

\* The service answered: one goroutine per instruction, then the delay.
GetNextSteps(instructions, postStepAction) ==
  /\ Running /\ loop = "query"
  /\ \A s \in instructions : pc[s] = "idle"
  /\ pc' = [s \in Steps |-> IF s \in instructions THEN "diagnose" ELSE pc[s]]
  /\ exit' = (postStepAction = "exit")
  /\ tries' = 0
  /\ loop' = "select"
  /\ UNCHANGED <<cancelled, rebooted, dryRun, process, attempt, cache, held>>
  /\ UNCHANGED stepVars /\ UNCHANGED serviceVars

\* The query failed: the cache is flushed whatever the error was, a host that
\* is not found waits forever, any other error is retried with backoff until
\* the backoff gives up and ProcessSteps returns.
GetNextStepsFails(notFound) ==
  /\ Running /\ loop = "query"
  /\ cache' = [t \in StepTypes |-> None]
  /\ exit' = FALSE
  /\ \/ /\ notFound
        /\ loop' = "frozen" /\ tries' = 0
     \/ /\ ~notFound /\ tries < MaxTries
        /\ loop' = "backoff" /\ tries' = tries + 1
     \/ /\ ~notFound /\ tries = MaxTries
        /\ loop' = "returned" /\ tries' = 0
  /\ UNCHANGED <<cancelled, rebooted, dryRun, process, pc, attempt, held>>
  /\ UNCHANGED stepVars /\ UNCHANGED serviceVars

\* backoff.RetryNotify slept its interval; it does not look at the context.
BackoffElapsed ==
  /\ Running /\ loop = "backoff"
  /\ loop' = "query"
  /\ UNCHANGED <<tries, exit, cancelled, rebooted, dryRun, process, pc, attempt, cache,
                 held>>
  /\ UNCHANGED stepVars /\ UNCHANGED serviceVars

\* Mutant of ContextDone: the select has no case for the context.
ContextIgnored == FALSE /\ UNCHANGED vars

\* The select of ProcessSteps, case <-ctx.Done().
ContextDone ==
  /\ Running /\ loop = "select" /\ cancelled
  /\ loop' = "returned"
  /\ UNCHANGED <<tries, exit, cancelled, rebooted, dryRun, process, pc, attempt, cache,
                 held>>
  /\ UNCHANGED stepVars /\ UNCHANGED serviceVars

\* The test of the loop of ProcessSteps.
AfterDelay == IF exit THEN "returned" ELSE "query"

\* The select of ProcessSteps, case <-time.After(delay).
DelayElapsed ==
  /\ Running /\ loop = "select"
  /\ loop' = AfterDelay
  /\ UNCHANGED <<tries, exit, cancelled, rebooted, dryRun, process, pc, attempt, cache,
                 held>>
  /\ UNCHANGED stepVars /\ UNCHANGED serviceVars

\* Main: outside a dry run the process ends when ProcessSteps has returned,
\* and takes the goroutines that are still at work with it.
MainWaits ==
  /\ Running /\ ~dryRun /\ loop = "returned"
  /\ ProcessEnds("exited")
  /\ UNCHANGED <<loop, tries, exit, cancelled, rebooted, dryRun, attempt>>
  /\ UNCHANGED stepVars /\ UNCHANGED serviceVars

\* Main: in a dry run only the fake reboot marker ends the process.
MainPolls ==
  /\ Running /\ dryRun /\ rebooted
  /\ cancelled' = TRUE
  /\ ProcessEnds("exited")
  /\ UNCHANGED <<loop, tries, exit, rebooted, dryRun, attempt>>
  /\ UNCHANGED stepVars /\ UNCHANGED serviceVars

\* The dry run's installer leaves its fake reboot marker.
FakeReboot ==
  /\ dryRun /\ ~rebooted
  /\ rebooted' = TRUE
  /\ UNCHANGED <<dryRun, loop, tries, exit, cancelled, process, pc, attempt, cache,
                 held>>
  /\ UNCHANGED stepVars /\ UNCHANGED serviceVars
-----------------------------------------------------------------------------
(***************************************************************************)
(* The goroutine of one step.  A goroutine is interleaved with the others  *)
(* and with the loop wherever it calls out or touches shared state.        *)
(***************************************************************************)

\* diagnoseSystem: in a dry run nothing is detected; otherwise the media may
\* be connected at one call and gone at the next.
diagnoseSystem == IF dryRun THEN {"undetected"} ELSE {"undetected", "media"}

\* Diagnosis before the step: lost media is the reply, the command is not run.
DiagnoseBefore(s) ==
  /\ Running /\ pc[s] = "diagnose"
  /\ \/ /\ "undetected" \in diagnoseSystem
        /\ pc' = [pc EXCEPT ![s] = "create"]
        /\ UNCHANGED code
     \/ /\ "media" \in diagnoseSystem
        /\ pc' = [pc EXCEPT ![s] = "send"]
        /\ code' = [code EXCEPT ![s] = "media"]
  /\ UNCHANGED <<cancelled, attempt, cache, held, stepType, output, succeeded>>
  /\ UNCHANGED loopVars /\ UNCHANGED serviceVars

\* toolRunnerFactory.Create: an unknown type or invalid arguments are a failed
\* reply (exit code -1, no output).
CreateRunner(s) ==
  /\ Running /\ pc[s] = "create"
  /\ \/ /\ pc' = [pc EXCEPT ![s] = "run"]
        /\ UNCHANGED code
     \/ /\ pc' = [pc EXCEPT ![s] = "rediagnose"]
        /\ code' = [code EXCEPT ![s] = "failed"]
  /\ UNCHANGED <<cancelled, attempt, cache, held, stepType, output, succeeded>>
  /\ UNCHANGED loopVars /\ UNCHANGED serviceVars

\* Only a failed step is diagnosed again.
AfterCommand(c) == IF c = "ok" THEN "send" ELSE "rediagnose"

\* The command of step s ended with exit code c and printed o.
Finished(s, c, o) ==
  /\ output' = [output EXCEPT ![s] = o]
  /\ code' = [code EXCEPT ![s] = c]
  /\ succeeded' = IF c = "ok" THEN succeeded \cup {s} ELSE succeeded
  /\ pc' = [pc EXCEPT ![s] = AfterCommand(c)]

\* runner.Run of a type without a semaphore.
RunCommand(s) ==
  /\ Running /\ pc[s] = "run"
  /\ stepType[s] \notin ExclusiveTypes
  /\ \E c \in {"ok", "failed"}, o \in Outputs : Finished(s, c, o)
  /\ UNCHANGED <<cancelled, attempt, cache, held, stepType>>
  /\ UNCHANGED loopVars /\ UNCHANGED serviceVars

CanAcquire(s) == ~held[stepType[s]]

\* TryAcquire of a type with a semaphore: the command starts, or the reply is
\* at once a success that says nothing.
TryAcquire(s) ==
  /\ Running /\ pc[s] = "run"
  /\ stepType[s] \in ExclusiveTypes
  /\ \/ /\ CanAcquire(s)
        /\ held' = [held EXCEPT ![stepType[s]] = TRUE]
        /\ pc' = [pc EXCEPT ![s] = "exclusive"]
        /\ UNCHANGED <<output, code, succeeded>>
     \/ /\ ~CanAcquire(s)
        /\ Finished(s, "ok", IF stepType[s] = UpgradeAgent THEN NoResult ELSE Empty)
        /\ UNCHANGED held
  /\ UNCHANGED <<cancelled, attempt, cache, stepType>>
  /\ UNCHANGED loopVars /\ UNCHANGED serviceVars

\* Mutant of Released: the deferred Release is missing.
KeptTaken(s) == held

Released(s) == [held EXCEPT ![stepType[s]] = FALSE]

\* The command under the semaphore ends and releases it.  The upgrade reports
\* its result in the output and always ends with exit code 0.
ExclusiveEnds(s) ==
  /\ Running /\ pc[s] = "exclusive"
  /\ held' = Released(s)
  /\ \/ /\ stepType[s] = UpgradeAgent
        /\ \E o \in PullResults : Finished(s, "ok", o)
     \/ /\ stepType[s] # UpgradeAgent
        /\ \E c \in {"ok", "failed"}, o \in Outputs : Finished(s, c, o)
  /\ UNCHANGED <<cancelled, attempt, cache, stepType>>
  /\ UNCHANGED loopVars /\ UNCHANGED serviceVars

\* Diagnosis after a failed step: lost media replaces the exit code.
DiagnoseAfter(s) ==
  /\ Running /\ pc[s] = "rediagnose"
  /\ \E d \in diagnoseSystem :
       code' = [code EXCEPT ![s] = IF d = "media" THEN "media" ELSE @]
  /\ pc' = [pc EXCEPT ![s] = "send"]
  /\ UNCHANGED <<cancelled, attempt, cache, held, stepType, output, succeeded>>
  /\ UNCHANGED loopVars /\ UNCHANGED serviceVars

\* Mutant of alreadyExistsInService: the cached output is not compared.
anyResultExists(s) == cache[stepType[s]] # None

\* sendStepReply: a successful reply whose output is the cached one is not sent.
alreadyExistsInService(s) == cache[stepType[s]] = output[s]

SendStepReply(s) ==
  /\ Running /\ pc[s] = "send"
  /\ \/ /\ code[s] = "ok" /\ alreadyExistsInService(s)
        /\ suppressed' = suppressed \cup {s}
        /\ pc' = [pc EXCEPT ![s] = "restart"]
     \/ /\ ~(code[s] = "ok" /\ alreadyExistsInService(s))
        /\ pc' = [pc EXCEPT ![s] = "post"]
        /\ UNCHANGED suppressed
  /\ UNCHANGED <<cancelled, attempt, cache, held, taken, latest, late>>
  /\ UNCHANGED loopVars /\ UNCHANGED stepVars

\* The service takes the reply to s.
Deliver(s) ==
  /\ taken' = [taken EXCEPT ![s] = Reply(s)]
  /\ latest' = IF code[s] = "ok"
               THEN [latest EXCEPT ![stepType[s]] = output[s]] ELSE latest

\* Mutants of AfterPost: the error of the post is ignored; the post is repeated
\* until it succeeds.
StoreWhateverHappened(s, posted) == IF code[s] = "ok" THEN "store" ELSE "restart"
PostUntilPosted(s, posted) ==
  IF ~posted THEN "post" ELSE IF code[s] = "ok" THEN "store" ELSE "restart"

\* Only a successful reply that the service acknowledged is stored.
AfterPost(s, posted) == IF posted /\ code[s] = "ok" THEN "store" ELSE "restart"

\* rehttp.RetryMaxRetries(retries)
RetriesLeft(s) == attempt[s] < MaxRetries

\* PostStepReply and what sendStepReply makes of its answer.  An attempt that
\* fails for a temporary reason is repeated by the transport, whatever its
\* method; the service may still take the request of an attempt that failed.
PostStepReply(s) ==
  /\ Running /\ pc[s] = "post"
  /\ \/ /\ Deliver(s)
        /\ pc' = [pc EXCEPT ![s] = AfterPost(s, TRUE)]
        /\ UNCHANGED <<attempt, late>>
     \/ /\ RetriesLeft(s)
        /\ attempt' = [attempt EXCEPT ![s] = @ + 1]
        /\ \E copies \in {0, 1} : late' = [late EXCEPT ![s] = @ + copies]
        /\ UNCHANGED <<pc, taken, latest>>
     \/ /\ pc' = [pc EXCEPT ![s] = AfterPost(s, FALSE)]
        /\ \E copies \in {0, 1} : late' = [late EXCEPT ![s] = @ + copies]
        /\ UNCHANGED <<attempt, taken, latest>>
  /\ UNCHANGED <<cancelled, cache, held, suppressed>>
  /\ UNCHANGED loopVars /\ UNCHANGED stepVars

\* The service takes a request whose sender no longer waits for the answer.
DeliverLate(s) ==
  /\ late[s] > 0
  /\ Deliver(s)
  /\ late' = [late EXCEPT ![s] = @ - 1]
  /\ UNCHANGED <<cancelled, pc, attempt, cache, held, suppressed>>
  /\ UNCHANGED loopVars /\ UNCHANGED stepVars

\* The reply was posted: storeInCache.
StoreInCache(s) ==
  /\ Running /\ pc[s] = "store"
  /\ cache' = [cache EXCEPT ![stepType[s]] = output[s]]
  /\ pc' = [pc EXCEPT ![s] = "restart"]
  /\ UNCHANGED <<cancelled, attempt, held>>
  /\ UNCHANGED loopVars /\ UNCHANGED stepVars /\ UNCHANGED serviceVars

\* The entry of a type reaches its age limit (defaultExpiration).
CacheExpires(t) ==
  /\ Running /\ cache[t] # None
  /\ cache' = [cache EXCEPT ![t] = None]
  /\ UNCHANGED <<cancelled, pc, attempt, held>>
  /\ UNCHANGED loopVars /\ UNCHANGED stepVars /\ UNCHANGED serviceVars

\* Mutant of requiresRestart: the result of the upgrade is not looked at.
anyUpgradeRestarts(s) == stepType[s] = UpgradeAgent

requiresRestart(s) == stepType[s] = UpgradeAgent /\ output[s] = "success"

\* The goroutine ends; a pulled agent image cancels the loop.  (A step that did
\* not run has no output, so its early return needs no case of its own.)
StepEnds(s) ==
  /\ Running /\ pc[s] = "restart"
  /\ cancelled' = (cancelled \/ requiresRestart(s))
  /\ pc' = [pc EXCEPT ![s] = "done"]
  /\ UNCHANGED <<attempt, cache, held>>
  /\ UNCHANGED loopVars /\ UNCHANGED stepVars /\ UNCHANGED serviceVars
-----------------------------------------------------------------------------
\* What a goroutine does by itself, its command apart: a command may run for
\* as long as it likes.
Handles(s) ==
  \/ DiagnoseBefore(s) \/ CreateRunner(s) \/ TryAcquire(s) \/ DiagnoseAfter(s)
  \/ SendStepReply(s)  \/ PostStepReply(s) \/ StoreInCache(s) \/ StepEnds(s)

StepAction(s) ==
  Handles(s) \/ RunCommand(s) \/ ExclusiveEnds(s) \/ DeliverLate(s)

Query ==
  \/ SessionFails
  \/ \E instructions \in SUBSET {s \in Steps : pc[s] = "idle"},
        postStepAction \in {"continue", "exit"} :
       GetNextSteps(instructions, postStepAction)
  \/ \E notFound \in BOOLEAN : GetNextStepsFails(notFound)

LoopAction == Query \/ BackoffElapsed \/ ContextDone \/ DelayElapsed

MainAction == MainWaits \/ MainPolls

Next ==
  \/ LoopAction \/ MainAction \/ FakeReboot
  \/ \E s \in Steps : StepAction(s)
  \/ \E t \in StepTypes : CacheExpires(t)

Spec == Init /\ [][Next]_vars

(***************************************************************************)
(* The runtime schedules every goroutine, timers fire, and a call of the   *)
(* service ends with an answer or an error.  A select with two ready cases *)
(* chooses at random, so a cancelled context is not overlooked forever.    *)
(***************************************************************************)
Fairness ==
  /\ WF_vars(Query) /\ WF_vars(BackoffElapsed) /\ WF_vars(DelayElapsed)
  /\ SF_vars(ContextDone)
  /\ WF_vars(MainAction)
  /\ \A s \in Steps : WF_vars(Handles(s))

FairSpec == Spec /\ Fairness
-----------------------------------------------------------------------------
(***************************************************************************)
(* Properties                                                              *)
(***************************************************************************)

\* Every variable has its type.
TypeOK ==
  /\ loop \in {"query", "backoff", "select", "frozen", "returned"}
  /\ tries \in 0..MaxTries
  /\ exit \in BOOLEAN /\ cancelled \in BOOLEAN /\ rebooted \in BOOLEAN
  /\ dryRun \in BOOLEAN
  /\ process \in {"absent", "running", "exited", "crashed"}
  /\ pc \in [Steps -> {"idle", "diagnose", "create", "run", "exclusive",
                       "rediagnose", "send", "post", "store", "restart", "done",
                       "dead"}]
  /\ stepType \in [Steps -> StepTypes]
  /\ output \in [Steps -> AllOutputs]
  /\ code \in [Steps -> Codes]
  /\ attempt \in [Steps -> 0..MaxRetries]
  /\ succeeded \in SUBSET Steps
  /\ cache \in [StepTypes -> AllOutputs \cup {None}]
  /\ held \in [ExclusiveTypes -> BOOLEAN]
  /\ taken \in [Steps -> Replies \cup {None}]
  /\ latest \in [StepTypes -> AllOutputs \cup {None}]
  /\ late \in [Steps -> Nat]
  /\ suppressed \in SUBSET Steps

\* Whatever the cache holds for a type, the service took a successful reply of
\* that type with that output: storeInCache never runs ahead of the service,
\* whichever goroutines, flushes, expiries and failed posts come in between.
CacheIsAcknowledged ==
  \A t \in StepTypes : cache[t] # None =>
    \E s \in Steps : taken[s] = [type |-> t, output |-> cache[t], code |-> "ok"]

\* A step whose reply sendStepReply left out never reaches the service, not
\* even late, and the service did take the same successful reply for another
\* step.
SuppressedIsKnown ==
  \A s \in suppressed :
    /\ taken[s] = None /\ late[s] = 0
    /\ code[s] = "ok"
    /\ \E other \in Steps : taken[other] = Reply(s)

\* pullSem and the image availability semaphore: the guarded command of a type
\* never runs twice at a time.
OneExclusiveCommand ==
  \A s1, s2 \in Steps :
    /\ pc[s1] = "exclusive" /\ pc[s2] = "exclusive"
    /\ stepType[s1] = stepType[s2]
    => s1 = s2

\* A semaphore is taken only while a command runs under it: no way out of the
\* command leaves it taken, which would turn every later step of the type into
\* a success that says nothing.
SemaphoreNotLeaked ==
  \A t \in ExclusiveTypes :
    held[t] => \E s \in Steps : pc[s] = "exclusive" /\ stepType[s] = t

\* A step whose command succeeded is reported as a success: the diagnosis of
\* handleSteps only replaces the exit code of a failed step.
SuccessIsReported == \A s \in succeeded : code[s] = "ok"

\* The loop is cancelled only by a fake reboot or by a successful upgrade whose
\* reply has been sent, or left out, before.
CancelledAfterReply ==
  cancelled =>
    \/ dryRun /\ rebooted
    \/ \E s \in Steps : pc[s] = "done" /\ s \in succeeded /\ requiresRestart(s)

\* In a dry run a process that ended by itself did so because of the fake reboot:
\* neither an upgrade nor an exit request ends it, so the check for the reboot
\* that RunAgent makes next stops the agent instead of registering it again.
DryExitIsReboot == dryRun /\ process = "exited" => rebooted

\* How far the goroutine of a step is bounds what can be true of its reply:
\* nothing is known to the service before the post, the reply does not change
\* once the first copy of it is out, and only a reply the service acknowledged
\* is about to be stored.
StepFacts(s) ==
  /\ taken[s] # None =>
       /\ taken[s] = Reply(s)
       /\ pc[s] \in {"post", "store", "restart", "done", "dead"}
  /\ late[s] > 0 => pc[s] \in {"post", "store", "restart", "done", "dead"}
  /\ pc[s] = "store" => taken[s] # None /\ code[s] = "ok"
  /\ s \in suppressed => pc[s] \in {"restart", "done", "dead"}
  /\ s \in succeeded =>
       /\ code[s] = "ok"
       /\ pc[s] \in {"send", "post", "store", "restart", "done", "dead"}
  /\ requiresRestart(s) => s \in succeeded

ReplyFollowsStep == \A s \in Steps : StepFacts(s)

\* The replies the service gets are those StepReplies promises.
SR == INSTANCE StepReplies WITH
        Steps <- Steps, Replies <- Replies, None <- None, taken <- taken, suppressed <- suppressed

RepliesAsPromised == SR!Spec

\* A step whose command has ended is answered, left out or given up, unless the
\* process ends first: no goroutine is stuck in sendStepReply.
EveryStepEnds ==
  \A s \in Steps :
    pc[s] \in {"rediagnose", "send", "post", "store", "restart"} ~>
      pc[s] = "done" \/ ~Running

\* requiresRestart: a pulled agent image ends the process, so that the agent is
\* started again from it, unless the service lost the host and the loop froze, or
\* it is a dry run.
UpgradeRestarts ==
  (~dryRun /\ \E s \in Steps : pc[s] = "send" /\ requiresRestart(s)) ~>
    ~Running \/ loop = "frozen"

\* The message of sendStepReply: a reply that is left out "already exists in
\* assisted service", it is the service's current result of the type.
AlreadyExists ==
  [][\A s \in suppressed' \ suppressed : latest[stepType[s]] = output[s]]_vars
=============================================================================
