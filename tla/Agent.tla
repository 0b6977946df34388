-------------------------------- MODULE Agent --------------------------------
(***************************************************************************)
(* The agent process (RunAgent): it registers the host, starts the next    *)
(* step runner in a container of a fixed name, waits for it and starts     *)
(* over.  Composed with StepProcessor, which is what runs in the           *)
(* container: process = "absent" means that no container of the name       *)
(* exists, "exited" and "crashed" that it exists and has stopped.          *)
(***************************************************************************)
EXTENDS StepProcessor

VARIABLE agent   \* where RunAgent is

agentVars == <<vars, agent>>

\* What a step of the agent leaves alone when it does not start a runner.
runnerVars == <<loop, tries, exit, cancelled, rebooted, dryRun, pc, attempt, cache, held,
                stepVars, serviceVars>>

AgentInit == Fresh /\ process = "absent" /\ agent = "register"
-----------------------------------------------------------------------------
\* RegisterHostWithRetry: session.New failed, logrus.Fatalf ends the agent.
RegisterFails ==
  /\ agent = "register"
  /\ agent' = "crashed"
  /\ UNCHANGED vars

\* What the service's answer to the registration makes of the agent: a refusal
\* (401, 403, 404, 409) stops it for good, any other error is tried again after
\* IntervalSecs, a server without a runner command is asked again later.
AfterRegister(answer) ==
  CASE answer = "refused"    -> "frozen"
    [] answer = "error"      -> "retry"
    [] answer = "no command" -> "sleep"
    [] answer = "command"    -> "create"

RegisterHostWithRetry(answer) ==
  /\ agent = "register"
  /\ agent' = AfterRegister(answer)
  /\ UNCHANGED vars

\* time.Sleep of the registration's interval, or of the delay on error.
SleepElapsed ==
  /\ agent \in {"retry", "sleep"}
  /\ agent' = "register"
  /\ UNCHANGED vars

\* nextStepRunnerFactory.Create: invalid arguments delay the next registration.
CreateNextStepRunner(valid) ==
  /\ agent = "create"
  /\ agent' = IF valid THEN "start" ELSE "sleep"
  /\ UNCHANGED vars

\* Mutant of cleanupPrevious: "podman rm" with force.
cleanupByForce(before) == {"absent", before}

\* Args() calls cleanupPrevious: "podman rm" without force, best effort.  It
\* removes a stopped container of the name and never a running one.
cleanupPrevious(before) ==
  IF before = "running" THEN {"running"} ELSE {"absent", before}

\* The log line calls Args() once, Run() once more; then "podman run" starts a
\* new runner, provided that the container name is free, or fails.
RunNextStepRunner ==
  /\ agent = "start"
  /\ \E p \in UNION {cleanupPrevious(q) : q \in cleanupPrevious(process)} :
       \/ /\ p = "absent"
          /\ process' = "running" /\ MemoryLost
          /\ loop' = "query" /\ tries' = 0 /\ exit' = FALSE /\ cancelled' = FALSE
          /\ agent' = "wait"
       \/ /\ process' = p
          /\ agent' = "sleep"
          /\ UNCHANGED <<loop, tries, exit, cancelled, pc, cache, held>>
  /\ UNCHANGED <<rebooted, dryRun, attempt>>
  /\ UNCHANGED stepVars /\ UNCHANGED serviceVars

\* The runner ended: a failure delays the next registration, and a dry run
\* stops after the fake reboot.  The container is removed (--rm) or is not.
NextStepRunnerEnds ==
  /\ agent = "wait" /\ process \in {"exited", "crashed"}
  /\ agent' = IF process = "crashed" THEN "sleep"
              ELSE IF dryRun /\ rebooted THEN "stopped" ELSE "register"
  /\ process' \in {process, "absent"}
  /\ UNCHANGED runnerVars

\* podman removes the container of a runner that nobody waits for (--rm).
ContainerRemoved ==
  /\ agent # "wait" /\ process \in {"exited", "crashed"}
  /\ process' = "absent"
  /\ UNCHANGED <<runnerVars, agent>>

\* The runner's process dies: out of memory, a panic of one of its goroutines.
RunnerDies ==
  /\ Running
  /\ ProcessEnds("crashed")
  /\ UNCHANGED <<loop, tries, exit, cancelled, rebooted, dryRun, attempt, agent>>
  /\ UNCHANGED stepVars /\ UNCHANGED serviceVars

\* The agent is started again by its service; the runner's container, if there
\* is one, goes on without it.
AgentRestarts ==
  /\ agent \notin {"register", "stopped"}
  /\ agent' = "register"
  /\ UNCHANGED vars
-----------------------------------------------------------------------------
AgentProgress ==
  \/ RegisterFails
  \/ \E answer \in {"refused", "error", "no command", "command"} :
       RegisterHostWithRetry(answer)
  \/ SleepElapsed
  \/ \E valid \in BOOLEAN : CreateNextStepRunner(valid)
  \/ RunNextStepRunner
  \/ NextStepRunnerEnds

RunnerProgress == Next /\ UNCHANGED agent

AgentNext ==
  RunnerProgress \/ AgentProgress \/ ContainerRemoved \/ RunnerDies \/ AgentRestarts

AgentSpec == AgentInit /\ [][AgentNext]_agentVars

\* As in StepProcessor; the agent's sleeps end and its calls are answered.
AgentFairSpec == AgentSpec /\ Fairness /\ WF_agentVars(AgentProgress)
-----------------------------------------------------------------------------
\* The agent's state has its type, and that of the runner.
AgentTypeOK ==
  /\ TypeOK
  /\ agent \in {"register", "retry", "sleep", "create", "start", "wait",
                "frozen", "stopped", "crashed"}

\* A step in progress is abandoned only when its runner ends: the agent, also
\* one that was restarted and knows of no runner, never replaces a live one.
StepsDieWithRunner ==
  [][\A s \in Steps :
       pc[s] # "dead" /\ pc'[s] = "dead" => process' \in {"exited", "crashed"}]_agentVars

\* Whenever no runner is at work nothing of the last one is left: no goroutine,
\* no cached reply, no taken semaphore; the next one starts from nothing.
NothingLeftBehind ==
  ~Running =>
    /\ \A s \in Steps : pc[s] \in {"idle", "done", "dead"}
    /\ \A t \in StepTypes : cache[t] = None
    /\ \A t \in ExclusiveTypes : ~held[t]

\* A pulled agent image makes the agent that waits for the runner register
\* again (and so start the new version), unless the service lost the host.
UpgradeReregisters ==
  /\ agent = "wait" /\ Running /\ ~dryRun
  /\ \E s \in Steps : pc[s] = "send" /\ requiresRestart(s)
  ~> agent = "register" \/ loop = "frozen"
=============================================================================
