---------------------------- MODULE InstallCommand ----------------------------
(***************************************************************************)
(* The steps that share podman on a host: install, stop_installation and   *)
(* container_image_availability.  The next step runner starts them as the  *)
(* service asks for them, each in a goroutine of its own; what they share  *)
(* is the image store, the container named assisted-installer and, for     *)
(* image availability, a semaphore of the process.                         *)
(*                                                                         *)
(* podman is outside of the repository.  A pull adds an image or fails; a  *)
(* name belongs to a container until it is removed, and nothing here does. *)
(* Times of an availability step are in half seconds.                      *)
(***************************************************************************)
EXTENDS Integers, Sequences, FiniteSets

CONSTANTS
  Asked,       \* the steps the service may ask for together, with their requests
  Preloaded,   \* the images that may be in the store at the start
  Valid(_),    \* whether a request passes Validate
  Retries,     \* defaultImagePullRetries
  LookTime,    \* the half seconds "podman images" may take
  NoStep       \* no step

ASSUME RetriesAssumption == Retries \in Nat \ {0}
ASSUME LookTimeAssumption == LookTime \in Nat
ASSUME AskedAssumption ==
  \A a \in Asked :
    /\ NoStep \notin DOMAIN a
    /\ \A s \in DOMAIN a :
         /\ a[s].kind \in {"install", "stop", "check"}
         /\ a[s].kind = "check" => a[s].timeout \in Nat /\ Len(a[s].images) \in Nat

VARIABLES
  asked,      \* the steps, with their requests
  pc,         \* where each step is
  exit,       \* the exit code of each step that ended
  attempts,   \* per install: pulls made
  images,     \* the images in the store
  container,  \* the step assisted-installer belongs to, and its state
  sem,        \* the step that holds the semaphore
  elapsed,    \* per check: half seconds since it started
  budget,     \* per check: seconds left when its current image's turn came
  existed,    \* per check: the current image was there before the pull
  results     \* per check: what it found of the images so far

checkVars == <<elapsed, budget, existed, results>>
vars == <<asked, pc, exit, attempts, images, container, sem, checkVars>>

Steps == DOMAIN asked
Kind(k) == {s \in Steps : asked[s].kind = k}

failedToPullImageExitCode == 2
NameInUse == 125
Stopped == 143

Init ==
  /\ asked \in Asked
  /\ pc = [s \in Steps |-> "new"]
  /\ exit = [s \in Steps |-> 0]
  /\ attempts = [s \in Steps |-> 0]
  /\ images \in Preloaded
  /\ container = [owner |-> NoStep, state |-> "none", code |-> 0]
  /\ sem = NoStep
  /\ elapsed = [s \in Steps |-> 0] /\ budget = [s \in Steps |-> 0]
  /\ existed = [s \in Steps |-> FALSE] /\ results = [s \in Steps |-> <<>>]

\* A step goes on, or ends with an exit code.
Goto(s, where) == pc' = [pc EXCEPT ![s] = where] /\ UNCHANGED exit
Return(s, code) == pc' = [pc EXCEPT ![s] = "end"] /\ exit' = [exit EXCEPT ![s] = code]
-----------------------------------------------------------------------------
(***************************************************************************)
(* install                                                                 *)
(***************************************************************************)

\* New validates the request before anything is run.
ValidateInstall(s) ==
  /\ pc[s] = "new" /\ asked[s].kind = "install"
  /\ IF Valid(asked[s]) THEN Goto(s, "look") ELSE Return(s, -1)
  /\ UNCHANGED <<asked, attempts, images, container, sem>> /\ UNCHANGED checkVars

\* isImageAvailable: an image that is there may be missed when podman fails.
isImageAvailable(image) == {FALSE} \cup {image \in images}

LookForImage(s) ==
  /\ pc[s] = "look"
  /\ \E available \in isImageAvailable(asked[s].image) :
       Goto(s, IF available THEN "launch" ELSE "pull")
  /\ UNCHANGED <<asked, attempts, images, container, sem>> /\ UNCHANGED checkVars

\* pullImageWithRetry: one attempt, which succeeds, fails or is cut off.
pullImageWithRetry(s) ==
  /\ pc[s] = "pull"
  /\ attempts' = [attempts EXCEPT ![s] = @ + 1]
  /\ \/ /\ images' = images \cup {asked[s].image}
        /\ Goto(s, "launch")
     \/ /\ IF attempts[s] + 1 < Retries THEN Goto(s, "pull")
           ELSE Return(s, failedToPullImageExitCode)
        /\ UNCHANGED images
  /\ UNCHANGED <<asked, container, sem>> /\ UNCHANGED checkVars

\* Mutant of RunInstaller: the container has no name.
RunUnnamed(s) ==
  /\ pc[s] = "launch"
  /\ container' = [owner |-> s, state |-> "running", code |-> 0]
  /\ Goto(s, "running")
  /\ UNCHANGED <<asked, attempts, images, sem>> /\ UNCHANGED checkVars

\* podman run --name=assisted-installer
RunInstaller(s) ==
  /\ pc[s] = "launch"
  /\ IF container.state = "none"
     THEN /\ container' = [owner |-> s, state |-> "running", code |-> 0]
          /\ Goto(s, "running")
     ELSE Return(s, NameInUse) /\ UNCHANGED container
  /\ UNCHANGED <<asked, attempts, images, sem>> /\ UNCHANGED checkVars

\* The installer ends by itself.
InstallerExits ==
  /\ container.state = "running"
  /\ \E code \in {0, 1} : container' = [container EXCEPT !.state = "exited", !.code = code]
  /\ UNCHANGED <<asked, pc, exit, attempts, images, sem>> /\ UNCHANGED checkVars

\* podman run returns the exit code of the container.
InstallReturns(s) ==
  /\ pc[s] = "running" /\ container.owner = s /\ container.state = "exited"
  /\ Return(s, container.code)
  /\ UNCHANGED <<asked, attempts, images, container, sem>> /\ UNCHANGED checkVars
-----------------------------------------------------------------------------
(***************************************************************************)
(* stop_installation                                                       *)
(***************************************************************************)

\* Mutant of StopInstallation: podman stop returns without waiting for the container.
StopWithoutEffect(s) ==
  /\ pc[s] = "new" /\ asked[s].kind = "stop"
  /\ Return(s, 0)
  /\ UNCHANGED <<asked, attempts, images, container, sem>> /\ UNCHANGED checkVars

\* podman stop -i: a container that is not there, or not running, is no error.
StopInstallation(s) ==
  /\ pc[s] = "new" /\ asked[s].kind = "stop"
  /\ container' = IF container.state = "running"
                  THEN [container EXCEPT !.state = "exited", !.code = Stopped]
                  ELSE container
  /\ Return(s, 0)
  /\ UNCHANGED <<asked, attempts, images, sem>> /\ UNCHANGED checkVars
-----------------------------------------------------------------------------
(***************************************************************************)
(* container_image_availability                                            *)
(***************************************************************************)
Current(s) == asked[s].images[Len(results[s]) + 1]

Elapses(s, time) == elapsed' = [elapsed EXCEPT ![s] = @ + time]

\* imageResponse is appended to the response.
Responds(s, result, measured) ==
  /\ results' = [results EXCEPT ![s] =
                   Append(@, [name |-> Current(s), result |-> result, measured |-> measured])]
  /\ Goto(s, "loop")

\* sem.TryAcquire: a second step is answered at once, with nothing.
StartCheck(s) ==
  /\ pc[s] = "new" /\ asked[s].kind = "check"
  /\ IF sem = NoStep THEN sem' = s /\ Goto(s, "loop")
     ELSE Return(s, 0) /\ UNCHANGED sem
  /\ UNCHANGED <<asked, attempts, images, container>> /\ UNCHANGED checkVars

\* Mutant of timeLeft: every image has the whole time.
wholeTime(s) == asked[s].timeout

\* int64(time.Until(finishOnTimeout).Seconds())
timeLeft(s) ==
  IF elapsed[s] >= 2 * asked[s].timeout THEN 0
  ELSE (2 * asked[s].timeout - elapsed[s]) \div 2

\* The turn of an image comes; in a dry run its response is made up.
NextImage(s) ==
  /\ pc[s] = "loop" /\ Len(results[s]) < Len(asked[s].images)
  /\ budget' = [budget EXCEPT ![s] = timeLeft(s)]
  /\ IF asked[s].dry THEN Responds(s, "success", TRUE)
     ELSE Goto(s, "lookup") /\ UNCHANGED results
  /\ UNCHANGED <<asked, attempts, images, container, sem, elapsed, existed>>

\* imageExistLocallyBeforePull, and the test of the time left.
LookUp(s) ==
  /\ pc[s] = "lookup"
  /\ \E there \in isImageAvailable(Current(s)), time \in 0 .. LookTime :
       existed' = [existed EXCEPT ![s] = there] /\ Elapses(s, time)
  /\ IF budget[s] <= 0 THEN Responds(s, "failure", FALSE)
     ELSE Goto(s, "fetch") /\ UNCHANGED results
  /\ UNCHANGED <<asked, attempts, images, container, sem, budget>>

\* timeout <budget> podman pull: it succeeds, or fails, or is cut off.
FetchImage(s) ==
  /\ pc[s] = "fetch"
  /\ \E time \in 0 .. 2 * budget[s] : Elapses(s, time)
  /\ \/ /\ images' = images \cup {Current(s)}
        /\ IF existed[s] THEN Responds(s, "success", FALSE)
           ELSE Goto(s, "inspect") /\ UNCHANGED results
     \/ Responds(s, "failure", FALSE) /\ UNCHANGED images
  /\ UNCHANGED <<asked, attempts, container, sem, budget, existed>>

\* getImageSizeInBytes, and the rate of the download.
InspectImage(s) ==
  /\ pc[s] = "inspect"
  /\ \/ Responds(s, "success", TRUE)
     \/ Responds(s, "failure", FALSE)
  /\ UNCHANGED <<asked, attempts, images, container, sem, elapsed, budget, existed>>

\* Mutant of CheckReturns: the exit code is that of the last image.
ReturnsLast(s) ==
  /\ pc[s] = "loop" /\ Len(results[s]) = Len(asked[s].images)
  /\ Return(s, IF results[s] # <<>> /\ results[s][Len(results[s])].result # "success"
               THEN failedToPullImageExitCode ELSE 0)
  /\ sem' = NoStep
  /\ UNCHANGED <<asked, attempts, images, container>> /\ UNCHANGED checkVars

\* The response is complete; the semaphore is released.
CheckReturns(s) ==
  /\ pc[s] = "loop" /\ Len(results[s]) = Len(asked[s].images)
  /\ Return(s, IF \E n \in DOMAIN results[s] : results[s][n].result # "success"
               THEN failedToPullImageExitCode ELSE 0)
  /\ sem' = NoStep
  /\ UNCHANGED <<asked, attempts, images, container>> /\ UNCHANGED checkVars
-----------------------------------------------------------------------------
\* What a step does by itself.
Install(s) ==
  ValidateInstall(s) \/ LookForImage(s) \/ pullImageWithRetry(s) \/ RunInstaller(s)
    \/ InstallReturns(s)
Check(s) ==
  StartCheck(s) \/ NextImage(s) \/ LookUp(s) \/ FetchImage(s) \/ InspectImage(s) \/ CheckReturns(s)

Next ==
  \/ \E s \in Steps : Install(s) \/ StopInstallation(s) \/ Check(s)
  \/ InstallerExits

Spec == Init /\ [][Next]_vars

\* Every goroutine is scheduled and every podman command ends, the pulls because
\* of timeout(1); the installer itself may run for ever.
FairSpec ==
  /\ Spec
  /\ WF_vars(\E s \in Steps : Install(s))
  /\ WF_vars(\E s \in Steps : StopInstallation(s))
  /\ WF_vars(\E s \in Steps : Check(s))
-----------------------------------------------------------------------------
\* The installer runs only for a request that passed Validate, with its image in the
\* store, and for one step at a time, whatever steps run beside it.
InstallerIsReady ==
  /\ container.state = "running" =>
       /\ Valid(asked[container.owner]) /\ asked[container.owner].image \in images
       /\ pc[container.owner] = "running"
  /\ \A s, t \in Steps : pc[s] = "running" /\ pc[t] = "running" => s = t

\* A failure to pull the installer is reported only after every retry was used, and
\* an install that reports another code has had a container or lost its name.
PullFailureIsFinal ==
  \A s \in Kind("install") : pc[s] = "end" =>
    /\ exit[s] = failedToPullImageExitCode => attempts[s] = Retries
    /\ exit[s] \in {0, 1, Stopped} => container.owner = s
    /\ exit[s] = NameInUse => container.owner \notin {s, NoStep}

\* The container is started once in the life of the host: after it was stopped, or
\* ended, its name stays taken, and a later install fails.
InstallerStartsOnce ==
  [][container.owner # NoStep => container'.owner = container.owner
                                 /\ (container.state = "exited" => container' = container)]_vars

\* A response names the images of the request in their order, says "success" only
\* of an image that is in the store, and the exit code tells whether all are.
ResponseIsTrue ==
  \A s \in Kind("check") :
    /\ \A n \in DOMAIN results[s] :
         /\ results[s][n].name = asked[s].images[n]
         /\ results[s][n].result = "success" /\ ~asked[s].dry => results[s][n].name \in images
    /\ pc[s] = "end" /\ results[s] # <<>> =>
         (exit[s] = 0 <=> \A n \in DOMAIN results[s] : results[s][n].result = "success")

\* Two availability steps never pull at the same time, and the one that pulls holds
\* the semaphore.
OneCheckAtATime ==
  \A s \in Kind("check") : pc[s] \notin {"new", "end"} <=> sem = s

\* The pulls of an availability step end in its time, but for that of one look at
\* the store: the time left is taken before the look and used after it.
PullsEndInTime ==
  \A s \in Kind("check") :
    pc[s] = "inspect" => elapsed[s] <= 2 * asked[s].timeout + LookTime

\* An install whose installer runs when a stop is asked for ends, even if the
\* installer would have run for ever.
StopEndsInstall ==
  (/\ \E s \in Kind("stop") : pc[s] = "new"
   /\ \E t \in Kind("install") : pc[t] = "running")
    ~> (\A t \in Kind("install") : pc[t] # "running")
=============================================================================
