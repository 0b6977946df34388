------------------------- MODULE InstallCommandProofs -------------------------
(***************************************************************************)
(* The safety of the steps that share podman, for any steps the service    *)
(* asks for together, any requests, images, retries and times.  None of    *)
(* the properties is inductive: the invariant says at which place of the   *)
(* code each kind of step can be, what an install has made sure of by      *)
(* then, to which step the container belongs, and how the time a check has *)
(* used relates to what is left of it.                                     *)
(*                                                                         *)
(* The last sections are about the command line of the installer: its      *)
(* parts are well formed each, so the parser takes every flag for a flag.  *)
(***************************************************************************)
EXTENDS Installation, SequenceLemmas

InstallPlaces == {"look", "pull", "launch", "running"}
CheckPlaces == {"loop", "lookup", "fetch", "inspect"}

Types ==
  /\ asked \in Asked
  /\ pc \in [Steps -> InstallPlaces \cup CheckPlaces \cup {"new", "end"}]
  /\ exit \in [Steps -> Int]
  /\ attempts \in [Steps -> Nat]
  /\ container \in [owner : Steps \cup {NoStep}, state : {"none", "running", "exited"},
                    code : {0, 1, Stopped}]
  /\ elapsed \in [Steps -> Nat]
  /\ budget \in [Steps -> Nat]

\* Where a step can be, and what an install has made sure of there.
Places ==
  \A s \in Steps :
    /\ pc[s] \in InstallPlaces => asked[s].kind = "install" /\ Valid(asked[s])
    /\ pc[s] \in CheckPlaces => asked[s].kind = "check"
    /\ pc[s] \in {"launch", "running"} => asked[s].image \in images
    /\ pc[s] \in {"new", "look"} => attempts[s] = 0
    /\ pc[s] = "pull" => attempts[s] < Retries

\* The container and the step it belongs to.
Ownership ==
  /\ container.state = "none" <=> container.owner = NoStep
  /\ container.state = "running" => pc[container.owner] = "running"
  /\ \A s \in Steps : pc[s] = "running" => container.owner = s
  /\ \A s \in Steps : container.owner = s => pc[s] \in {"running", "end"}

\* What is left of the time of a check.
Times ==
  \A s \in Kind("check") :
    /\ pc[s] = "lookup" => budget[s] = 0 \/ 2 * budget[s] + elapsed[s] <= 2 * asked[s].timeout
    /\ pc[s] = "fetch" => 2 * budget[s] + elapsed[s] <= 2 * asked[s].timeout + LookTime
    /\ pc[s] = "inspect" => elapsed[s] <= 2 * asked[s].timeout + LookTime

InstallInv ==
  Types /\ Places /\ Ownership /\ Times /\ OneCheckAtATime /\ PullFailureIsFinal
-----------------------------------------------------------------------------
\* No step is called NoStep, and the time of a check is a number.
LEMMA AskedSteps ==
  ASSUME asked \in Asked
  PROVE  /\ NoStep \notin Steps
         /\ \A s \in Steps : asked[s].kind \in {"install", "stop", "check"}
         /\ \A s \in Kind("check") : asked[s].timeout \in Nat
BY AskedAssumption DEF Steps, Kind

\* At the start every step is new and nothing belongs to any.
LEMMA InstallStart == Init => InstallInv
<1> SUFFICES ASSUME Init PROVE InstallInv
  OBVIOUS
<1>0. asked \in Asked /\ NoStep \notin Steps
  BY AskedSteps DEF Init
<1>1. Types
  BY DEF Init, Types, Steps
<1>2. Places
  BY DEF Init, Places, InstallPlaces, CheckPlaces
<1>3. Ownership
  BY <1>0 DEF Init, Ownership
<1>4. Times
  BY DEF Init, Times, Kind
<1>5. OneCheckAtATime
  BY <1>0 DEF Init, OneCheckAtATime, Kind
<1>6. PullFailureIsFinal
  BY DEF Init, PullFailureIsFinal, Kind
<1> QED
  BY <1>1, <1>2, <1>3, <1>4, <1>5, <1>6 DEF InstallInv

-----------------------------------------------------------------------------
\* Every action of a step keeps the invariant.
LEMMA InstallActs ==
  ASSUME InstallInv, NEW s \in Steps, Install(s) \/ StopInstallation(s) \/ Check(s)
  PROVE  InstallInv'
<1> USE RetriesAssumption, LookTimeAssumption
<1>0. /\ asked' = asked /\ Steps' = Steps /\ \A k : Kind(k)' = Kind(k)
      /\ NoStep \notin Steps
      /\ \A t \in Steps : asked[t].kind \in {"install", "stop", "check"}
      /\ \A t \in Kind("check") : asked[t].timeout \in Nat
  BY AskedSteps, Zenon DEF InstallInv, Types, Steps, Kind, Install, Check, ValidateInstall, LookForImage,
     pullImageWithRetry, RunInstaller, InstallReturns, StopInstallation, StartCheck, NextImage,
     LookUp, FetchImage, InspectImage, CheckReturns
<1>1. CASE ValidateInstall(s)
  <2> USE <1>0, <1>1 DEF ValidateInstall, Goto, Return, checkVars
  <2>1. Types'
    BY DEF InstallInv, Types, Places, InstallPlaces, CheckPlaces, Stopped, Kind
  <2>2. Places'
    BY DEF InstallInv, Types, Places, InstallPlaces, CheckPlaces
  <2>3. Ownership'
    BY DEF InstallInv, Types, Places, InstallPlaces, CheckPlaces, Ownership
  <2>4. Times'
    BY DEF InstallInv, Types, Places, InstallPlaces, CheckPlaces, Times, Kind
  <2>5. OneCheckAtATime'
    BY DEF InstallInv, Types, Places, InstallPlaces, CheckPlaces, OneCheckAtATime, Kind
  <2>6. PullFailureIsFinal'
    BY DEF InstallInv, Types, Places, InstallPlaces, CheckPlaces, Ownership, PullFailureIsFinal, Kind,
       failedToPullImageExitCode, NameInUse, Stopped
  <2> QED
    BY <2>1, <2>2, <2>3, <2>4, <2>5, <2>6 DEF InstallInv
<1>2. CASE LookForImage(s)
  <2> USE <1>0, <1>2 DEF LookForImage, isImageAvailable, Goto, checkVars
  <2>1. Types'
    BY DEF InstallInv, Types, Places, InstallPlaces, CheckPlaces, Stopped, Kind
  <2>2. Places'
    BY DEF InstallInv, Types, Places, InstallPlaces, CheckPlaces
  <2>3. Ownership'
    BY DEF InstallInv, Types, Places, InstallPlaces, CheckPlaces, Ownership
  <2>4. Times'
    BY DEF InstallInv, Types, Places, InstallPlaces, CheckPlaces, Times, Kind
  <2>5. OneCheckAtATime'
    BY DEF InstallInv, Types, Places, InstallPlaces, CheckPlaces, OneCheckAtATime, Kind
  <2>6. PullFailureIsFinal'
    BY DEF InstallInv, Types, Places, InstallPlaces, CheckPlaces, Ownership, PullFailureIsFinal, Kind,
       failedToPullImageExitCode, NameInUse, Stopped
  <2> QED
    BY <2>1, <2>2, <2>3, <2>4, <2>5, <2>6 DEF InstallInv
<1>3. CASE pullImageWithRetry(s)
  <2> USE <1>0, <1>3 DEF pullImageWithRetry, Goto, Return, failedToPullImageExitCode, checkVars
  <2>1. Types'
    BY DEF InstallInv, Types, Places, InstallPlaces, CheckPlaces, Stopped, Kind
  <2>2. Places'
    BY DEF InstallInv, Types, Places, InstallPlaces, CheckPlaces
  <2>3. Ownership'
    BY DEF InstallInv, Types, Places, InstallPlaces, CheckPlaces, Ownership
  <2>4. Times'
    BY DEF InstallInv, Types, Places, InstallPlaces, CheckPlaces, Times, Kind
  <2>5. OneCheckAtATime'
    BY DEF InstallInv, Types, Places, InstallPlaces, CheckPlaces, OneCheckAtATime, Kind
  <2>6. PullFailureIsFinal'
    <3> SUFFICES ASSUME NEW t \in Kind("install"), pc'[t] = "end"
                 PROVE  /\ exit'[t] = failedToPullImageExitCode => attempts'[t] = Retries
                        /\ exit'[t] \in {0, 1, Stopped} => container.owner = t
                        /\ exit'[t] = NameInUse => container.owner \notin {t, NoStep}
      BY DEF PullFailureIsFinal
    <3>1. CASE t = s
      <4>1. pc[s] = "pull" /\ attempts[s] < Retries /\ attempts[s] \in Nat
        BY DEF InstallInv, Types, Places
      <4>2. attempts'[s] = attempts[s] + 1 /\ exit'[s] = 2 /\ ~(attempts[s] + 1 < Retries)
        BY <3>1, <4>1 DEF InstallInv, Types
      <4> QED
        BY <3>1, <4>1, <4>2 DEF Stopped, NameInUse
    <3>2. CASE t # s
      <4>1. pc'[t] = pc[t] /\ exit'[t] = exit[t] /\ attempts'[t] = attempts[t]
        BY <3>2 DEF InstallInv, Types, Kind
      <4> QED
        BY <4>1 DEF InstallInv, PullFailureIsFinal
    <3> QED
      BY <3>1, <3>2
  <2> QED
    BY <2>1, <2>2, <2>3, <2>4, <2>5, <2>6 DEF InstallInv
<1>4. CASE RunInstaller(s)
  <2> USE <1>0, <1>4 DEF RunInstaller, Goto, Return, NameInUse, checkVars
  <2>1. Types'
    BY DEF InstallInv, Types, Places, InstallPlaces, CheckPlaces, Stopped, Kind
  <2>2. Places'
    BY DEF InstallInv, Types, Places, InstallPlaces, CheckPlaces
  <2>3. Ownership'
    BY DEF InstallInv, Types, Places, InstallPlaces, CheckPlaces, Ownership
  <2>4. Times'
    BY DEF InstallInv, Types, Places, InstallPlaces, CheckPlaces, Times, Kind
  <2>5. OneCheckAtATime'
    BY DEF InstallInv, Types, Places, InstallPlaces, CheckPlaces, OneCheckAtATime, Kind
  <2>6. PullFailureIsFinal'
    BY DEF InstallInv, Types, Places, InstallPlaces, CheckPlaces, Ownership, PullFailureIsFinal, Kind,
       failedToPullImageExitCode, NameInUse, Stopped
  <2> QED
    BY <2>1, <2>2, <2>3, <2>4, <2>5, <2>6 DEF InstallInv
<1>5. CASE InstallReturns(s)
  <2> USE <1>0, <1>5 DEF InstallReturns, Return, checkVars
  <2>1. Types'
    BY DEF InstallInv, Types, Places, InstallPlaces, CheckPlaces, Stopped, Kind
  <2>2. Places'
    BY DEF InstallInv, Types, Places, InstallPlaces, CheckPlaces
  <2>3. Ownership'
    BY DEF InstallInv, Types, Places, InstallPlaces, CheckPlaces, Ownership
  <2>4. Times'
    BY DEF InstallInv, Types, Places, InstallPlaces, CheckPlaces, Times, Kind
  <2>5. OneCheckAtATime'
    BY DEF InstallInv, Types, Places, InstallPlaces, CheckPlaces, OneCheckAtATime, Kind
  <2>6. PullFailureIsFinal'
    BY DEF InstallInv, Types, Places, InstallPlaces, CheckPlaces, Ownership, PullFailureIsFinal, Kind,
       failedToPullImageExitCode, NameInUse, Stopped
  <2> QED
    BY <2>1, <2>2, <2>3, <2>4, <2>5, <2>6 DEF InstallInv
<1>6. CASE StopInstallation(s)
  <2> USE <1>0, <1>6 DEF StopInstallation, Return, checkVars
  <2>1. Types'
    <3>1. CASE container.state = "running"
      <4>1. container' = [owner |-> container.owner, state |-> "exited", code |-> Stopped]
        BY <3>1, Zenon DEF InstallInv, Types
      <4> QED
        BY <4>1 DEF InstallInv, Types
    <3>2. CASE container.state # "running"
      BY <3>2 DEF InstallInv, Types
    <3> QED
      BY <3>1, <3>2
  <2>2. Places'
    BY DEF InstallInv, Types, Places, InstallPlaces, CheckPlaces
  <2>3. Ownership'
    BY DEF InstallInv, Types, Places, InstallPlaces, CheckPlaces, Ownership
  <2>4. Times'
    BY DEF InstallInv, Types, Places, InstallPlaces, CheckPlaces, Times, Kind
  <2>5. OneCheckAtATime'
    BY DEF InstallInv, Types, Places, InstallPlaces, CheckPlaces, OneCheckAtATime, Kind
  <2>6. PullFailureIsFinal'
    BY DEF InstallInv, Types, Places, InstallPlaces, CheckPlaces, Ownership, PullFailureIsFinal, Kind,
       failedToPullImageExitCode, NameInUse, Stopped
  <2> QED
    BY <2>1, <2>2, <2>3, <2>4, <2>5, <2>6 DEF InstallInv
<1>7. CASE StartCheck(s)
  <2> USE <1>0, <1>7 DEF StartCheck, Goto, Return, checkVars
  <2>1. Types'
    BY DEF InstallInv, Types, Places, InstallPlaces, CheckPlaces, Stopped, Kind
  <2>2. Places'
    BY DEF InstallInv, Types, Places, InstallPlaces, CheckPlaces
  <2>3. Ownership'
    BY DEF InstallInv, Types, Places, InstallPlaces, CheckPlaces, Ownership
  <2>4. Times'
    BY DEF InstallInv, Types, Places, InstallPlaces, CheckPlaces, Times, Kind
  <2>5. OneCheckAtATime'
    BY DEF InstallInv, Types, Places, InstallPlaces, CheckPlaces, OneCheckAtATime, Kind
  <2>6. PullFailureIsFinal'
    BY DEF InstallInv, Types, Places, InstallPlaces, CheckPlaces, Ownership, PullFailureIsFinal, Kind,
       failedToPullImageExitCode, NameInUse, Stopped
  <2> QED
    BY <2>1, <2>2, <2>3, <2>4, <2>5, <2>6 DEF InstallInv
<1>8. CASE NextImage(s)
  <2> USE <1>0
  <2>0. /\ pc[s] = "loop" /\ s \in Kind("check") /\ timeLeft(s) \in Nat
        /\ timeLeft(s) = 0 \/ 2 * timeLeft(s) + elapsed[s] <= 2 * asked[s].timeout
        /\ \E where \in {"loop", "lookup"} : pc' = [pc EXCEPT ![s] = where]
        /\ budget' = [budget EXCEPT ![s] = timeLeft(s)]
        /\ UNCHANGED <<asked, exit, attempts, images, container, sem, elapsed>>
    <3>1. pc[s] = "loop" /\ s \in Kind("check") /\ elapsed[s] \in Nat
      BY <1>8 DEF NextImage, InstallInv, Types, Places, CheckPlaces, Kind
    <3>2. timeLeft(s) \in Nat /\ (timeLeft(s) = 0 \/ 2 * timeLeft(s) + elapsed[s] <= 2 * asked[s].timeout)
      BY <3>1 DEF timeLeft
    <3> QED
      BY <1>8, <3>1, <3>2 DEF NextImage, Responds, Goto
  <2>1. Types'
    BY <2>0 DEF InstallInv, Types, Places, InstallPlaces, CheckPlaces, Stopped, Kind
  <2>2. Places'
    BY <2>0 DEF InstallInv, Types, Places, InstallPlaces, CheckPlaces
  <2>3. Ownership'
    BY <2>0 DEF InstallInv, Types, Places, InstallPlaces, CheckPlaces, Ownership
  <2>4. Times'
    BY <2>0 DEF InstallInv, Types, Places, InstallPlaces, CheckPlaces, Times, Kind
  <2>5. OneCheckAtATime'
    BY <2>0 DEF InstallInv, Types, Places, InstallPlaces, CheckPlaces, OneCheckAtATime, Kind
  <2>6. PullFailureIsFinal'
    BY <2>0 DEF InstallInv, Types, Places, InstallPlaces, CheckPlaces, Ownership, PullFailureIsFinal, Kind,
       failedToPullImageExitCode, NameInUse, Stopped
  <2> QED
    BY <2>1, <2>2, <2>3, <2>4, <2>5, <2>6 DEF InstallInv
<1>9. CASE LookUp(s)
  <2> USE <1>0
  <2>0. /\ pc[s] = "lookup" /\ s \in Kind("check")
        /\ \/ pc' = [pc EXCEPT ![s] = "loop"]
           \/ pc' = [pc EXCEPT ![s] = "fetch"] /\ ~(budget[s] <= 0)
        /\ \E time \in 0 .. LookTime : elapsed' = [elapsed EXCEPT ![s] = elapsed[s] + time]
        /\ UNCHANGED <<asked, exit, attempts, images, container, sem, budget>>
    BY <1>9, Zenon DEF LookUp, Responds, Goto, Elapses, InstallInv, Places, CheckPlaces, Kind
  <2>1. Types'
    BY <2>0 DEF InstallInv, Types, Places, InstallPlaces, CheckPlaces, Stopped, Kind
  <2>2. Places'
    BY <2>0 DEF InstallInv, Types, Places, InstallPlaces, CheckPlaces
  <2>3. Ownership'
    BY <2>0 DEF InstallInv, Types, Places, InstallPlaces, CheckPlaces, Ownership
  <2>4. Times'
    BY <2>0 DEF InstallInv, Types, Places, InstallPlaces, CheckPlaces, Times, Kind
  <2>5. OneCheckAtATime'
    BY <2>0 DEF InstallInv, Types, Places, InstallPlaces, CheckPlaces, OneCheckAtATime, Kind
  <2>6. PullFailureIsFinal'
    BY <2>0 DEF InstallInv, Types, Places, InstallPlaces, CheckPlaces, Ownership, PullFailureIsFinal, Kind,
       failedToPullImageExitCode, NameInUse, Stopped
  <2> QED
    BY <2>1, <2>2, <2>3, <2>4, <2>5, <2>6 DEF InstallInv
<1>10. CASE FetchImage(s)
  <2> USE <1>0
  <2>0. /\ pc[s] = "fetch" /\ s \in Kind("check")
        /\ \E where \in {"loop", "inspect"} : pc' = [pc EXCEPT ![s] = where]
        /\ \E time \in 0 .. 2 * budget[s] : elapsed' = [elapsed EXCEPT ![s] = elapsed[s] + time]
        /\ images \subseteq images'
        /\ UNCHANGED <<asked, exit, attempts, container, sem, budget>>
    BY <1>10, Zenon DEF FetchImage, Responds, Goto, Elapses, InstallInv, Places, CheckPlaces, Kind
  <2>1. Types'
    BY <2>0 DEF InstallInv, Types, Places, InstallPlaces, CheckPlaces, Stopped, Kind
  <2>2. Places'
    BY <2>0 DEF InstallInv, Types, Places, InstallPlaces, CheckPlaces
  <2>3. Ownership'
    BY <2>0 DEF InstallInv, Types, Places, InstallPlaces, CheckPlaces, Ownership
  <2>4. Times'
    BY <2>0 DEF InstallInv, Types, Places, InstallPlaces, CheckPlaces, Times, Kind
  <2>5. OneCheckAtATime'
    BY <2>0 DEF InstallInv, Types, Places, InstallPlaces, CheckPlaces, OneCheckAtATime, Kind
  <2>6. PullFailureIsFinal'
    BY <2>0 DEF InstallInv, Types, Places, InstallPlaces, CheckPlaces, Ownership, PullFailureIsFinal, Kind,
       failedToPullImageExitCode, NameInUse, Stopped
  <2> QED
    BY <2>1, <2>2, <2>3, <2>4, <2>5, <2>6 DEF InstallInv
<1>11. CASE InspectImage(s)
  <2> USE <1>0
  <2>0. /\ pc[s] = "inspect" /\ s \in Kind("check")
        /\ pc' = [pc EXCEPT ![s] = "loop"]
        /\ UNCHANGED <<asked, exit, attempts, images, container, sem, elapsed, budget>>
    BY <1>11 DEF InspectImage, Responds, Goto, InstallInv, Places, CheckPlaces, Kind
  <2>1. Types'
    BY <2>0 DEF InstallInv, Types, Places, InstallPlaces, CheckPlaces, Stopped, Kind
  <2>2. Places'
    BY <2>0 DEF InstallInv, Types, Places, InstallPlaces, CheckPlaces
  <2>3. Ownership'
    BY <2>0 DEF InstallInv, Types, Places, InstallPlaces, CheckPlaces, Ownership
  <2>4. Times'
    BY <2>0 DEF InstallInv, Types, Places, InstallPlaces, CheckPlaces, Times, Kind
  <2>5. OneCheckAtATime'
    BY <2>0 DEF InstallInv, Types, Places, InstallPlaces, CheckPlaces, OneCheckAtATime, Kind
  <2>6. PullFailureIsFinal'
    BY <2>0 DEF InstallInv, Types, Places, InstallPlaces, CheckPlaces, Ownership, PullFailureIsFinal, Kind,
       failedToPullImageExitCode, NameInUse, Stopped
  <2> QED
    BY <2>1, <2>2, <2>3, <2>4, <2>5, <2>6 DEF InstallInv
<1>12. CASE CheckReturns(s)
  <2> USE <1>0
  <2>0. /\ pc[s] = "loop" /\ s \in Kind("check")
        /\ pc' = [pc EXCEPT ![s] = "end"] /\ sem' = NoStep
        /\ \E code \in {0, failedToPullImageExitCode} : exit' = [exit EXCEPT ![s] = code]
        /\ UNCHANGED <<asked, attempts, images, container, elapsed, budget>>
    BY <1>12, Zenon DEF CheckReturns, Return, checkVars, InstallInv, Places, CheckPlaces, Kind
  <2>1. Types'
    BY <2>0 DEF InstallInv, Types, Places, InstallPlaces, CheckPlaces, Kind,
       failedToPullImageExitCode
  <2>2. Places'
    BY <2>0 DEF InstallInv, Types, Places, InstallPlaces, CheckPlaces
  <2>3. Ownership'
    BY <2>0 DEF InstallInv, Types, Places, InstallPlaces, CheckPlaces, Ownership
  <2>4. Times'
    BY <2>0 DEF InstallInv, Types, Places, InstallPlaces, CheckPlaces, Times, Kind
  <2>5. OneCheckAtATime'
    BY <2>0 DEF InstallInv, Types, Places, InstallPlaces, CheckPlaces, OneCheckAtATime, Kind
  <2>6. PullFailureIsFinal'
    BY <2>0 DEF InstallInv, Types, Places, InstallPlaces, CheckPlaces, Ownership, PullFailureIsFinal, Kind,
       failedToPullImageExitCode, NameInUse, Stopped
  <2> QED
    BY <2>1, <2>2, <2>3, <2>4, <2>5, <2>6 DEF InstallInv
<1> QED
  BY <1>1, <1>2, <1>3, <1>4, <1>5, <1>6, <1>7, <1>8, <1>9, <1>10, <1>11, <1>12 DEF Install, Check

\* So does the end of the installer.
LEMMA ExitKeeps ==
  ASSUME InstallInv, InstallerExits
  PROVE  InstallInv'
<1>0. /\ UNCHANGED <<asked, pc, exit, attempts, images, sem, elapsed, budget>>
      /\ Steps' = Steps /\ \A k : Kind(k)' = Kind(k)
  BY DEF InstallerExits, checkVars, Steps, Kind
<1>1. PICK code \in {0, 1} :
        container' = [owner |-> container.owner, state |-> "exited", code |-> code]
  BY Zenon DEF InstallerExits, InstallInv, Types
<1>2. Types'
  BY <1>0, <1>1 DEF InstallInv, Types
<1>3. Places'
  BY <1>0 DEF InstallInv, Places
<1>4. Ownership'
  BY <1>0, <1>1 DEF InstallInv, Ownership, InstallerExits
<1>5. Times'
  BY <1>0 DEF InstallInv, Times
<1>6. OneCheckAtATime'
  BY <1>0 DEF InstallInv, OneCheckAtATime
<1>7. PullFailureIsFinal'
  BY <1>0, <1>1 DEF InstallInv, PullFailureIsFinal
<1> QED
  BY <1>2, <1>3, <1>4, <1>5, <1>6, <1>7 DEF InstallInv

\* The invariant holds of every run of install, stop_installation and
\* container_image_availability steps, started in any number and order.
THEOREM InstallInvariance == Spec => []InstallInv
<1>1. InstallInv /\ [Next]_vars => InstallInv'
  <2>1. InstallInv /\ Next => InstallInv'
    BY InstallActs, ExitKeeps DEF Next
  <2>2. InstallInv /\ UNCHANGED vars => InstallInv'
    BY DEF vars, checkVars, InstallInv, Types, Places, Ownership, Times, OneCheckAtATime,
       PullFailureIsFinal, Steps, Kind
  <2> QED
    BY <2>1, <2>2
<1> QED
  BY InstallStart, <1>1, PTL DEF Spec

\* The installer runs only for a valid request, with its image in the store, and for
\* one step: what Run and podman's --name promise together.
THEOREM InstallerSafety == Spec => []InstallerIsReady
<1>1. InstallInv => InstallerIsReady
  <2> SUFFICES ASSUME InstallInv PROVE InstallerIsReady
    OBVIOUS
  <2>1. ASSUME container.state = "running"
        PROVE  container.owner \in Steps /\ pc[container.owner] = "running"
    BY <2>1 DEF InstallInv, Types, Ownership
  <2>2. \A s \in Steps : pc[s] = "running" => Valid(asked[s]) /\ asked[s].image \in images
    BY DEF InstallInv, Places, InstallPlaces
  <2>3. \A s, t \in Steps : pc[s] = "running" /\ pc[t] = "running" => s = t
    BY DEF InstallInv, Ownership
  <2> QED
    BY <2>1, <2>2, <2>3 DEF InstallerIsReady
<1> QED
  BY <1>1, InstallInvariance, PTL

\* failedToPullImageExitCode is returned only after the last retry of
\* pullImageWithRetry, and the other codes come from the container or its name.
THEOREM PullFailureSafety == Spec => []PullFailureIsFinal
BY InstallInvariance, PTL DEF InstallInv

\* The semaphore of container_image_availability is held by the one step that is
\* between TryAcquire and Release.
THEOREM CheckSafety == Spec => []OneCheckAtATime
BY InstallInvariance, PTL DEF InstallInv

\* The pulls of an availability step end in its time, plus that of one look at the
\* store, however many images it pulls.
THEOREM PullTimeSafety == Spec => []PullsEndInTime
<1>1. InstallInv => PullsEndInTime
  BY DEF InstallInv, Times, PullsEndInTime
<1> QED
  BY <1>1, InstallInvariance, PTL

\* No step of any install or stop gives the container another owner or another life
\* once it has one.
THEOREM StartsOnce == Spec => InstallerStartsOnce
<1> DEFINE Same ==
      container.owner # NoStep => container'.owner = container.owner
                                  /\ (container.state = "exited" => container' = container)
<1>1. InstallInv /\ [Next]_vars => [Same]_vars
  <2> SUFFICES ASSUME InstallInv, Next PROVE Same
    OBVIOUS
  <2>1. CASE InstallerExits
    BY <2>1 DEF InstallerExits, InstallInv, Types
  <2>2. ASSUME NEW s \in Steps, StopInstallation(s) PROVE Same
    BY <2>2 DEF StopInstallation, InstallInv, Types
  <2>3. ASSUME NEW s \in Steps, RunInstaller(s) PROVE Same
    BY <2>3 DEF RunInstaller, InstallInv, Ownership
  <2>4. ASSUME NEW s \in Steps, Install(s) \/ Check(s), ~RunInstaller(s) PROVE Same
    <3>1. container' = container
      BY <2>4, Zenon DEF Install, Check, ValidateInstall, LookForImage, pullImageWithRetry, InstallReturns,
         StartCheck, NextImage, LookUp, FetchImage, InspectImage, CheckReturns
    <3> QED
      BY <3>1
  <2> QED
    BY <2>1, <2>2, <2>3, <2>4 DEF Next, Install
<1> QED
  BY <1>1, InstallInvariance, PTL DEF Spec, InstallerStartsOnce
-----------------------------------------------------------------------------
(***************************************************************************)
(* The responses of container_image_availability.  ResponseIsTrue needs to *)
(* know in addition that a response never has more answers than the        *)
(* request has images, and that an image whose size is looked up has been  *)
(* pulled: nothing takes it out of the store meanwhile.                    *)
(***************************************************************************)
Answers(s) ==
  [name : {asked[s].images[n] : n \in 1 .. Len(asked[s].images)},
   result : {"success", "failure"}, measured : BOOLEAN]

\* The answers so far are those of the images, in order, and true.
AnswersAreTrue(s) ==
  \A n \in 1 .. Len(results[s]) :
    /\ results[s][n].name = asked[s].images[n]
    /\ results[s][n].result = "success" /\ ~asked[s].dry => results[s][n].name \in images

ResponseOf(s) ==
  /\ results[s] \in Seq(Answers(s))
  /\ AnswersAreTrue(s)
  /\ pc[s] = "new" => results[s] = <<>>
  /\ pc[s] \in {"lookup", "fetch", "inspect"} => Len(results[s]) < Len(asked[s].images)
  /\ pc[s] = "inspect" => Current(s) \in images
  /\ pc[s] = "end" /\ results[s] # <<>> =>
       (exit[s] = 0 <=> \A n \in 1 .. Len(results[s]) : results[s][n].result = "success")

ResponseInv ==
  /\ DOMAIN results = Steps
  /\ \A s \in Kind("check") : ResponseOf(s)

\* No action takes an image out of the store.
LEMMA StoreGrows ==
  ASSUME Next
  PROVE  asked' = asked /\ images \subseteq images'
<1>1. ASSUME NEW s \in Steps, pullImageWithRetry(s) PROVE asked' = asked /\ images \subseteq images'
  BY <1>1 DEF pullImageWithRetry
<1>2. ASSUME NEW s \in Steps, FetchImage(s) PROVE asked' = asked /\ images \subseteq images'
  BY <1>2, Zenon DEF FetchImage
<1>3. ASSUME NEW s \in Steps, Install(s) \/ StopInstallation(s) \/ Check(s),
             ~pullImageWithRetry(s), ~FetchImage(s)
      PROVE  asked' = asked /\ images' = images
  BY ONLY <1>3, Zenon DEF Install, Check, ValidateInstall, LookForImage, RunInstaller, InstallReturns,
     StopInstallation, StartCheck, NextImage, LookUp, InspectImage, CheckReturns
<1>4. ASSUME InstallerExits PROVE asked' = asked /\ images' = images
  BY <1>4 DEF InstallerExits
<1> QED
  BY <1>1, <1>2, <1>3, <1>4 DEF Next

\* A step leaves the response of the others alone.
LEMMA ResponseFrame ==
  ASSUME NEW s \in Kind("check"), ResponseOf(s), asked' = asked, images \subseteq images',
         results'[s] = results[s], pc'[s] = pc[s], exit'[s] = exit[s]
  PROVE  ResponseOf(s)'
BY DEF ResponseOf, AnswersAreTrue, Answers, Current

\* An answer for the current image is added to the response, and the loop goes on.
LEMMA ResponseGrows ==
  ASSUME InstallInv, ResponseInv, NEW s \in Kind("check"), asked' = asked, images \subseteq images',
         Len(results[s]) < Len(asked[s].images),
         NEW result \in {"success", "failure"}, NEW measured \in BOOLEAN,
         Responds(s, result, measured),
         result = "success" /\ ~asked[s].dry => Current(s) \in images'
  PROVE  ResponseOf(s)'
<1> DEFINE answer == [name |-> Current(s), result |-> result, measured |-> measured]
<1>1. s \in Steps /\ s \in DOMAIN results /\ s \in DOMAIN pc
  BY DEF Kind, ResponseInv, InstallInv, Types
<1>2. results'[s] = Append(results[s], answer) /\ pc'[s] = "loop"
  BY <1>1 DEF Responds, Goto
<1>3. results[s] \in Seq(Answers(s)) /\ AnswersAreTrue(s)
  BY DEF ResponseInv, ResponseOf
<1>4. Len(asked[s].images) \in Nat
  BY <1>1, AskedAssumption DEF InstallInv, Types, Kind, Steps
<1>5. answer \in Answers(s)
  BY <1>3, <1>4 DEF Answers, Current
<1>6. /\ results'[s] \in Seq(Answers(s)) /\ Len(results'[s]) = Len(results[s]) + 1
      /\ results'[s][Len(results[s]) + 1] = answer
      /\ \A n \in 1 .. Len(results[s]) : results'[s][n] = results[s][n]
  BY ONLY <1>2, <1>3, <1>5
<1>7. Answers(s)' = Answers(s)
  BY DEF Answers
<1>8. AnswersAreTrue(s)'
  <2> SUFFICES ASSUME NEW n \in 1 .. Len(results'[s])
               PROVE  /\ results'[s][n].name = asked[s].images[n]
                      /\ results'[s][n].result = "success" /\ ~asked[s].dry
                           => results'[s][n].name \in images'
    BY DEF AnswersAreTrue
  <2>1. CASE n = Len(results[s]) + 1
    BY <1>6, <2>1 DEF Current
  <2>2. CASE n \in 1 .. Len(results[s])
    BY <1>3, <1>6, <2>2, Zenon DEF AnswersAreTrue
  <2> QED
    BY ONLY <1>3, <1>6, <2>1, <2>2
<1> QED
  BY <1>2, <1>6, <1>7, <1>8 DEF ResponseOf

\* Every action keeps every response true.
LEMMA ResponseActs ==
  ASSUME InstallInv, ResponseInv, NEW s \in Steps, Install(s) \/ StopInstallation(s) \/ Check(s)
  PROVE  ResponseInv'
<1>0. /\ asked' = asked /\ images \subseteq images' /\ Steps' = Steps /\ Kind("check")' = Kind("check")
      /\ DOMAIN results = Steps /\ DOMAIN pc = Steps /\ DOMAIN exit = Steps
      /\ \A t \in Kind("check") : t \in Steps /\ ResponseOf(t)
  BY StoreGrows DEF Next, Steps, Kind, ResponseInv, InstallInv, Types
<1>1. /\ \E where : pc' = [pc EXCEPT ![s] = where]
      /\ exit' = exit \/ \E code : exit' = [exit EXCEPT ![s] = code]
      /\ results' = results \/ \E list : results' = [results EXCEPT ![s] = list]
  BY ONLY Install(s) \/ StopInstallation(s) \/ Check(s), Zenon
     DEF Install, Check, ValidateInstall, LookForImage, pullImageWithRetry, RunInstaller, InstallReturns,
         StopInstallation, StartCheck, NextImage, LookUp, FetchImage, InspectImage, CheckReturns,
         Goto, Return, Responds, checkVars
<1>2. DOMAIN results' = Steps
  BY ONLY <1>0, <1>1
<1>3. \A t \in Kind("check") \ {s} : ResponseOf(t)'
  <2> TAKE t \in Kind("check") \ {s}
  <2>1. results'[t] = results[t] /\ pc'[t] = pc[t] /\ exit'[t] = exit[t]
    BY ONLY <1>0, <1>1, t \in Kind("check") \ {s}
  <2> QED
    BY ONLY <1>0, <2>1, t \in Kind("check"), ResponseFrame
<1>4. ASSUME s \in Kind("check") PROVE ResponseOf(s)'
  <2>0. /\ asked[s].kind = "check" /\ results[s] \in Seq(Answers(s)) /\ AnswersAreTrue(s)
        /\ pc[s] \notin InstallPlaces /\ Len(asked[s].images) \in Nat
    BY <1>0, <1>4, AskedAssumption
       DEF Kind, ResponseOf, InstallInv, Places, Types, Steps, InstallPlaces
  <2>1. ~Install(s) /\ ~StopInstallation(s)
    BY <2>0 DEF Install, StopInstallation, ValidateInstall, LookForImage, pullImageWithRetry,
       RunInstaller, InstallReturns, InstallPlaces
  <2>2. ASSUME results' = results, pc'[s] \in {"loop", "lookup", "fetch"},
               pc'[s] \in {"lookup", "fetch"} => Len(results[s]) < Len(asked[s].images)
        PROVE  ResponseOf(s)'
    BY ONLY <1>0, <2>0, <2>2, SMTT(20) DEF ResponseOf, AnswersAreTrue, Answers
  <2>3. CASE StartCheck(s)
    <3>1. results[s] = <<>> /\ results' = results /\ pc'[s] \in {"loop", "end"}
      BY <1>0, <1>4, <2>3 DEF StartCheck, ResponseOf, Goto, Return, checkVars
    <3> QED
      BY <1>0, <2>0, <2>2, <3>1 DEF ResponseOf, AnswersAreTrue, Answers
  <2>4. CASE NextImage(s)
    <3>1. Len(results[s]) < Len(asked[s].images)
      BY <2>4 DEF NextImage
    <3>2. CASE asked[s].dry
      BY <1>0, <1>4, <2>4, <3>1, <3>2, ResponseGrows, Zenon DEF NextImage
    <3>3. CASE ~asked[s].dry
      BY <1>0, <2>2, <2>4, <3>1, <3>3, Zenon DEF NextImage, Goto
    <3> QED
      BY <3>2, <3>3
  <2>5. CASE LookUp(s)
    <3>1. Len(results[s]) < Len(asked[s].images)
      BY <1>0, <1>4, <2>5 DEF LookUp, ResponseOf
    <3>2. CASE budget[s] <= 0
      BY <1>0, <1>4, <2>5, <3>1, <3>2, ResponseGrows, Zenon DEF LookUp
    <3>3. CASE ~(budget[s] <= 0)
      BY <1>0, <2>2, <2>5, <3>1, <3>3 DEF LookUp, Goto
    <3> QED
      BY <3>2, <3>3
  <2>6. CASE FetchImage(s)
    <3>1. Len(results[s]) < Len(asked[s].images)
      BY <1>0, <1>4, <2>6 DEF FetchImage, ResponseOf
    <3>2. CASE Responds(s, "failure", FALSE)
      BY <1>0, <1>4, <3>1, <3>2, ResponseGrows, Zenon
    <3>3. CASE Responds(s, "success", FALSE) /\ images' = images \cup {Current(s)}
      BY <1>0, <1>4, <3>1, <3>3, ResponseGrows, Zenon
    <3>4. CASE Goto(s, "inspect") /\ results' = results /\ images' = images \cup {Current(s)}
      <4>1. pc'[s] = "inspect" /\ Current(s)' = Current(s) /\ Current(s) \in images'
        BY <1>0, <3>4 DEF Goto, Current
      <4> QED
        BY ONLY <1>0, <2>0, <3>1, <3>4, <4>1 DEF ResponseOf, AnswersAreTrue, Answers
    <3> QED
      BY <2>6, <3>2, <3>3, <3>4, Zenon DEF FetchImage
  <2>7. CASE InspectImage(s)
    <3>1. Len(results[s]) < Len(asked[s].images) /\ Current(s) \in images
      BY <1>0, <1>4, <2>7 DEF InspectImage, ResponseOf
    <3> QED
      BY <1>0, <1>4, <2>7, <3>1, ResponseGrows, Zenon DEF InspectImage
  <2>8. CASE CheckReturns(s)
    <3>1. /\ results' = results /\ pc'[s] = "end"
          /\ exit'[s] = IF \E n \in DOMAIN results[s] : results[s][n].result # "success"
                        THEN failedToPullImageExitCode ELSE 0
      BY <1>0, <2>8 DEF CheckReturns, Return, checkVars
    <3>2. exit'[s] = 0 <=> \A n \in 1 .. Len(results[s]) : results[s][n].result = "success"
      BY <2>0, <3>1 DEF failedToPullImageExitCode
    <3> QED
      BY ONLY <1>0, <2>0, <3>1, <3>2 DEF ResponseOf, AnswersAreTrue, Answers
  <2> QED
    BY <2>1, <2>3, <2>4, <2>5, <2>6, <2>7, <2>8 DEF Check
<1> QED
  BY ONLY <1>0, <1>2, <1>3, <1>4 DEF ResponseInv

\* A response of container_image_availability names the images of its request in
\* their order, calls only an image available that is in the store, and its exit code
\* says whether all are: whatever else pulls images meanwhile, and wherever the time
\* runs out.
THEOREM ResponseSafety == Spec => []ResponseIsTrue
<1>1. Init => ResponseInv
  <2> SUFFICES ASSUME Init, NEW s \in Kind("check") PROVE ResponseOf(s)
    BY DEF Init, ResponseInv, Steps
  <2>1. results[s] = <<>> /\ pc[s] = "new"
    BY DEF Init, Kind
  <2> QED
    BY <2>1 DEF ResponseOf, AnswersAreTrue
<1>2. InstallInv /\ ResponseInv /\ [Next]_vars => ResponseInv'
  <2> SUFFICES ASSUME InstallInv, ResponseInv, [Next]_vars PROVE ResponseInv'
    OBVIOUS
  <2>1. CASE \E s \in Steps : Install(s) \/ StopInstallation(s) \/ Check(s)
    BY <2>1, ResponseActs
  <2>2. CASE InstallerExits \/ UNCHANGED vars
    <3>1. UNCHANGED <<asked, pc, exit, images, results>>
      BY <2>2 DEF InstallerExits, vars, checkVars
    <3>2. \A s \in Kind("check") : ResponseOf(s)'
      BY <3>1, ResponseFrame DEF ResponseInv
    <3> QED
      BY <3>1, <3>2 DEF ResponseInv, Steps, Kind
  <2> QED
    BY <2>1, <2>2 DEF Next
<1>3. ResponseInv => ResponseIsTrue
  <2> SUFFICES ASSUME ResponseInv, NEW s \in Kind("check")
               PROVE  /\ AnswersAreTrue(s) /\ DOMAIN results[s] = 1 .. Len(results[s])
                      /\ pc[s] = "end" /\ results[s] # <<>> =>
                           (exit[s] = 0 <=> \A n \in DOMAIN results[s] : results[s][n].result = "success")
    BY DEF ResponseIsTrue, AnswersAreTrue
  <2> QED
    BY DEF ResponseInv, ResponseOf
<1> QED
  BY <1>1, <1>2, <1>3, InstallInvariance, PTL DEF Spec
-----------------------------------------------------------------------------
(***************************************************************************)
(* The command line of the installer: every part of it is well formed, so  *)
(* is what they are put together to, and Go's flag package reads a well    *)
(* formed command line to its end.                                         *)
(***************************************************************************)
ValueFlags ==
  {"role", "host-id", "control-plane-count", "mco-image", "must-gather-image", "openshift-version",
   "format-disk", "cacert", "installer-args", "http-proxy", "https-proxy", "no-proxy", "service-ips",
   "coreos-image"}
Arguments == [flag : BOOLEAN, of : ValueFlags \cup BooleanFlags]

\* A flag that the next argument is taken for the value of.
Expects(arg) == arg.flag /\ arg.of \notin BooleanFlags

\* Values follow the flags that take one, and nothing else does.
WellFormed(args) ==
  /\ args \in Seq(Arguments)
  /\ args # <<>> => args[1].flag /\ ~Expects(args[Len(args)])
  /\ \A n \in 1 .. Len(args) : n + 1 \in 1 .. Len(args) => (Expects(args[n]) <=> ~args[n + 1].flag)

FlagsOf(args) == {args[n].of : n \in {m \in DOMAIN args : args[m].flag}}

\* The parts a command line is made of.
LEMMA Parts ==
  /\ WellFormed(<<>>) /\ FlagsOf(<<>>) = {}
  /\ \A name \in ValueFlags : WellFormed(Valued(name)) /\ FlagsOf(Valued(name)) = {name}
  /\ \A name \in BooleanFlags : WellFormed(<<Flag(name)>>) /\ FlagsOf(<<Flag(name)>>) = {name}
<1>1. WellFormed(<<>>) /\ FlagsOf(<<>>) = {}
  BY DEF WellFormed, FlagsOf
<1>2. ASSUME NEW name \in ValueFlags
      PROVE  WellFormed(Valued(name)) /\ FlagsOf(Valued(name)) = {name}
  <2>0. name \notin BooleanFlags
    BY DEF ValueFlags, BooleanFlags
  <2>1. Flag(name) \in Arguments /\ Value(name) \in Arguments
    BY DEF Flag, Value, Arguments
  <2>2. /\ Flag(name).flag = TRUE /\ Flag(name).of = name /\ Expects(Flag(name))
        /\ Value(name).flag = FALSE /\ ~Expects(Value(name))
    BY <2>0 DEF Flag, Value, Expects
  <2> DEFINE s == Valued(name)
  <2>3. /\ s \in Seq(Arguments) /\ Len(s) = 2 /\ DOMAIN s = {1, 2} /\ s # <<>>
        /\ s[1] = Flag(name) /\ s[2] = Value(name)
    BY <2>1 DEF Valued
  <2> HIDE DEF s
  <2>4. WellFormed(s)
    BY ONLY <2>2, <2>3 DEF WellFormed
  <2>5. FlagsOf(s) = {name}
    BY ONLY <2>2, <2>3 DEF FlagsOf
  <2> QED
    BY <2>4, <2>5 DEF s
<1>3. ASSUME NEW name \in BooleanFlags
      PROVE  WellFormed(<<Flag(name)>>) /\ FlagsOf(<<Flag(name)>>) = {name}
  <2>1. Flag(name) \in Arguments /\ Flag(name).flag = TRUE /\ Flag(name).of = name /\ ~Expects(Flag(name))
    BY DEF Flag, Arguments, Expects
  <2> DEFINE s == <<Flag(name)>>
  <2>2. s \in Seq(Arguments) /\ Len(s) = 1 /\ DOMAIN s = {1} /\ s[1] = Flag(name)
    BY <2>1
  <2> HIDE DEF s
  <2>3. WellFormed(s)
    BY ONLY <2>1, <2>2 DEF WellFormed
  <2>4. FlagsOf(s) = {name}
    BY ONLY <2>1, <2>2 DEF FlagsOf
  <2> QED
    BY <2>3, <2>4 DEF s
<1> QED
  BY <1>1, <1>2, <1>3

\* Well formed command lines may be put after each other.
LEMMA ConcatParts ==
  ASSUME NEW a, NEW b, WellFormed(a), WellFormed(b), NEW t, t = a \o b
  PROVE  WellFormed(t) /\ FlagsOf(t) = FlagsOf(a) \cup FlagsOf(b)
<1>1. a \in Seq(Arguments) /\ b \in Seq(Arguments)
  BY DEF WellFormed
<1>2. t \in Seq(Arguments) /\ Joins(t, a, b)
  BY ONLY <1>1, ConcatElements, t = a \o b, Zenon
<1>3. /\ Len(a) \in Nat /\ DOMAIN a = 1 .. Len(a) /\ Len(b) \in Nat /\ DOMAIN b = 1 .. Len(b)
      /\ Len(t) \in Nat /\ DOMAIN t = 1 .. Len(t)
      /\ (a # <<>> <=> Len(a) # 0) /\ (b # <<>> <=> Len(b) # 0) /\ (t # <<>> <=> Len(t) # 0)
  BY <1>1, <1>2
<1>4. FlagsOf(t) = FlagsOf(a) \cup FlagsOf(b)
  <2>1. \A n \in DOMAIN a : n \in DOMAIN t /\ t[n] = a[n]
    BY ONLY <1>2, <1>3 DEF Joins
  <2>2. \A n \in DOMAIN b : \E m \in DOMAIN t : t[m] = b[n]
    BY ONLY <1>2, <1>3 DEF Joins
  <2>3. \A m \in DOMAIN t : (\E n \in DOMAIN a : t[m] = a[n]) \/ (\E n \in DOMAIN b : t[m] = b[n])
    BY ONLY <1>2, <1>3, Zenon DEF Joins
  <2>4. FlagsOf(a) \cup FlagsOf(b) \subseteq FlagsOf(t)
    BY ONLY <2>1, <2>2 DEF FlagsOf
  <2>5. FlagsOf(t) \subseteq FlagsOf(a) \cup FlagsOf(b)
    BY ONLY <2>3 DEF FlagsOf
  <2> QED
    BY ONLY <2>4, <2>5
<1>5. ASSUME NEW n \in 1 .. Len(t), n + 1 \in 1 .. Len(t)
      PROVE  Expects(t[n]) <=> ~t[n + 1].flag
  <2>1. CASE n + 1 \in 1 .. Len(a)
    <3>1. n \in 1 .. Len(a)
      BY ONLY <1>3, <2>1, n \in 1 .. Len(t)
    <3>2. t[n] = a[n] /\ t[n + 1] = a[n + 1]
      BY ONLY <1>2, <2>1, <3>1 DEF Joins
    <3> QED
      BY ONLY <2>1, <3>1, <3>2, WellFormed(a) DEF WellFormed
  <2>2. CASE n = Len(a)
    <3>1. n \in 1 .. Len(a) /\ n + 1 \notin 1 .. Len(a) /\ (n + 1) - Len(a) = 1
      BY ONLY <1>3, <2>2, n \in 1 .. Len(t)
    <3>2. t[n] = a[Len(a)] /\ t[n + 1] = b[1] /\ 1 \in 1 .. Len(b)
      BY ONLY <1>2, <1>5, <2>2, <3>1 DEF Joins
    <3>3. Len(a) # 0 /\ Len(b) # 0
      BY ONLY <1>3, <3>1, <3>2
    <3> QED
      BY ONLY <1>3, <3>2, <3>3, WellFormed(a), WellFormed(b) DEF WellFormed
  <2>3. CASE n + 1 \notin 1 .. Len(a) /\ n # Len(a)
    <3>1. n \notin 1 .. Len(a) /\ (n + 1) - Len(a) = (n - Len(a)) + 1
      <4>1. n \in Nat /\ Len(a) \in Nat /\ n >= 1
        BY ONLY <1>3, n \in 1 .. Len(t)
      <4> QED
        BY ONLY <2>3, <4>1
    <3>2. /\ t[n] = b[n - Len(a)] /\ n - Len(a) \in 1 .. Len(b)
          /\ t[n + 1] = b[(n - Len(a)) + 1] /\ (n - Len(a)) + 1 \in 1 .. Len(b)
      BY ONLY <1>2, <1>5, <2>3, <3>1, n \in 1 .. Len(t) DEF Joins
    <3> QED
      BY ONLY <3>2, WellFormed(b) DEF WellFormed
  <2> QED
    BY <2>1, <2>2, <2>3, Zenon
<1>6. ASSUME t # <<>> PROVE t[1].flag /\ ~Expects(t[Len(t)])
  <2>1. Len(t) = Len(a) + Len(b) /\ Len(t) # 0
    BY ONLY <1>2, <1>3, <1>6 DEF Joins
  <2>2. t[1].flag
    <3>1. CASE Len(a) # 0
      <4>1. 1 \in 1 .. Len(a)
        BY ONLY <1>3, <3>1
      <4> QED
        BY ONLY <1>2, <1>3, <3>1, <4>1, WellFormed(a) DEF WellFormed, Joins
    <3>2. CASE Len(a) = 0
      <4>1. 1 \in 1 .. Len(t) /\ 1 \notin 1 .. Len(a) /\ 1 - Len(a) = 1 /\ Len(b) # 0
        BY ONLY <1>3, <2>1, <3>2
      <4>2. t[1] = b[1]
        BY ONLY <1>2, <4>1 DEF Joins
      <4> QED
        BY ONLY <1>3, <4>1, <4>2, WellFormed(b) DEF WellFormed
    <3> QED
      BY <3>1, <3>2, Zenon
  <2>3. ~Expects(t[Len(t)])
    <3>1. CASE Len(b) # 0
      <4>1. Len(t) \in 1 .. Len(t) /\ Len(t) \notin 1 .. Len(a) /\ Len(t) - Len(a) = Len(b)
        BY ONLY <1>3, <2>1, <3>1
      <4>2. t[Len(t)] = b[Len(b)]
        BY ONLY <1>2, <4>1 DEF Joins
      <4> QED
        BY ONLY <1>3, <3>1, <4>2, WellFormed(b) DEF WellFormed
    <3>2. CASE Len(b) = 0
      <4>1. Len(t) = Len(a) /\ Len(a) \in 1 .. Len(a) /\ Len(a) # 0
        BY ONLY <1>3, <2>1, <3>2
      <4>2. t[Len(t)] = a[Len(a)]
        BY ONLY <1>2, <4>1 DEF Joins
      <4> QED
        BY ONLY <1>3, <4>1, <4>2, WellFormed(a) DEF WellFormed
    <3> QED
      BY <3>1, <3>2, Zenon
  <2> QED
    BY <2>2, <2>3, Zenon
<1>7. WellFormed(t)
  BY ONLY <1>2, <1>5, <1>6 DEF WellFormed
<1> QED
  BY ONLY <1>4, <1>7

\* A list of parts, each of which is left out or well formed.
LEMMA JoinedParts ==
  ASSUME NEW parts, Len(parts) \in Nat, DOMAIN parts = 1 .. Len(parts), parts \in Seq(Seq(Arguments)),
         \A i \in 1 .. Len(parts) : WellFormed(parts[i])
  PROVE  /\ WellFormed(Joined(parts))
         /\ FlagsOf(Joined(parts)) = UNION {FlagsOf(parts[i]) : i \in 1 .. Len(parts)}
<1> DEFINE N == Len(parts)
<1>1. PICK h : Concats(h, parts, Arguments) /\ Joined(parts) = h[N]
  BY JoinedUnfolds
<1>2. h[0] = <<>> /\ \A i \in 1 .. N : h[i] = h[i - 1] \o parts[i]
  BY ONLY <1>1, Zenon DEF Concats
<1> DEFINE Flags(n) == UNION {FlagsOf(parts[i]) : i \in 1 .. n}
           Holds(n) == WellFormed(h[n]) /\ FlagsOf(h[n]) = Flags(n)
           P == {n \in Nat : n <= N => Holds(n)}
<1>3. 0 \in P
  BY <1>2, Parts
<1>4. ASSUME NEW n \in Nat, n \in P, n + 1 <= N PROVE Holds(n + 1)
  <2>1. n <= N /\ n + 1 \in 1 .. N /\ (n + 1) - 1 = n
    BY <1>4
  <2>2. Holds(n) /\ WellFormed(parts[n + 1])
    BY <1>4, <2>1
  <2>3. h[n + 1] = h[n] \o parts[n + 1]
    BY ONLY <1>2, <2>1, Zenon
  <2>4. WellFormed(h[n + 1]) /\ FlagsOf(h[n + 1]) = FlagsOf(h[n]) \cup FlagsOf(parts[n + 1])
    BY ONLY <2>2, <2>3, ConcatParts, Zenon
  <2>5. 1 .. n + 1 = (1 .. n) \cup {n + 1}
    BY ONLY n \in Nat
  <2>6. Flags(n + 1) = Flags(n) \cup FlagsOf(parts[n + 1])
    BY ONLY <2>5
  <2> QED
    BY ONLY <2>2, <2>4, <2>6
<1> HIDE DEF Holds
<1>5. \A n \in Nat : n \in P => n + 1 \in P
  BY ONLY <1>4, N \in Nat
<1>6. N \in P
  <2> HIDE DEF P
  <2> QED
    BY ONLY <1>3, <1>5, SetInduction, N \in Nat
<1>7. Holds(N)
  BY ONLY <1>6, N \in Nat
<1> QED
  BY ONLY <1>1, <1>7 DEF Holds

\* What Parsed has read after each argument.
Scans == [state : {"flag", "value", "stopped"}, seen : SUBSET (ValueFlags \cup BooleanFlags)]
Reads(g, args) ==
  /\ g \in [0 .. Len(args) -> Scans]
  /\ g[0] = [state |-> "flag", seen |-> {}]
  /\ \A i \in 1 .. Len(args) : g[i] = Scan(g[i - 1], args[i])

\* Parsed is what its recursion computes, argument by argument.
LEMMA ParsedUnfolds ==
  ASSUME NEW args \in Seq(Arguments)
  PROVE  \E g : Reads(g, args) /\ Parsed(args) = g[Len(args)]
<1> DEFINE N == Len(args)
           first == [state |-> "flag", seen |-> {}]
           body(f, i) == IF i = 0 THEN first ELSE Scan(f[i - 1], args[i])
           next == [i \in 1 .. N |-> [x \in Scans |-> Scan(x, args[i])]]
           parse == CHOOSE f : f = [i \in 0 .. N |-> body(f, i)]
<1>1. N \in Nat /\ \A i \in 1 .. N : args[i] \in Arguments
  OBVIOUS
<1>2. first \in Scans
  BY DEF Scans
<1>3. \A x \in Scans, arg \in Arguments : Scan(x, arg) \in Scans
  BY DEF Scans, Arguments, Scan
<1>4. Parsed(args) = parse[N]
  BY DEF Parsed
<1> HIDE DEF first, N
<1>5. /\ next \in [1 .. N -> [Scans -> Scans]]
      /\ \A i \in 1 .. N : \A x \in Scans : next[i][x] = Scan(x, args[i])
  BY ONLY <1>1, <1>3
<1> HIDE DEF next
<1>6. PICK g : Iterates(g, N, Scans, first, next)
  BY ONLY <1>1, <1>2, <1>5, RecursiveFunction
<1>7. g \in [0 .. N -> Scans] /\ g[0] = first /\ \A i \in 1 .. N : g[i] = next[i][g[i - 1]]
  BY ONLY <1>6 DEF Iterates
<1>8. \A i \in 0 .. N : g[i] = body(g, i)
  <2> TAKE i \in 0 .. N
  <2>1. CASE i = 0
    BY ONLY <1>7, <2>1
  <2>2. CASE i # 0
    <3>1. i \in 1 .. N /\ i - 1 \in 0 .. N
      BY ONLY <1>1, <2>2, i \in 0 .. N
    <3> QED
      BY ONLY <1>5, <1>7, <2>2, <3>1
  <2> QED
    BY <2>1, <2>2
<1> HIDE DEF body
<1>9. g = [i \in 0 .. N |-> body(g, i)]
  BY ONLY <1>7, <1>8
<1>10. parse = [i \in 0 .. N |-> body(parse, i)]
  BY ONLY <1>9, Zenon
<1> HIDE DEF parse
<1>11. parse[0] = first /\ \A i \in 1 .. N : parse[i] = Scan(parse[i - 1], args[i])
  <2>1. 0 \in 0 .. N /\ \A i \in 1 .. N : i \in 0 .. N /\ i # 0
    BY ONLY <1>1
  <2>2. \A i \in 0 .. N : parse[i] = body(parse, i)
    BY ONLY <1>10, Zenon
  <2> QED
    BY ONLY <2>1, <2>2 DEF body
<1>12. \A i \in 0 .. N : parse[i] \in Scans
  <2> DEFINE P == {n \in Nat : n <= N => parse[n] \in Scans}
  <2>1. 0 \in P
    BY ONLY <1>2, <1>11
  <2>2. ASSUME NEW n \in Nat, n \in P, n + 1 <= N PROVE parse[n + 1] \in Scans
    <3>1. n <= N /\ n + 1 \in 1 .. N /\ (n + 1) - 1 = n
      BY ONLY <1>1, <2>2
    <3>2. parse[n] \in Scans /\ args[n + 1] \in Arguments
      BY ONLY <1>1, <2>2, <3>1
    <3>3. parse[n + 1] = Scan(parse[n], args[n + 1])
      BY ONLY <1>11, <3>1
    <3> QED
      BY ONLY <1>3, <3>2, <3>3
  <2>3. \A n \in Nat : n \in P => n + 1 \in P
    BY ONLY <1>1, <2>2
  <2>4. Nat \subseteq P
    <3> HIDE DEF P
    <3> QED
      BY ONLY <2>1, <2>3, SetInduction
  <2> QED
    BY ONLY <1>1, <2>4
<1>13. parse \in [0 .. N -> Scans]
  BY ONLY <1>10, <1>12
<1> QED
  BY <1>4, <1>11, <1>13 DEF Reads, N, first

\* A well formed command line is read to its end, and every flag of it is seen.
LEMMA ParsedFlags ==
  ASSUME NEW args, WellFormed(args)
  PROVE  Parsed(args).state = "flag" /\ Parsed(args).seen = FlagsOf(args)
<1> DEFINE N == Len(args)
<1>1. /\ args \in Seq(Arguments) /\ N \in Nat /\ DOMAIN args = 1 .. N /\ (args # <<>> <=> N # 0)
      /\ \A i \in 1 .. N : args[i] \in Arguments
  BY DEF WellFormed
<1>2. PICK g : Reads(g, args) /\ Parsed(args) = g[N]
  BY ONLY <1>1, ParsedUnfolds
<1>3. /\ \A i \in 0 .. N : g[i] \in Scans
      /\ g[0].state = "flag" /\ g[0].seen = {}
      /\ \A i \in 1 .. N : g[i] = Scan(g[i - 1], args[i])
  BY ONLY <1>2 DEF Reads
<1>4. /\ N # 0 => args[1].flag /\ ~Expects(args[N])
      /\ \A n \in 1 .. N : n + 1 \in 1 .. N => (Expects(args[n]) <=> ~args[n + 1].flag)
  BY <1>1 DEF WellFormed
<1> DEFINE Flags(n) == {args[m].of : m \in {k \in 1 .. n : args[k].flag}}
           Pending(n) == n # 0 /\ Expects(args[n])
           Holds(n) == /\ g[n].state = IF Pending(n) THEN "value" ELSE "flag"
                       /\ g[n].seen = Flags(n)
           P == {n \in Nat : n <= N => Holds(n)}
<1>5. 0 \in P
  BY <1>3
<1>6. ASSUME NEW n \in Nat, n \in P, n + 1 <= N PROVE Holds(n + 1)
  <2>1. n <= N /\ n + 1 \in 1 .. N /\ (n + 1) - 1 = n /\ n \in 0 .. N /\ n + 1 # 0
    BY ONLY <1>1, <1>6
  <2>2. Holds(n)
    BY ONLY <1>6, <2>1
  <2> DEFINE arg == args[n + 1]
  <2>3. g[n] \in Scans /\ g[n + 1] = Scan(g[n], arg) /\ arg \in Arguments
    BY ONLY <1>1, <1>3, <2>1
  <2>4. Pending(n) <=> ~arg.flag
    <3>1. CASE n = 0
      BY ONLY <1>1, <1>4, <2>1, <3>1
    <3>2. CASE n # 0
      <4>1. n \in 1 .. N
        BY ONLY <2>1, <3>2, n \in Nat
      <4> QED
        BY ONLY <1>4, <2>1, <3>2, <4>1
    <3> QED
      BY <3>1, <3>2
  <2>5. 1 .. n + 1 = (1 .. n) \cup {n + 1}
    BY ONLY n \in Nat
  <2>6. Flags(n + 1) = Flags(n) \cup (IF arg.flag THEN {arg.of} ELSE {})
    BY ONLY <2>5
  <2>7. Pending(n + 1) <=> Expects(arg)
    BY ONLY <2>1
  <2>8. arg.flag \in BOOLEAN
    BY ONLY <2>3 DEF Arguments
  <2> HIDE DEF arg, Flags, Pending
  <2>9. CASE Pending(n)
    <3>1. g[n + 1] = [g[n] EXCEPT !.state = "flag"]
      BY ONLY <2>2, <2>3, <2>9 DEF Scan
    <3>2. g[n + 1].state = "flag" /\ g[n + 1].seen = g[n].seen
      BY ONLY <2>3, <3>1 DEF Scans
    <3>3. ~Expects(arg) /\ Flags(n + 1) = Flags(n)
      BY ONLY <2>4, <2>6, <2>9, Zenon DEF Expects
    <3> QED
      BY ONLY <2>2, <2>7, <3>2, <3>3
  <2>10. CASE ~Pending(n)
    <3>1. g[n + 1] = [state |-> IF arg.of \in BooleanFlags THEN "flag" ELSE "value",
                      seen |-> g[n].seen \cup {arg.of}]
      BY ONLY <2>2, <2>3, <2>4, <2>10 DEF Scan
    <3>2. arg.flag /\ Flags(n + 1) = Flags(n) \cup {arg.of}
      BY ONLY <2>4, <2>6, <2>10
    <3>3. Expects(arg) <=> arg.of \notin BooleanFlags
      BY ONLY <3>2 DEF Expects
    <3> QED
      BY ONLY <2>2, <2>7, <3>1, <3>2, <3>3
  <2> QED
    BY <2>9, <2>10
<1> HIDE DEF Holds
<1>7. \A n \in Nat : n \in P => n + 1 \in P
  BY ONLY <1>1, <1>6
<1>8. N \in P
  <2> HIDE DEF P
  <2> QED
    BY ONLY <1>1, <1>5, <1>7, SetInduction
<1>9. Holds(N)
  BY ONLY <1>1, <1>8
<1>10. ~Pending(N) /\ Flags(N) = FlagsOf(args)
  BY ONLY <1>1, <1>4 DEF FlagsOf
<1> QED
  BY ONLY <1>2, <1>9, <1>10 DEF Holds

\* A part that is left out or not.
LEMMA GivenPart ==
  ASSUME NEW cond, NEW args, WellFormed(args)
  PROVE  WellFormed(Given(cond, args)) /\ FlagsOf(Given(cond, args)) \subseteq FlagsOf(args)
BY Parts DEF Given

\* The proxies of a request, and the list of exceptions only beside one of them.
LEMMA ProxyPart ==
  ASSUME NEW p
  PROVE  /\ WellFormed(getProxyArguments(p))
         /\ FlagsOf(getProxyArguments(p)) \subseteq {"http-proxy", "https-proxy", "no-proxy"}
         /\ "no-proxy" \in FlagsOf(getProxyArguments(p)) =>
              FlagsOf(getProxyArguments(p)) \cap {"http-proxy", "https-proxy"} # {}
<1> DEFINE a == Given(p.http # "", Valued("http-proxy"))
           b == Given(p.https # "", Valued("https-proxy"))
           c == Given(p.no # "", Valued("no-proxy"))
<1>1. /\ "http-proxy" \in ValueFlags /\ "https-proxy" \in ValueFlags /\ "no-proxy" \in ValueFlags
  BY DEF ValueFlags
<1>2. WellFormed(a) /\ FlagsOf(a) = IF p.http # "" THEN {"http-proxy"} ELSE {}
  BY <1>1, Parts DEF Given
<1>3. WellFormed(b) /\ FlagsOf(b) = IF p.https # "" THEN {"https-proxy"} ELSE {}
  BY <1>1, Parts DEF Given
<1>4. WellFormed(c) /\ FlagsOf(c) \subseteq {"no-proxy"}
  BY <1>1, Parts DEF Given
<1>5. getProxyArguments(p) = IF p.http # "" \/ p.https # "" THEN a \o b \o c ELSE <<>>
  BY DEF getProxyArguments, Given
<1> HIDE DEF a, b, c
<1>6. WellFormed(a \o b) /\ FlagsOf(a \o b) = FlagsOf(a) \cup FlagsOf(b)
  BY ONLY <1>2, <1>3, ConcatParts
<1>7. WellFormed(a \o b \o c) /\ FlagsOf(a \o b \o c) = FlagsOf(a) \cup FlagsOf(b) \cup FlagsOf(c)
  <2> DEFINE d == a \o b
  <2>1. WellFormed(d)
    BY ONLY <1>6
  <2> HIDE DEF d
  <2>2. WellFormed(d \o c) /\ FlagsOf(d \o c) = FlagsOf(d) \cup FlagsOf(c)
    BY ONLY <1>4, <2>1, ConcatParts, Zenon
  <2> QED
    BY ONLY <1>6, <2>2 DEF d
<1>8. CASE p.http # "" \/ p.https # ""
  BY ONLY <1>2, <1>3, <1>4, <1>5, <1>7, <1>8
<1>9. CASE ~(p.http # "" \/ p.https # "")
  BY ONLY <1>5, <1>9, Parts
<1> QED
  BY ONLY <1>8, <1>9

\* The disks to format: one flag each.
LEMMA DisksPart ==
  ASSUME NEW disks \in Seq(Disks)
  PROVE  LET part == Joined([n \in DOMAIN disks |-> Valued("format-disk")])
         IN WellFormed(part) /\ FlagsOf(part) \subseteq {"format-disk"}
<1> DEFINE parts == [n \in DOMAIN disks |-> Valued("format-disk")]
<1>1. WellFormed(Valued("format-disk")) /\ FlagsOf(Valued("format-disk")) = {"format-disk"}
  BY Parts DEF ValueFlags
<1>2. Valued("format-disk") \in Seq(Arguments)
  BY ONLY <1>1 DEF WellFormed
<1>3. Len(disks) \in Nat /\ DOMAIN disks = 1 .. Len(disks)
  OBVIOUS
<1>4. /\ parts \in Seq(Seq(Arguments)) /\ Len(parts) = Len(disks) /\ DOMAIN parts = 1 .. Len(parts)
      /\ \A i \in 1 .. Len(parts) : parts[i] = Valued("format-disk")
  BY ONLY <1>2, <1>3
<1> HIDE DEF parts
<1>5. \A i \in 1 .. Len(parts) : WellFormed(parts[i])
  BY ONLY <1>1, <1>4
<1>6. /\ WellFormed(Joined(parts))
      /\ FlagsOf(Joined(parts)) = UNION {FlagsOf(parts[i]) : i \in 1 .. Len(parts)}
  BY ONLY <1>3, <1>4, <1>5, JoinedParts, Zenon
<1>7. FlagsOf(Joined(parts)) \subseteq {"format-disk"}
  BY ONLY <1>1, <1>4, <1>6
<1> QED
  BY <1>6, <1>7 DEF parts

\* The parts that have neither of the flags ArgumentsAreSeen names.
Other(part) == WellFormed(part) /\ "insecure" \notin FlagsOf(part) /\ "no-proxy" \notin FlagsOf(part)

\* A flag that is neither of the two, with a value or without, given or not.
LEMMA OtherParts ==
  /\ \A name \in ValueFlags \ {"no-proxy"} : Other(Valued(name)) /\ \A cond : Other(Given(cond, Valued(name)))
  /\ \A name \in BooleanFlags \ {"insecure"} : \A cond : Other(Given(cond, <<Flag(name)>>))
<1>1. ASSUME NEW name \in ValueFlags \ {"no-proxy"}, NEW cond
      PROVE  Other(Valued(name)) /\ Other(Given(cond, Valued(name)))
  <2>1. WellFormed(Valued(name)) /\ FlagsOf(Valued(name)) = {name} /\ name # "no-proxy" /\ name # "insecure"
    BY Parts DEF ValueFlags
  <2> QED
    BY ONLY <2>1, GivenPart DEF Other
<1>2. ASSUME NEW name \in BooleanFlags \ {"insecure"}, NEW cond
      PROVE  Other(Given(cond, <<Flag(name)>>))
  <2>1. WellFormed(<<Flag(name)>>) /\ FlagsOf(<<Flag(name)>>) = {name} /\ name # "no-proxy" /\ name # "insecure"
    BY Parts DEF BooleanFlags
  <2> QED
    BY ONLY <2>1, GivenPart DEF Other
<1> QED
  BY ONLY <1>1, <1>2

\* ArgumentsAreSeen for every request and every host.
LEMMA EveryFlagIsSeen ==
  ASSUME NEW r, NEW host, r.disksToFormat \in Seq(Disks), r.insecure \in BOOLEAN
  PROVE  ArgumentsAreSeen(r, host)
<1> DEFINE P == installerParts(r, host)
           insecure == insecureArg(r)
           proxies == getProxyArguments(r.proxy)
           disks == Joined([n \in DOMAIN r.disksToFormat |-> Valued("format-disk")])
           hasArgs == buildInstallerArgs(r, host) # <<>>
           hasCount == r.controlPlaneCount # 0
           hasImages == r.mustGather # {}
           hasVersion == r.version # ""
<1>1. P = <<Valued("role"), Valued("host-id"),
            Given(hasCount, Valued("control-plane-count")),
            Given(r.mcoImage, Valued("mco-image")),
            Given(hasImages, Valued("must-gather-image")),
            Given(hasVersion, Valued("openshift-version")),
            disks, insecure,
            Given(r.checkCvo, <<Flag("check-cluster-version")>>),
            Given(r.skipCleanup, <<Flag("skip-installation-disk-cleanup")>>),
            Given(r.caCert, Valued("cacert")),
            Given(hasArgs, Valued("installer-args")),
            Given(r.skipMcoReboot, <<Flag("enable-skip-mco-reboot")>>),
            Given(r.notifyReboots, <<Flag("notify-num-reboots")>>),
            proxies,
            Given(r.serviceIps, Valued("service-ips")),
            Given(r.coreosImage, Valued("coreos-image"))>>
  BY Zenon DEF installerParts
<1>2. WellFormed(insecure) /\ FlagsOf(insecure) = IF r.insecure THEN {"insecure"} ELSE {}
  BY Parts, Zenon DEF insecureArg, Given, BooleanFlags
<1>3. /\ WellFormed(proxies) /\ "insecure" \notin FlagsOf(proxies)
      /\ "no-proxy" \in FlagsOf(proxies) => FlagsOf(proxies) \cap {"http-proxy", "https-proxy"} # {}
  BY ProxyPart
<1>4. Other(disks)
  BY DisksPart DEF Other
<1> HIDE DEF insecure, proxies, disks, hasArgs, hasCount, hasImages, hasVersion, P
<1>5. /\ Len(P) = 17 /\ DOMAIN P = 1 .. 17 /\ P[8] = insecure /\ P[15] = proxies
      /\ P[1] = Valued("role") /\ P[2] = Valued("host-id")
      /\ P[3] = Given(hasCount, Valued("control-plane-count")) /\ P[4] = Given(r.mcoImage, Valued("mco-image"))
      /\ P[5] = Given(hasImages, Valued("must-gather-image"))
      /\ P[6] = Given(hasVersion, Valued("openshift-version")) /\ P[7] = disks
      /\ P[9] = Given(r.checkCvo, <<Flag("check-cluster-version")>>)
      /\ P[10] = Given(r.skipCleanup, <<Flag("skip-installation-disk-cleanup")>>)
      /\ P[11] = Given(r.caCert, Valued("cacert")) /\ P[12] = Given(hasArgs, Valued("installer-args"))
      /\ P[13] = Given(r.skipMcoReboot, <<Flag("enable-skip-mco-reboot")>>)
      /\ P[14] = Given(r.notifyReboots, <<Flag("notify-num-reboots")>>)
      /\ P[16] = Given(r.serviceIps, Valued("service-ips"))
      /\ P[17] = Given(r.coreosImage, Valued("coreos-image"))
  BY ONLY <1>1
<1>6. /\ Other(P[1]) /\ Other(P[2]) /\ Other(P[3]) /\ Other(P[4]) /\ Other(P[5]) /\ Other(P[6])
      /\ Other(P[11]) /\ Other(P[12]) /\ Other(P[16]) /\ Other(P[17])
  <2>1. {"role", "host-id", "control-plane-count", "mco-image", "must-gather-image", "openshift-version",
         "cacert", "installer-args", "service-ips", "coreos-image"} \subseteq ValueFlags \ {"no-proxy"}
    BY ONLY TRUE DEF ValueFlags
  <2> QED
    BY ONLY <1>5, <2>1, OtherParts
<1>7. Other(P[9]) /\ Other(P[10]) /\ Other(P[13]) /\ Other(P[14])
  <2>1. {"check-cluster-version", "skip-installation-disk-cleanup", "enable-skip-mco-reboot",
         "notify-num-reboots"} \subseteq BooleanFlags \ {"insecure"}
    BY ONLY TRUE DEF BooleanFlags
  <2> QED
    BY ONLY <1>5, <2>1, OtherParts
<1>8. \A i \in 1 .. 17 : i = 8 \/ i = 15 \/ Other(P[i])
  BY ONLY <1>4, <1>5, <1>6, <1>7
<1>9. \A i \in 1 .. Len(P) : WellFormed(P[i])
  BY ONLY <1>2, <1>3, <1>5, <1>8 DEF Other
<1>10. Len(P) \in Nat /\ DOMAIN P = 1 .. Len(P) /\ P \in Seq(Seq(Arguments))
  <2>1. \A i \in 1 .. 17 : P[i] \in Seq(Arguments)
    BY ONLY <1>5, <1>9, Zenon DEF WellFormed
  <2>2. P = [i \in 1 .. 17 |-> P[i]]
    BY ONLY <1>1, <1>5
  <2>3. P \in Seq(Seq(Arguments))
    BY ONLY <2>1, <2>2
  <2> QED
    BY ONLY <1>5, <2>3
<1> DEFINE args == Joined(P)
<1>11. WellFormed(args) /\ FlagsOf(args) = UNION {FlagsOf(P[i]) : i \in 1 .. Len(P)}
  BY ONLY <1>9, <1>10, JoinedParts, Zenon
<1>12. getFullInstallerCommand(r, host) = args
  BY DEF getFullInstallerCommand, P
<1> HIDE DEF args
<1>13. Parsed(args).state = "flag" /\ Parsed(args).seen = FlagsOf(args)
  BY ONLY <1>11, ParsedFlags
<1>14. \A x : x \in FlagsOf(args) <=> \E i \in 1 .. 17 : x \in FlagsOf(P[i])
  BY ONLY <1>5, <1>11
<1>15. "insecure" \in FlagsOf(args) <=> r.insecure
  <2>1. ASSUME NEW i \in 1 .. 17, i # 8 PROVE "insecure" \notin FlagsOf(P[i])
    BY ONLY <1>3, <1>5, <1>8, <2>1 DEF Other
  <2>2. "insecure" \in FlagsOf(P[8]) <=> r.insecure
    BY ONLY <1>2, <1>5
  <2>3. 8 \in 1 .. 17
    OBVIOUS
  <2> QED
    BY ONLY <1>14, <2>1, <2>2, <2>3, Zenon
<1>16. "no-proxy" \in FlagsOf(args) => FlagsOf(args) \cap {"http-proxy", "https-proxy"} # {}
  <2> SUFFICES ASSUME "no-proxy" \in FlagsOf(args)
               PROVE  \E x \in {"http-proxy", "https-proxy"} : x \in FlagsOf(args)
    OBVIOUS
  <2>1. "no-proxy" \notin FlagsOf(insecure)
    BY ONLY <1>2
  <2>2. "no-proxy" \in FlagsOf(proxies)
    BY <1>5, <1>8, <1>14, <2>1, Zenon DEF Other
  <2>3. PICK x \in {"http-proxy", "https-proxy"} : x \in FlagsOf(proxies)
    BY ONLY <1>3, <2>2
  <2> QED
    BY ONLY <1>5, <1>14, <2>3
<1> QED
  BY ONLY <1>12, <1>13, <1>15, <1>16 DEF ArgumentsAreSeen, FlagsOf
-----------------------------------------------------------------------------
\* A file system keeps the order of times, however coarse it is.
LEMMA KeptOrder ==
  ASSUME NEW g \in Nat \ {0}, NEW s \in Nat, NEW t \in Nat
  PROVE  /\ Kept(s, g) \in Nat
         /\ s <= t => Kept(s, g) <= Kept(t, g)
         /\ g = 1 => Kept(s, g) = s
<1>1. /\ s = g * (s \div g) + (s % g) /\ s % g \in 0 .. g - 1 /\ s \div g \in Int
      /\ t = g * (t \div g) + (t % g) /\ t % g \in 0 .. g - 1 /\ t \div g \in Int
  OBVIOUS
<1> DEFINE a == s \div g
           b == t \div g
<1>2. Kept(s, g) = g * a /\ Kept(t, g) = g * b /\ a \in Int /\ b \in Int
  BY <1>1 DEF Kept
<1>3. a \in Nat
  BY <1>1
<1> HIDE DEF a, b
<1>4. g * a \in Nat
  BY ONLY <1>3, g \in Nat \ {0}
<1>5. ASSUME s <= t PROVE g * a <= g * b
  <2>1. a <= b
    <3>0. SUFFICES ASSUME b + 1 <= a PROVE FALSE
      BY <1>2
    <3>1. g * (b + 1) <= g * a
      BY ONLY <1>2, <3>0, g \in Nat \ {0}
    <3>2. g * (b + 1) = g * b + g
      BY ONLY <1>2, g \in Nat \ {0}
    <3>3. t < g * b + g /\ g * a <= s
      BY ONLY <1>1, s \in Nat, t \in Nat, g \in Nat \ {0} DEF a, b
    <3>4. g * a \in Int /\ g * b \in Int
      BY ONLY <1>2, g \in Nat \ {0}
    <3> QED
      BY ONLY <1>5, <3>1, <3>2, <3>3, <3>4, s \in Nat, t \in Nat, g \in Nat \ {0}
  <2> QED
    BY ONLY <1>2, <2>1, g \in Nat \ {0}
<1>6. g = 1 => Kept(s, g) = s
  BY ONLY <1>1, s \in Nat DEF Kept
<1> QED
  BY ONLY <1>2, <1>4, <1>5, <1>6

\* An argument that is appended is there, and so are the others.
LEMMA AppendedArgument ==
  ASSUME NEW S, NEW s \in Seq(S), NEW x
  PROVE  Range(Append(s, x)) = Range(s) \cup {x}
<1> DEFINE T == S \cup {x}
           t == Append(s, x)
<1>1. s \in Seq(T) /\ x \in T
  OBVIOUS
<1> HIDE DEF T
<1>2. /\ Len(s) \in Nat /\ DOMAIN s = 1 .. Len(s) /\ DOMAIN t = 1 .. Len(s) + 1
      /\ t[Len(s) + 1] = x /\ \A n \in 1 .. Len(s) : t[n] = s[n]
  BY ONLY <1>1
<1> HIDE DEF t
<1>3. DOMAIN t = DOMAIN s \cup {Len(s) + 1}
  BY ONLY <1>2
<1>4. Range(t) = Range(s) \cup {x}
  BY ONLY <1>2, <1>3 DEF Range
<1> QED
  BY ONLY <1>4 DEF t

\* ConsoleNetworkIsCopied for every request, every host and every granularity.
LEMMA NetworkIsCopied ==
  ASSUME NEW r, NEW host, NEW S, r.installerArgs \in Seq(S), host.tuiStart \in Nat,
         host.granularity \in Nat \ {0}, \A f \in host.files : f.written \in Nat
  PROVE  ConsoleNetworkIsCopied(r, host)
<1> DEFINE start == host.tuiStart
           g == host.granularity
           usable(f) == ~f.dir /\ f.readable /\ f.connection
           session == host.tuiLog /\ host.birthTimes
           byUser == \E f \in host.files : usable(f) /\ f.written >= start
           args == r.installerArgs
           given == "copy-network" \in Range(args)
           copied == "copy-network" \in Range(buildInstallerArgs(r, host))
<1>1. copied <=> given \/ hasManualNetworkConfig(host)
  <2>1. Range(Append(args, "copy-network")) = Range(args) \cup {"copy-network"}
    BY AppendedArgument
  <2> QED
    BY ONLY <2>1 DEF buildInstallerArgs
<1>2. /\ Kept(start, g) \in Nat
      /\ \A f \in host.files : f.written \in Nat /\ Kept(f.written, g) \in Nat
  BY KeptOrder, Zenon
<1>3. session => agentTUIStartTime(host) = Kept(start, g) /\ agentTUIStartTime(host) # NoTime
  BY <1>2 DEF agentTUIStartTime, NoTime
<1>4. ~session => agentTUIStartTime(host) = NoTime
  BY DEF agentTUIStartTime
<1>5. session => (hasManualNetworkConfig(host) <=>
                    \E f \in host.files : usable(f) /\ ~(Kept(f.written, g) < Kept(start, g)))
  BY <1>3 DEF hasManualNetworkConfig, isManual
<1>6. ASSUME session, byUser PROVE copied
  <2>1. PICK f \in host.files : usable(f) /\ f.written >= start
    BY <1>6
  <2>2. Kept(start, g) <= Kept(f.written, g)
    <3>1. start \in Nat /\ f.written \in Nat /\ start <= f.written /\ g \in Nat \ {0}
      BY <2>1
    <3> QED
      BY ONLY <3>1, KeptOrder
  <2>3. ~(Kept(f.written, g) < Kept(start, g))
    BY ONLY <1>2, <2>2
  <2> QED
    BY <1>1, <1>5, <1>6, <2>1, <2>3
<1>7. ASSUME copied, g = 1, ~given PROVE session /\ byUser
  <2>1. hasManualNetworkConfig(host)
    BY ONLY <1>1, <1>7
  <2>2. session
    BY ONLY <1>4, <2>1 DEF hasManualNetworkConfig
  <2>3. PICK f \in host.files : usable(f) /\ ~(Kept(f.written, g) < Kept(start, g))
    BY ONLY <1>5, <2>1, <2>2
  <2>4. Kept(start, g) = start /\ Kept(f.written, g) = f.written /\ f.written \in Nat /\ start \in Nat
    BY <1>7, KeptOrder
  <2>5. f.written >= start
    BY ONLY <2>3, <2>4
  <2> QED
    BY ONLY <2>2, <2>3, <2>5
<1> HIDE DEF copied, given, session, byUser
<1>8. (session /\ byUser => copied) /\ (copied /\ g = 1 => given \/ (session /\ byUser))
  BY ONLY <1>6, <1>7
<1> QED
  BY ONLY <1>8 DEF ConsoleNetworkIsCopied, copied, given, session, byUser

\* The step whose installer runs is an install.
LEMMA RunningInstall ==
  ASSUME InstallInv, container.state = "running"
  PROVE  container.owner \in Steps /\ asked \in Asked /\ asked[container.owner].kind = "install"
BY DEF InstallInv, Types, Places, Ownership, InstallPlaces

\* Every installer that runs has seen every flag of the step that started it, for any
\* request (getFullInstallerCommand).
THEOREM InstallerArguments == Spec => []InstallerSeesArguments
<1>1. ASSUME InstallInv PROVE InstallerSeesArguments
  <2> SUFFICES ASSUME container.state = "running"
               PROVE  ArgumentsAreSeen(asked[container.owner], asked[container.owner].host)
    BY DEF InstallerSeesArguments
  <2>1. /\ asked[container.owner].disksToFormat \in Seq(Disks)
        /\ asked[container.owner].insecure \in BOOLEAN
    BY <1>1, RunningInstall, RequestAssumption DEF Steps
  <2> QED
    BY ONLY <2>1, EveryFlagIsSeen
<1> QED
  BY <1>1, InstallInvariance, PTL

\* Every installer that runs copies the network a user configured in the console,
\* whatever the granularity of the file system (hasManualNetworkConfig).
THEOREM InstallerNetwork == Spec => []InstallerCopiesNetwork
<1>1. ASSUME InstallInv PROVE InstallerCopiesNetwork
  <2> SUFFICES ASSUME container.state = "running"
               PROVE  ConsoleNetworkIsCopied(asked[container.owner], asked[container.owner].host)
    BY DEF InstallerCopiesNetwork
  <2> DEFINE r == asked[container.owner]
  <2>1. /\ r.installerArgs \in Seq(STRING) /\ r.host.tuiStart \in Nat
        /\ r.host.granularity \in Nat \ {0} /\ \A f \in r.host.files : f.written \in Nat
    BY <1>1, RunningInstall, RequestAssumption DEF Steps
  <2> HIDE DEF r
  <2>2. ConsoleNetworkIsCopied(r, r.host)
    BY ONLY <2>1, NetworkIsCopied, Zenon
  <2> QED
    BY ONLY <2>2 DEF r
<1> QED
  BY <1>1, InstallInvariance, PTL
=============================================================================
