---------------------------- MODULE AgentProofs -----------------------------
(***************************************************************************)
(* Proofs about the agent, for any set of instructions, step types and     *)
(* outputs and any number of retries: first about one next step runner     *)
(* (StepProcessor), then about the host across restarts of the runner and  *)
(* of the agent (Agent).                                                   *)
(***************************************************************************)
EXTENDS Agent, TLAPS
-----------------------------------------------------------------------------
\* The disjuncts of Next, with the bound variables of Query in the open.
LEMMA NextCases ==
  ASSUME Next
  PROVE  \/ SessionFails
         \/ \E I \in SUBSET Steps, a \in {"continue", "exit"} : GetNextSteps(I, a)
         \/ \E n \in BOOLEAN : GetNextStepsFails(n)
         \/ BackoffElapsed \/ ContextDone \/ DelayElapsed
         \/ MainWaits \/ MainPolls \/ FakeReboot
         \/ \E s \in Steps :
              \/ DiagnoseBefore(s) \/ CreateRunner(s) \/ TryAcquire(s)
              \/ DiagnoseAfter(s) \/ SendStepReply(s) \/ PostStepReply(s)
              \/ StoreInCache(s) \/ StepEnds(s) \/ RunCommand(s)
              \/ ExclusiveEnds(s) \/ DeliverLate(s)
         \/ \E t \in StepTypes : CacheExpires(t)
  BY Zenon DEF Next, LoopAction, MainAction, StepAction, Handles, Query

-----------------------------------------------------------------------------
(***************************************************************************)
(* Type correctness                                                        *)
(***************************************************************************)

\* The initial state is well typed, whether or not the process runs already.
LEMMA InitTypeOK == Fresh /\ process \in {"absent", "running"} => TypeOK
<1> SUFFICES ASSUME Fresh, process \in {"absent", "running"} PROVE TypeOK
  OBVIOUS
<1>1. Empty \in AllOutputs /\ "ok" \in Codes
  BY DEF AllOutputs, Codes
<1>2. /\ tries \in 0..MaxTries
      /\ attempt \in [Steps -> 0..MaxRetries]
      /\ late \in [Steps -> Nat]
  BY BoundsAssumption DEF Fresh
<1>3. /\ output \in [Steps -> AllOutputs]
      /\ code \in [Steps -> Codes]
      /\ cache \in [StepTypes -> AllOutputs \cup {None}]
      /\ latest \in [StepTypes -> AllOutputs \cup {None}]
      /\ taken \in [Steps -> Replies \cup {None}]
  BY <1>1 DEF Fresh
<1> QED BY <1>2, <1>3, DryRunsAssumption, Zenon DEF Fresh, TypeOK

\* What the end of a command writes is well typed.
LEMMA FinishedTypeOK ==
  ASSUME TypeOK, NEW s \in Steps, NEW c \in {"ok", "failed"}, NEW o \in AllOutputs,
         Finished(s, c, o)
  PROVE  /\ output' \in [Steps -> AllOutputs]
         /\ code' \in [Steps -> Codes]
         /\ succeeded' \in SUBSET Steps
         /\ pc' \in [Steps -> {"idle", "diagnose", "create", "run", "exclusive",
                     "rediagnose", "send", "post", "store", "restart", "done",
                     "dead"}]
  BY DEF TypeOK, Finished, Codes,
          AfterCommand

\* Every step of the process keeps the types.
LEMMA NextTypeOK ==
  ASSUME TypeOK, [Next]_vars
  PROVE  TypeOK'
<1>0. CASE UNCHANGED vars
  BY <1>0 DEF TypeOK, vars
<1>1. CASE SessionFails
  BY <1>1 DEF TypeOK, SessionFails, ProcessEnds, stepVars, serviceVars, ExclusiveTypes,
          MemoryLost
<1>2. ASSUME NEW I \in SUBSET Steps, NEW a \in {"continue", "exit"}, GetNextSteps(I, a)
      PROVE  TypeOK'
  BY <1>2, BoundsAssumption DEF TypeOK, GetNextSteps, stepVars, serviceVars
<1>3. ASSUME NEW n \in BOOLEAN, GetNextStepsFails(n)
      PROVE  TypeOK'
  <2>1. /\ tries \in 0..MaxTries
        /\ \/ loop' = "frozen" /\ tries' = 0
           \/ loop' = "backoff" /\ tries < MaxTries /\ tries' = tries + 1
           \/ loop' = "returned" /\ tries' = 0
    BY <1>3, Zenon DEF TypeOK, GetNextStepsFails
  <2>3. /\ tries' \in 0..MaxTries
        /\ loop' \in {"query", "backoff", "select", "frozen", "returned"}
    BY <2>1, BoundsAssumption
  <2>2. cache' \in [StepTypes -> AllOutputs \cup {None}]
    BY <1>3 DEF GetNextStepsFails
  <2> QED BY <1>3, <2>2, <2>3, Zenon DEF TypeOK, GetNextStepsFails, stepVars, serviceVars
<1>4. CASE BackoffElapsed \/ ContextDone \/ DelayElapsed \/ FakeReboot
  BY <1>4, ZenonT(20) DEF TypeOK, BackoffElapsed, ContextDone, DelayElapsed, FakeReboot,
              stepVars, serviceVars,
          AfterDelay
<1>5. CASE MainWaits \/ MainPolls
  BY <1>5, Zenon DEF TypeOK, MainWaits, MainPolls, ProcessEnds, stepVars, serviceVars,
              ExclusiveTypes,
          MemoryLost
<1>6. ASSUME NEW s \in Steps,
             \/ DiagnoseBefore(s) \/ CreateRunner(s) \/ DiagnoseAfter(s)
             \/ SendStepReply(s) \/ StepEnds(s) \/ StoreInCache(s)
      PROVE  TypeOK'
  <2>1. CASE DiagnoseBefore(s)
    BY <2>1 DEF TypeOK, DiagnoseBefore, loopVars, serviceVars, Codes
  <2>2. CASE CreateRunner(s)
    BY <2>2 DEF TypeOK, CreateRunner, loopVars, serviceVars, Codes
  <2>3. CASE DiagnoseAfter(s)
    BY <2>3 DEF TypeOK, DiagnoseAfter, loopVars, serviceVars, Codes
  <2>4. CASE SendStepReply(s)
    BY <2>4 DEF TypeOK, SendStepReply, loopVars, stepVars
  <2>5. CASE StepEnds(s)
    BY <2>5 DEF TypeOK, StepEnds, loopVars, stepVars, serviceVars, requiresRestart
  <2>6. CASE StoreInCache(s)
    BY <2>6 DEF TypeOK, StoreInCache, loopVars, stepVars, serviceVars
  <2> QED BY <1>6, <2>1, <2>2, <2>3, <2>4, <2>5, <2>6
<1>7. ASSUME NEW s \in Steps, RunCommand(s) \/ TryAcquire(s) \/ ExclusiveEnds(s)
      PROVE  TypeOK'
  <2>1. CASE RunCommand(s)
    <3>1. PICK c \in {"ok", "failed"}, o \in Outputs : Finished(s, c, o)
      BY <2>1 DEF RunCommand
    <3>2. o \in AllOutputs
      BY DEF AllOutputs
    <3> QED BY <2>1, <3>1, <3>2, FinishedTypeOK DEF TypeOK, RunCommand, loopVars, serviceVars
  <2>2. CASE TryAcquire(s)
    <3>1. CASE ~held[stepType[s]]
      BY <2>2, <3>1, Zenon DEF TypeOK, TryAcquire, loopVars, serviceVars,
          CanAcquire
    <3>2. CASE held[stepType[s]]
      <4> DEFINE o == IF stepType[s] = UpgradeAgent THEN NoResult ELSE Empty
      <4>1. o \in AllOutputs /\ Finished(s, "ok", o)
        BY <2>2, <3>2 DEF TryAcquire, AllOutputs,
          CanAcquire
      <4> QED BY <2>2, <3>2, <4>1, FinishedTypeOK DEF TypeOK, TryAcquire, loopVars, serviceVars,
          CanAcquire
    <3> QED BY <3>1, <3>2
  <2>3. CASE ExclusiveEnds(s)
    <3>1. PICK c \in {"ok", "failed"}, o \in AllOutputs : Finished(s, c, o)
      BY <2>3 DEF ExclusiveEnds, AllOutputs,
          Released
    <3> QED BY <2>3, <3>1, FinishedTypeOK, ZenonT(20) DEF TypeOK, ExclusiveEnds, loopVars, serviceVars,
          Released
  <2> QED BY <1>7, <2>1, <2>2, <2>3
<1>8. ASSUME NEW s \in Steps, PostStepReply(s) \/ DeliverLate(s)
      PROVE  TypeOK'
  <2>1. Reply(s) \in Replies
    BY DEF TypeOK, Reply, Replies
  <2>2. ASSUME Deliver(s)
        PROVE  /\ taken' \in [Steps -> Replies \cup {None}]
               /\ latest' \in [StepTypes -> AllOutputs \cup {None}]
    BY <2>1, <2>2 DEF TypeOK, Deliver
  <2>3. CASE PostStepReply(s)
    BY <2>2, <2>3, BoundsAssumption DEF TypeOK, PostStepReply, loopVars, stepVars,
          AfterPost, RetriesLeft
  <2>4. CASE DeliverLate(s)
    BY <2>2, <2>4 DEF TypeOK, DeliverLate, loopVars, stepVars
  <2> QED BY <1>8, <2>3, <2>4
<1>9. ASSUME NEW t \in StepTypes, CacheExpires(t)
      PROVE  TypeOK'
  BY <1>9 DEF TypeOK, CacheExpires, loopVars, stepVars, serviceVars
<1> QED BY <1>0, <1>1, <1>2, <1>3, <1>4, <1>5, <1>6, <1>7, <1>8, <1>9, NextCases

-----------------------------------------------------------------------------
(***************************************************************************)
(* What a goroutine's position says of its reply                           *)
(***************************************************************************)

\* A step that nothing happened to keeps its facts.
LEMMA StepUntouched ==
  ASSUME NEW s \in Steps, StepFacts(s),
         pc'[s] = pc[s], stepType'[s] = stepType[s], output'[s] = output[s],
         code'[s] = code[s], taken'[s] = taken[s], late'[s] = late[s],
         (s \in suppressed') <=> (s \in suppressed),
         (s \in succeeded') <=> (s \in succeeded)
  PROVE  StepFacts(s)'
  BY DEF StepFacts, Reply, requiresRestart

\* The goroutines that the end of the process interrupts keep theirs.
LEMMA StepsAtProcessEnd ==
  ASSUME TypeOK, ReplyFollowsStep, NEW how, ProcessEnds(how),
         UNCHANGED stepVars, UNCHANGED serviceVars
  PROVE  ReplyFollowsStep'
  BY DEF TypeOK, ReplyFollowsStep, StepFacts, ProcessEnds, Reply, requiresRestart,
         stepVars, serviceVars,
          MemoryLost

\* The end of a command: its reply is not known to anyone yet.
LEMMA FinishedFacts ==
  ASSUME TypeOK, NEW s \in Steps, StepFacts(s),
         NEW c \in {"ok", "failed"}, NEW o \in AllOutputs, Finished(s, c, o),
         pc[s] \in {"run", "exclusive"}, UNCHANGED <<stepType, serviceVars>>,
         stepType[s] = UpgradeAgent => c = "ok"
  PROVE  StepFacts(s)'
  BY DEF TypeOK, StepFacts, Finished, Reply, requiresRestart, serviceVars,
          AfterCommand

\* Every step of the process keeps the facts of all goroutines.
LEMMA NextReplyFollowsStep ==
  ASSUME TypeOK, ReplyFollowsStep, [Next]_vars
  PROVE  ReplyFollowsStep'
<1>0. CASE UNCHANGED vars
  BY <1>0 DEF ReplyFollowsStep, StepFacts, Reply, requiresRestart, vars
<1>1. CASE SessionFails
  BY <1>1, StepsAtProcessEnd DEF SessionFails
<1>2. ASSUME NEW I \in SUBSET Steps, NEW a \in {"continue", "exit"}, GetNextSteps(I, a)
      PROVE  ReplyFollowsStep'
  BY <1>2 DEF TypeOK, ReplyFollowsStep, StepFacts, GetNextSteps, Reply,
              requiresRestart, stepVars, serviceVars
<1>3. ASSUME UNCHANGED <<pc, stepVars, serviceVars>>
      PROVE  ReplyFollowsStep'
  BY <1>3 DEF ReplyFollowsStep, StepFacts, Reply, requiresRestart, stepVars,
              serviceVars
<1>4. CASE MainWaits \/ MainPolls
  BY <1>4, StepsAtProcessEnd DEF MainWaits, MainPolls
<1>5. ASSUME NEW s \in Steps,
             \/ DiagnoseBefore(s) \/ CreateRunner(s) \/ TryAcquire(s)
             \/ DiagnoseAfter(s) \/ SendStepReply(s) \/ PostStepReply(s)
             \/ StoreInCache(s) \/ StepEnds(s) \/ RunCommand(s)
             \/ ExclusiveEnds(s) \/ DeliverLate(s)
      PROVE  ReplyFollowsStep'
  <2>1. ASSUME NEW r \in Steps, r # s
        PROVE  StepFacts(r)'
    <3>1. /\ pc'[r] = pc[r] /\ output'[r] = output[r] /\ code'[r] = code[r]
          /\ (r \in succeeded') <=> (r \in succeeded)
      BY <1>5, <2>1 DEF TypeOK, DiagnoseBefore, CreateRunner, TryAcquire,
           DiagnoseAfter, SendStepReply, PostStepReply, StoreInCache, StepEnds,
           RunCommand, ExclusiveEnds, DeliverLate, Finished, stepVars,
          CanAcquire, AfterPost, RetriesLeft, Released, AfterCommand
    <3>2. /\ taken'[r] = taken[r] /\ late'[r] = late[r]
          /\ stepType'[r] = stepType[r]
          /\ (r \in suppressed') <=> (r \in suppressed)
      BY <1>5, <2>1 DEF TypeOK, DiagnoseBefore, CreateRunner, TryAcquire,
           DiagnoseAfter, SendStepReply, PostStepReply, StoreInCache, StepEnds,
           RunCommand, ExclusiveEnds, DeliverLate, Deliver, stepVars, serviceVars,
          CanAcquire, AfterPost, RetriesLeft, Released
    <3>3. StepFacts(r)
      BY DEF ReplyFollowsStep
    <3> QED BY <3>1, <3>2, <3>3, StepUntouched
  <2>2. StepFacts(s)'
    <3>0. StepFacts(s)
      BY DEF ReplyFollowsStep
    <3>1. CASE DiagnoseBefore(s) \/ CreateRunner(s) \/ DiagnoseAfter(s)
      BY <3>0, <3>1 DEF TypeOK, StepFacts, DiagnoseBefore, CreateRunner,
           DiagnoseAfter, Reply, requiresRestart, serviceVars
    <3>2. CASE RunCommand(s)
      <4>1. PICK c \in {"ok", "failed"}, o \in AllOutputs : Finished(s, c, o)
        BY <3>2 DEF RunCommand, AllOutputs
      <4> QED BY <3>0, <3>2, <4>1, FinishedFacts DEF RunCommand, ExclusiveTypes
    <3>3. CASE TryAcquire(s)
      <4>1. CASE held[stepType[s]]
        <5> DEFINE o == IF stepType[s] = UpgradeAgent THEN NoResult ELSE Empty
        <5>1. o \in AllOutputs /\ Finished(s, "ok", o)
          BY <3>3, <4>1 DEF TryAcquire, AllOutputs,
          CanAcquire
        <5> QED BY <3>0, <3>3, <5>1, FinishedFacts DEF TryAcquire,
          CanAcquire
      <4>2. CASE ~held[stepType[s]]
        BY <3>0, <3>3, <4>2 DEF TypeOK, StepFacts, TryAcquire, Reply,
             requiresRestart, serviceVars,
          CanAcquire
      <4> QED BY <4>1, <4>2
    <3>4. CASE ExclusiveEnds(s)
      <4>1. PICK c \in {"ok", "failed"}, o \in AllOutputs :
              /\ Finished(s, c, o)
              /\ stepType[s] = UpgradeAgent => c = "ok"
        BY <3>4 DEF ExclusiveEnds, AllOutputs,
          Released
      <4> QED BY <3>0, <3>4, <4>1, FinishedFacts DEF ExclusiveEnds,
          Released
    <3>5. CASE SendStepReply(s) \/ StoreInCache(s) \/ StepEnds(s)
      BY <3>0, <3>5 DEF TypeOK, StepFacts, SendStepReply, StoreInCache, StepEnds,
           Reply, requiresRestart, stepVars, serviceVars
    <3>6. CASE PostStepReply(s) \/ DeliverLate(s)
      <4>1. Reply(s) # None
        BY NoneAssumption DEF TypeOK, Reply, Replies
      <4> QED BY <3>0, <3>6, <4>1 DEF TypeOK, StepFacts, PostStepReply, DeliverLate,
                Deliver, Reply, requiresRestart, stepVars,
          AfterPost, RetriesLeft
    <3> QED BY <1>5, <3>1, <3>2, <3>3, <3>4, <3>5, <3>6
  <2> QED BY <2>1, <2>2 DEF ReplyFollowsStep
<1>6. CASE \/ \E n \in BOOLEAN : GetNextStepsFails(n)
           \/ BackoffElapsed \/ ContextDone \/ DelayElapsed \/ FakeReboot
           \/ \E t \in StepTypes : CacheExpires(t)
  BY <1>3, <1>6 DEF GetNextStepsFails, BackoffElapsed, ContextDone, DelayElapsed,
       FakeReboot, CacheExpires,
          AfterDelay
<1> QED BY <1>0, <1>1, <1>2, <1>4, <1>5, <1>6, NextCases

-----------------------------------------------------------------------------
(***************************************************************************)
(* The cache, the replies left out, and the service                        *)
(***************************************************************************)

\* Only Deliver changes what the service took.
LEMMA TakenChanges ==
  ASSUME [Next]_vars
  PROVE  \/ UNCHANGED taken
         \/ \E s \in Steps :
              /\ Deliver(s)
              /\ pc[s] = "post" \/ late[s] > 0
              /\ UNCHANGED suppressed
<1>1. ASSUME NEW s \in Steps, PostStepReply(s) \/ DeliverLate(s)
      PROVE  \/ UNCHANGED taken
             \/ /\ Deliver(s)
                /\ pc[s] = "post" \/ late[s] > 0
                /\ UNCHANGED suppressed
  BY <1>1 DEF PostStepReply, DeliverLate,
          AfterPost, RetriesLeft
<1>2. ASSUME NEW s \in Steps,
             \/ DiagnoseBefore(s) \/ CreateRunner(s) \/ TryAcquire(s)
             \/ DiagnoseAfter(s) \/ SendStepReply(s) \/ StoreInCache(s)
             \/ StepEnds(s) \/ RunCommand(s) \/ ExclusiveEnds(s)
      PROVE  UNCHANGED taken
  BY <1>2 DEF DiagnoseBefore, CreateRunner, TryAcquire, DiagnoseAfter,
       SendStepReply, StoreInCache, StepEnds, RunCommand, ExclusiveEnds, serviceVars,
          CanAcquire, Released
<1>3. ASSUME \/ SessionFails
             \/ \E I \in SUBSET Steps, a \in {"continue", "exit"} : GetNextSteps(I, a)
             \/ \E n \in BOOLEAN : GetNextStepsFails(n)
             \/ BackoffElapsed \/ ContextDone \/ DelayElapsed
             \/ MainWaits \/ MainPolls \/ FakeReboot
             \/ \E t \in StepTypes : CacheExpires(t)
      PROVE  UNCHANGED taken
  BY <1>3 DEF SessionFails, GetNextSteps, GetNextStepsFails, BackoffElapsed,
       ContextDone, DelayElapsed, MainWaits, MainPolls, FakeReboot, CacheExpires,
       serviceVars,
          AfterDelay
<1>4. CASE UNCHANGED vars
  BY <1>4 DEF vars
<1> QED BY <1>1, <1>2, <1>3, <1>4, NextCases

\* What the service took of a step stays what it was.
LEMMA TakenStays ==
  ASSUME TypeOK, ReplyFollowsStep, [Next]_vars, NEW s \in Steps, taken[s] # None
  PROVE  taken'[s] = taken[s]
<1>1. CASE UNCHANGED taken
  BY <1>1
<1>2. ASSUME NEW r \in Steps, Deliver(r)
      PROVE  taken'[s] = taken[s]
  BY <1>2 DEF TypeOK, Deliver, ReplyFollowsStep, StepFacts
<1> QED BY <1>1, <1>2, TakenChanges

\* A cached output is that of a reply the service took: storeInCache is the
\* only writer, and it runs after the post of the same goroutine.
LEMMA NextCacheIsAcknowledged ==
  ASSUME TypeOK, ReplyFollowsStep, CacheIsAcknowledged, [Next]_vars
  PROVE  CacheIsAcknowledged'
<1> SUFFICES ASSUME NEW t \in StepTypes, cache'[t] # None
             PROVE  \E s \in Steps :
                      taken'[s] = [type |-> t, output |-> cache'[t], code |-> "ok"]
  BY DEF CacheIsAcknowledged
<1>1. CASE cache'[t] = cache[t]
  <2>1. PICK s \in Steps : taken[s] = [type |-> t, output |-> cache[t], code |-> "ok"]
    BY <1>1 DEF CacheIsAcknowledged
  <2>2. taken[s] # None
    <3>1. taken[s] \in Replies
      BY <1>1, <2>1 DEF TypeOK, Replies, Codes
    <3> QED BY <3>1, NoneAssumption
  <2> QED BY <1>1, <2>1, <2>2, TakenStays
<1>2. ASSUME NEW s \in Steps, StoreInCache(s)
      PROVE  \/ cache'[t] = cache[t]
             \/ taken'[s] = [type |-> t, output |-> cache'[t], code |-> "ok"]
  BY <1>2 DEF TypeOK, ReplyFollowsStep, StepFacts, StoreInCache, Reply, serviceVars
<1>3. ASSUME NEW r \in StepTypes, CacheExpires(r)
      PROVE  cache'[t] = cache[t]
  BY <1>3 DEF TypeOK, CacheExpires
<1>4. ASSUME NEW n \in BOOLEAN, GetNextStepsFails(n)
      PROVE  cache'[t] = None
  BY <1>4 DEF GetNextStepsFails
<1>5. ASSUME SessionFails \/ MainWaits \/ MainPolls
      PROVE  cache'[t] = None
  BY <1>5 DEF SessionFails, MainWaits, MainPolls, ProcessEnds,
          MemoryLost
<1>6. ASSUME \/ \E s \in Steps :
                  \/ DiagnoseBefore(s) \/ CreateRunner(s) \/ TryAcquire(s)
                  \/ DiagnoseAfter(s) \/ SendStepReply(s) \/ PostStepReply(s)
                  \/ StepEnds(s) \/ RunCommand(s) \/ ExclusiveEnds(s)
                  \/ DeliverLate(s)
             \/ \E I \in SUBSET Steps, a \in {"continue", "exit"} : GetNextSteps(I, a)
             \/ BackoffElapsed \/ ContextDone \/ DelayElapsed \/ FakeReboot
             \/ UNCHANGED vars
      PROVE  UNCHANGED cache
  BY <1>6, ZenonT(20) DEF DiagnoseBefore, CreateRunner, TryAcquire, DiagnoseAfter,
       SendStepReply, PostStepReply, StepEnds, RunCommand, ExclusiveEnds,
       DeliverLate, GetNextSteps, BackoffElapsed, ContextDone, DelayElapsed,
       FakeReboot, vars,
          CanAcquire, AfterPost, RetriesLeft, Released, AfterDelay
<1> QED BY <1>1, <1>2, <1>3, <1>4, <1>5, <1>6, NextCases

\* Only SendStepReply leaves a reply out, and then the service has one that
\* says the same and knows nothing of the step itself.
LEMMA SuppressedChanges ==
  ASSUME TypeOK, ReplyFollowsStep, CacheIsAcknowledged, [Next]_vars
  PROVE  \/ UNCHANGED suppressed
         \/ \E s \in Steps :
              /\ suppressed' = suppressed \cup {s}
              /\ s \notin suppressed
              /\ taken[s] = None /\ late[s] = 0 /\ code[s] = "ok"
              /\ \E other \in Steps : taken[other] = Reply(s)
              /\ UNCHANGED <<stepType, output, code, taken, late>>
<1>1. ASSUME NEW s \in Steps, SendStepReply(s), code[s] = "ok",
             alreadyExistsInService(s), suppressed' = suppressed \cup {s}
      PROVE  /\ s \notin suppressed
             /\ taken[s] = None /\ late[s] = 0
             /\ \E other \in Steps : taken[other] = Reply(s)
             /\ UNCHANGED <<stepType, output, code, taken, late>>
  <2>1. StepFacts(s) /\ pc[s] = "send"
    BY <1>1 DEF ReplyFollowsStep, SendStepReply
  <2>2. s \notin suppressed /\ taken[s] = None /\ late[s] = 0
    BY <2>1 DEF StepFacts, TypeOK
  <2>3. cache[stepType[s]] # None
    BY <1>1, NoneAssumption DEF TypeOK, alreadyExistsInService
  <2>4. PICK other \in Steps :
          taken[other] = [type |-> stepType[s], output |-> output[s], code |-> "ok"]
    BY <1>1, <2>3 DEF TypeOK, CacheIsAcknowledged, alreadyExistsInService
  <2> QED BY <1>1, <2>2, <2>4, Zenon DEF SendStepReply, Reply, stepVars
<1>2. ASSUME NEW s \in Steps, SendStepReply(s)
      PROVE  \/ UNCHANGED suppressed
             \/ /\ suppressed' = suppressed \cup {s}
                /\ code[s] = "ok" /\ alreadyExistsInService(s)
  BY <1>2 DEF SendStepReply
<1>3. ASSUME NEW s \in Steps,
             \/ DiagnoseBefore(s) \/ CreateRunner(s) \/ TryAcquire(s)
             \/ DiagnoseAfter(s) \/ PostStepReply(s) \/ StoreInCache(s)
             \/ StepEnds(s) \/ RunCommand(s) \/ ExclusiveEnds(s) \/ DeliverLate(s)
      PROVE  UNCHANGED suppressed
  BY <1>3 DEF DiagnoseBefore, CreateRunner, TryAcquire, DiagnoseAfter,
       PostStepReply, StoreInCache, StepEnds, RunCommand, ExclusiveEnds,
       DeliverLate, serviceVars,
          CanAcquire, AfterPost, RetriesLeft, Released
<1>4. ASSUME \/ SessionFails
             \/ \E I \in SUBSET Steps, a \in {"continue", "exit"} : GetNextSteps(I, a)
             \/ \E n \in BOOLEAN : GetNextStepsFails(n)
             \/ BackoffElapsed \/ ContextDone \/ DelayElapsed
             \/ MainWaits \/ MainPolls \/ FakeReboot
             \/ \E t \in StepTypes : CacheExpires(t)
             \/ UNCHANGED vars
      PROVE  UNCHANGED suppressed
  BY <1>4 DEF SessionFails, GetNextSteps, GetNextStepsFails, BackoffElapsed,
       ContextDone, DelayElapsed, MainWaits, MainPolls, FakeReboot, CacheExpires,
       serviceVars, vars,
          AfterDelay
<1> QED BY <1>1, <1>2, <1>3, <1>4, NextCases, ZenonT(20)

\* A goroutine that has left "send" no longer changes its reply, and a step
\* that was left out is never posted.
LEMMA SuppressedStays ==
  ASSUME TypeOK, ReplyFollowsStep, SuppressedIsKnown, [Next]_vars,
         NEW s \in Steps, s \in suppressed
  PROVE  /\ taken'[s] = None /\ late'[s] = 0 /\ code'[s] = "ok"
         /\ Reply(s)' = Reply(s)
<1>1. /\ pc[s] \in {"restart", "done", "dead"}
      /\ taken[s] = None /\ late[s] = 0 /\ code[s] = "ok"
  BY DEF ReplyFollowsStep, StepFacts, SuppressedIsKnown
<1>2. ASSUME NEW r \in Steps,
             \/ DiagnoseBefore(r) \/ CreateRunner(r) \/ TryAcquire(r)
             \/ DiagnoseAfter(r) \/ RunCommand(r) \/ ExclusiveEnds(r)
             \/ PostStepReply(r) \/ DeliverLate(r)
      PROVE  /\ taken'[s] = None /\ late'[s] = 0 /\ code'[s] = "ok"
             /\ stepType'[s] = stepType[s] /\ output'[s] = output[s]
  <2>1. r # s
    <3>1. CASE DeliverLate(r)
      BY <1>1, <3>1 DEF DeliverLate
    <3>2. CASE ~DeliverLate(r)
      <4>1. pc[r] \notin {"restart", "done", "dead"}
        BY <1>2, <3>2, Zenon DEF DiagnoseBefore, CreateRunner, TryAcquire, DiagnoseAfter,
             RunCommand, ExclusiveEnds, PostStepReply
      <4> QED BY <1>1, <4>1, Zenon
    <3> QED BY <3>1, <3>2
  <2>2. code'[s] = code[s] /\ stepType'[s] = stepType[s] /\ output'[s] = output[s]
    BY <1>2, <2>1 DEF TypeOK, DiagnoseBefore, CreateRunner, TryAcquire, DiagnoseAfter,
         RunCommand, ExclusiveEnds, PostStepReply, DeliverLate, Finished, stepVars,
          CanAcquire, Released, AfterPost, RetriesLeft, AfterCommand
  <2>3. taken'[s] = taken[s] /\ late'[s] = late[s]
    BY <1>2, <2>1 DEF TypeOK, DiagnoseBefore, CreateRunner, TryAcquire, DiagnoseAfter,
         RunCommand, ExclusiveEnds, PostStepReply, DeliverLate, Deliver, serviceVars,
          CanAcquire, Released, AfterPost, RetriesLeft
  <2> QED BY <1>1, <2>2, <2>3, Zenon
<1>3. ASSUME \/ \E r \in Steps : SendStepReply(r) \/ StoreInCache(r) \/ StepEnds(r)
             \/ SessionFails
             \/ \E I \in SUBSET Steps, a \in {"continue", "exit"} : GetNextSteps(I, a)
             \/ \E n \in BOOLEAN : GetNextStepsFails(n)
             \/ BackoffElapsed \/ ContextDone \/ DelayElapsed
             \/ MainWaits \/ MainPolls \/ FakeReboot
             \/ \E t \in StepTypes : CacheExpires(t)
             \/ UNCHANGED vars
      PROVE  UNCHANGED <<stepType, output, code, taken, late>>
  BY <1>3 DEF SendStepReply, StoreInCache, StepEnds, SessionFails, GetNextSteps,
       GetNextStepsFails, BackoffElapsed, ContextDone, DelayElapsed, MainWaits,
       MainPolls, FakeReboot, CacheExpires, stepVars, serviceVars, vars,
          AfterDelay
<1> QED BY <1>1, <1>2, <1>3, NextCases, ZenonT(20) DEF Reply

\* Every step of the process keeps SuppressedIsKnown.
LEMMA NextSuppressedIsKnown ==
  ASSUME TypeOK, ReplyFollowsStep, CacheIsAcknowledged, SuppressedIsKnown, [Next]_vars
  PROVE  SuppressedIsKnown'
<1> SUFFICES ASSUME NEW s \in suppressed'
             PROVE  /\ taken'[s] = None /\ late'[s] = 0
                    /\ code'[s] = "ok"
                    /\ \E other \in Steps : taken'[other] = Reply(s)'
  BY DEF SuppressedIsKnown
<1>1. CASE s \in suppressed
  <2>1. s \in Steps
    BY <1>1 DEF TypeOK
  <2>2. PICK other \in Steps : taken[other] = Reply(s)
    BY <1>1 DEF SuppressedIsKnown
  <2>3. taken[other] # None
    BY <2>1, <2>2, NoneAssumption DEF TypeOK, Reply, Replies
  <2>4. taken'[other] = taken[other]
    BY <2>3, TakenStays
  <2> QED BY <1>1, <2>1, <2>2, <2>4, SuppressedStays
<1>2. CASE s \notin suppressed
  <2>1. PICK r \in Steps :
              /\ suppressed' = suppressed \cup {r}
              /\ taken[r] = None /\ late[r] = 0 /\ code[r] = "ok"
              /\ \E other \in Steps : taken[other] = Reply(r)
              /\ UNCHANGED <<stepType, output, code, taken, late>>
    BY <1>2, SuppressedChanges
  <2>2. r = s
    BY <1>2, <2>1
  <2> QED BY <2>1, <2>2 DEF Reply
<1> QED BY <1>1, <1>2

-----------------------------------------------------------------------------
(***************************************************************************)
(* The semaphores                                                          *)
(***************************************************************************)

\* A command that runs under a semaphore has it.
HoldsSemaphore ==
  \A s \in Steps :
    pc[s] = "exclusive" => stepType[s] \in ExclusiveTypes /\ held[stepType[s]]

SemaphoreInv == OneExclusiveCommand /\ SemaphoreNotLeaked /\ HoldsSemaphore

\* A step of the process that neither starts nor ends a guarded command keeps
\* the invariant of the semaphores.
LEMMA SemaphoreUntouched ==
  ASSUME SemaphoreInv, UNCHANGED <<stepType, held>>,
         \A s \in Steps : pc'[s] = "exclusive" <=> pc[s] = "exclusive"
  PROVE  SemaphoreInv'
  BY DEF SemaphoreInv, OneExclusiveCommand, SemaphoreNotLeaked, HoldsSemaphore

\* Every step of the process keeps the invariant of the semaphores.
LEMMA NextSemaphoreInv ==
  ASSUME TypeOK, SemaphoreInv, [Next]_vars
  PROVE  SemaphoreInv'
<1>0. CASE UNCHANGED vars
  BY <1>0, SemaphoreUntouched DEF vars
<1>1. CASE SessionFails \/ MainWaits \/ MainPolls
  <2>1. /\ \A s \in Steps : pc'[s] # "exclusive"
        /\ \A t \in ExclusiveTypes : ~held'[t]
    BY <1>1 DEF SessionFails, MainWaits, MainPolls, ProcessEnds,
          MemoryLost
  <2> QED BY <2>1 DEF SemaphoreInv, OneExclusiveCommand, SemaphoreNotLeaked,
            HoldsSemaphore
<1>2. ASSUME NEW I \in SUBSET Steps, NEW a \in {"continue", "exit"}, GetNextSteps(I, a)
      PROVE  SemaphoreInv'
  <2>1. \A s \in Steps : pc'[s] = "exclusive" <=> pc[s] = "exclusive"
    BY <1>2 DEF GetNextSteps
  <2> QED BY <1>2, <2>1, SemaphoreUntouched DEF GetNextSteps, stepVars
<1>3. ASSUME \/ \E n \in BOOLEAN : GetNextStepsFails(n)
             \/ BackoffElapsed \/ ContextDone \/ DelayElapsed \/ FakeReboot
             \/ \E s \in Steps : DeliverLate(s)
             \/ \E t \in StepTypes : CacheExpires(t)
      PROVE  SemaphoreInv'
  <2>1. UNCHANGED <<pc, stepType, held>>
    BY <1>3 DEF GetNextStepsFails, BackoffElapsed, ContextDone, DelayElapsed,
         FakeReboot, DeliverLate, CacheExpires, stepVars,
          AfterDelay
  <2> QED BY <2>1, SemaphoreUntouched
<1>4. ASSUME NEW s \in Steps,
             \/ DiagnoseBefore(s) \/ CreateRunner(s) \/ DiagnoseAfter(s)
             \/ SendStepReply(s) \/ PostStepReply(s) \/ StoreInCache(s)
             \/ StepEnds(s) \/ RunCommand(s)
      PROVE  SemaphoreInv'
  <2>1. UNCHANGED <<stepType, held>>
    BY <1>4 DEF DiagnoseBefore, CreateRunner, DiagnoseAfter, SendStepReply,
         PostStepReply, StoreInCache, StepEnds, RunCommand, stepVars,
          AfterPost, RetriesLeft
  <2>2. \A r \in Steps : pc'[r] = "exclusive" <=> pc[r] = "exclusive"
    BY <1>4 DEF TypeOK, DiagnoseBefore, CreateRunner, DiagnoseAfter, SendStepReply,
         PostStepReply, StoreInCache, StepEnds, RunCommand, Finished,
          AfterPost, RetriesLeft, AfterCommand
  <2> QED BY <2>1, <2>2, SemaphoreUntouched
<1>5. ASSUME NEW s \in Steps, TryAcquire(s)
      PROVE  SemaphoreInv'
  <2>1. CASE held[stepType[s]]
    <3>1. UNCHANGED <<stepType, held>>
      BY <1>5, <2>1 DEF TryAcquire,
          CanAcquire
    <3>2. \A r \in Steps : pc'[r] = "exclusive" <=> pc[r] = "exclusive"
      BY <1>5, <2>1 DEF TypeOK, TryAcquire, Finished,
          CanAcquire, AfterCommand
    <3> QED BY <3>1, <3>2, SemaphoreUntouched
  <2>2. CASE ~held[stepType[s]]
    BY <1>5, <2>2 DEF TypeOK, SemaphoreInv, OneExclusiveCommand, SemaphoreNotLeaked,
         HoldsSemaphore, TryAcquire,
          CanAcquire
  <2> QED BY <2>1, <2>2
<1>6. ASSUME NEW s \in Steps, ExclusiveEnds(s)
      PROVE  SemaphoreInv'
  <2>1. /\ pc[s] = "exclusive" /\ pc' = [pc EXCEPT ![s] = pc'[s]]
        /\ pc'[s] # "exclusive"
        /\ UNCHANGED stepType
        /\ held' = [held EXCEPT ![stepType[s]] = FALSE]
    BY <1>6 DEF TypeOK, ExclusiveEnds, Finished,
          Released, AfterCommand
  <2> QED BY <2>1 DEF TypeOK, SemaphoreInv, OneExclusiveCommand, SemaphoreNotLeaked,
            HoldsSemaphore
<1> QED BY <1>0, <1>1, <1>2, <1>3, <1>4, <1>5, <1>6, NextCases

-----------------------------------------------------------------------------
(***************************************************************************)
(* The cancellation                                                        *)
(***************************************************************************)

\* Every step of the process keeps CancelledAfterReply: an ended goroutine
\* stays as it is, and only StepEnds and MainPolls cancel.
LEMMA NextCancelledAfterReply ==
  ASSUME TypeOK, ReplyFollowsStep, CancelledAfterReply, [Next]_vars
  PROVE  CancelledAfterReply'
<1>1. ASSUME NEW s \in Steps, pc[s] = "done", s \in succeeded, requiresRestart(s)
      PROVE  pc'[s] = "done" /\ s \in succeeded' /\ requiresRestart(s)'
  <2>1. ASSUME NEW r \in Steps,
               \/ DiagnoseBefore(r) \/ CreateRunner(r) \/ TryAcquire(r)
               \/ DiagnoseAfter(r) \/ SendStepReply(r) \/ PostStepReply(r)
               \/ StoreInCache(r) \/ StepEnds(r) \/ RunCommand(r)
               \/ ExclusiveEnds(r) \/ DeliverLate(r)
        PROVE  /\ pc'[s] = "done" /\ s \in succeeded'
               /\ stepType'[s] = stepType[s] /\ output'[s] = output[s]
    BY <1>1, <2>1 DEF TypeOK, DiagnoseBefore, CreateRunner, TryAcquire, DiagnoseAfter,
         SendStepReply, PostStepReply, StoreInCache, StepEnds, RunCommand,
         ExclusiveEnds, DeliverLate, Finished, stepVars,
          CanAcquire, AfterPost, RetriesLeft, Released, AfterCommand
  <2>2. ASSUME NEW I \in SUBSET Steps, NEW a \in {"continue", "exit"}, GetNextSteps(I, a)
        PROVE  pc'[s] = "done" /\ UNCHANGED stepVars
    BY <1>1, <2>2 DEF GetNextSteps
  <2>3. ASSUME \/ SessionFails \/ MainWaits \/ MainPolls
               \/ \E n \in BOOLEAN : GetNextStepsFails(n)
               \/ BackoffElapsed \/ ContextDone \/ DelayElapsed \/ FakeReboot
               \/ \E t \in StepTypes : CacheExpires(t)
               \/ UNCHANGED vars
        PROVE  pc'[s] = "done" /\ UNCHANGED stepVars
    BY <1>1, <2>3 DEF SessionFails, MainWaits, MainPolls, ProcessEnds,
         GetNextStepsFails, BackoffElapsed, ContextDone, DelayElapsed, FakeReboot,
         CacheExpires, stepVars, vars,
          MemoryLost, AfterDelay
  <2> QED BY <1>1, <2>1, <2>2, <2>3, NextCases, ZenonT(20) DEF requiresRestart, stepVars
<1>2. ASSUME NEW s \in Steps, StepEnds(s)
      PROVE  \/ cancelled' = cancelled /\ UNCHANGED <<rebooted, dryRun>>
             \/ pc'[s] = "done" /\ s \in succeeded' /\ requiresRestart(s)'
  BY <1>2 DEF TypeOK, ReplyFollowsStep, StepFacts, StepEnds, requiresRestart, stepVars,
       loopVars
<1>3. CASE MainPolls
  BY <1>3 DEF MainPolls, CancelledAfterReply
<1>4. ASSUME NEW s \in Steps,
             \/ DiagnoseBefore(s) \/ CreateRunner(s) \/ TryAcquire(s)
             \/ DiagnoseAfter(s) \/ SendStepReply(s) \/ PostStepReply(s)
             \/ StoreInCache(s) \/ RunCommand(s) \/ ExclusiveEnds(s) \/ DeliverLate(s)
      PROVE  UNCHANGED <<cancelled, rebooted, dryRun>>
  BY <1>4, Zenon DEF DiagnoseBefore, CreateRunner, TryAcquire, DiagnoseAfter, SendStepReply,
       PostStepReply, StoreInCache, RunCommand, ExclusiveEnds, DeliverLate, loopVars,
          CanAcquire, AfterPost, RetriesLeft, Released
<1>5. ASSUME \/ SessionFails \/ MainWaits
             \/ \E I \in SUBSET Steps, a \in {"continue", "exit"} : GetNextSteps(I, a)
             \/ \E n \in BOOLEAN : GetNextStepsFails(n)
             \/ BackoffElapsed \/ ContextDone \/ DelayElapsed
             \/ \E t \in StepTypes : CacheExpires(t)
             \/ UNCHANGED vars
      PROVE  UNCHANGED <<cancelled, rebooted, dryRun>>
  BY <1>5 DEF SessionFails, MainWaits, GetNextSteps, GetNextStepsFails,
       BackoffElapsed, ContextDone, DelayElapsed, CacheExpires, loopVars, vars,
          AfterDelay
<1>6. ASSUME FakeReboot
      PROVE  cancelled' = cancelled /\ dryRun' /\ rebooted'
  BY <1>6 DEF FakeReboot
<1>7. CASE cancelled' = cancelled /\ (UNCHANGED <<rebooted, dryRun>> \/ (dryRun' /\ rebooted'))
  BY <1>1, <1>7 DEF CancelledAfterReply
<1> QED BY <1>2, <1>3, <1>4, <1>5, <1>6, <1>7, NextCases, ZenonT(20) DEF CancelledAfterReply

-----------------------------------------------------------------------------
(***************************************************************************)
(* Theorems                                                                *)
(***************************************************************************)

\* The inductive invariant: CacheIsAcknowledged and SuppressedIsKnown are not
\* inductive by themselves, they need the position of the goroutine that is
\* about to store or to send (ReplyFollowsStep).
IndInv ==
  /\ TypeOK /\ ReplyFollowsStep
  /\ CacheIsAcknowledged /\ SuppressedIsKnown
  /\ SemaphoreInv /\ CancelledAfterReply

\* The initial state satisfies the inductive invariant.
LEMMA InitIndInv == Fresh /\ process \in {"absent", "running"} => IndInv
<1> SUFFICES ASSUME Fresh, process \in {"absent", "running"} PROVE IndInv
  OBVIOUS
<1>1. TypeOK
  BY InitTypeOK
<1>2. ASSUME NEW s \in Steps
      PROVE  StepFacts(s)
  <2>1. /\ pc[s] = "idle" /\ taken[s] = None /\ late[s] = 0 /\ output[s] = Empty
        /\ suppressed = {} /\ succeeded = {}
    BY DEF Fresh
  <2>0. ~(0 > 0)
    BY SMT
  <2>2. ~(late[s] > 0)
    <3>1. late[s] = 0
      BY <2>1, Zenon
    <3> QED BY ONLY <3>1, <2>0, Zenon
  <2>3. output[s] # "success"
    BY <2>1 DEF Empty
  <2>4. ~requiresRestart(s)
    BY <2>3 DEF requiresRestart
  <2> QED BY <2>1, <2>2, <2>4 DEF StepFacts
<1>3. CacheIsAcknowledged /\ SuppressedIsKnown /\ CancelledAfterReply
  BY DEF Fresh, CacheIsAcknowledged, SuppressedIsKnown, CancelledAfterReply
<1>4. SemaphoreInv
  BY DEF Fresh, SemaphoreInv, OneExclusiveCommand, SemaphoreNotLeaked, HoldsSemaphore
<1> QED BY <1>1, <1>2, <1>3, <1>4 DEF IndInv, ReplyFollowsStep

\* Every step of the process keeps the inductive invariant.
LEMMA NextIndInv == IndInv /\ [Next]_vars => IndInv'
  BY NextTypeOK, NextReplyFollowsStep, NextCacheIsAcknowledged,
     NextSuppressedIsKnown, NextSemaphoreInv, NextCancelledAfterReply DEF IndInv

\* The inductive invariant holds in every reachable state.
THEOREM Invariance == Spec => []IndInv
<1>1. Init => IndInv
  BY InitIndInv DEF Init
<1> QED BY <1>1, NextIndInv, PTL DEF Spec

\* Type correctness of the process.
THEOREM TypeCorrectness == Spec => []TypeOK
<1>1. IndInv => TypeOK
  BY DEF IndInv
<1> QED BY <1>1, Invariance, PTL

\* A cached output is one the service acknowledged (storeInCache after a
\* successful PostStepReply), for any number of concurrent steps.
THEOREM CacheSafety == Spec => []CacheIsAcknowledged
<1>1. IndInv => CacheIsAcknowledged
  BY DEF IndInv
<1> QED BY <1>1, Invariance, PTL

\* A reply that sendStepReply leaves out is one the service has.
THEOREM SuppressionSafety == Spec => []SuppressedIsKnown
<1>1. IndInv => SuppressedIsKnown
  BY DEF IndInv
<1> QED BY <1>1, Invariance, PTL

\* The semaphores of the agent image pull and of the image availability check
\* exclude.
THEOREM SemaphoreSafety == Spec => []OneExclusiveCommand
<1>1. IndInv => OneExclusiveCommand
  BY DEF IndInv, SemaphoreInv
<1> QED BY <1>1, Invariance, PTL

\* They are never left taken by a goroutine that is over.
THEOREM SemaphoreIsReleased == Spec => []SemaphoreNotLeaked
<1>1. IndInv => SemaphoreNotLeaked
  BY DEF IndInv, SemaphoreInv
<1> QED BY <1>1, Invariance, PTL

\* A reply is posted, stored and taken only where its goroutine has got to.
THEOREM ReplySafety == Spec => []ReplyFollowsStep
<1>1. IndInv => ReplyFollowsStep
  BY DEF IndInv
<1> QED BY <1>1, Invariance, PTL

\* A command that succeeded is reported as such.
THEOREM SuccessSafety == Spec => []SuccessIsReported
<1>1. IndInv => SuccessIsReported
  BY DEF IndInv, TypeOK, ReplyFollowsStep, StepFacts, SuccessIsReported
<1> QED BY <1>1, Invariance, PTL

\* The loop is cancelled only after the reply of a successful upgrade, or by a
\* fake reboot.
THEOREM ReportSafety == Spec => []CancelledAfterReply
<1>1. IndInv => CancelledAfterReply
  BY DEF IndInv
<1> QED BY <1>1, Invariance, PTL

\* In a dry run the process ends by itself only after the fake reboot: neither an
\* upgrade nor an exit request ends it.
THEOREM DryExitSafety == Spec => []DryExitIsReboot
<1>1. Init => DryExitIsReboot
  BY DEF Init, DryExitIsReboot
<1>2. TypeOK /\ DryExitIsReboot /\ [Next]_vars => DryExitIsReboot'
  <2> SUFFICES ASSUME TypeOK, DryExitIsReboot, [Next]_vars
               PROVE  DryExitIsReboot'
    OBVIOUS
  <2>1. CASE MainPolls
    BY <2>1 DEF MainPolls, DryExitIsReboot
  <2>2. CASE MainWaits
    BY <2>2 DEF MainWaits, DryExitIsReboot
  <2>3. CASE FakeReboot
    BY <2>3 DEF FakeReboot, DryExitIsReboot
  <2>4. CASE UNCHANGED <<rebooted, dryRun>> /\ process' # "exited"
    BY <2>4 DEF DryExitIsReboot
  <2>5. CASE UNCHANGED <<rebooted, dryRun, process>>
    BY <2>5 DEF DryExitIsReboot
  <2>6. ASSUME NEW s \in Steps,
               \/ DiagnoseBefore(s) \/ CreateRunner(s) \/ TryAcquire(s)
               \/ DiagnoseAfter(s) \/ SendStepReply(s) \/ PostStepReply(s)
               \/ StoreInCache(s) \/ StepEnds(s) \/ RunCommand(s) \/ ExclusiveEnds(s)
               \/ DeliverLate(s)
        PROVE  UNCHANGED <<rebooted, dryRun, process>>
    BY <2>6, Zenon DEF DiagnoseBefore, CreateRunner, TryAcquire, DiagnoseAfter, SendStepReply,
         PostStepReply, StoreInCache, StepEnds, RunCommand, ExclusiveEnds, DeliverLate,
         loopVars, CanAcquire, AfterPost, RetriesLeft, Released
  <2>7. ASSUME \/ SessionFails
               \/ \E I \in SUBSET Steps, a \in {"continue", "exit"} : GetNextSteps(I, a)
               \/ \E n \in BOOLEAN : GetNextStepsFails(n)
               \/ BackoffElapsed \/ ContextDone \/ DelayElapsed
               \/ \E t \in StepTypes : CacheExpires(t)
               \/ UNCHANGED vars
        PROVE  UNCHANGED <<rebooted, dryRun>> /\ process' \in {process, "crashed"}
    BY <2>7 DEF SessionFails, ProcessEnds, GetNextSteps, GetNextStepsFails, BackoffElapsed,
         ContextDone, DelayElapsed, CacheExpires, loopVars, vars, AfterDelay
  <2> QED BY <2>1, <2>2, <2>3, <2>4, <2>5, <2>6, <2>7, NextCases
<1>3. IndInv => TypeOK
  BY DEF IndInv
<1> QED BY <1>1, <1>2, <1>3, Invariance, PTL DEF Spec

-----------------------------------------------------------------------------
(***************************************************************************)
(* StepProcessor implements StepReplies: what the service took and what    *)
(* was left out are the abstract variables themselves.                     *)
(***************************************************************************)

\* Every step of the process is a step of StepReplies or changes nothing there:
\* a repeated or late delivery repeats the reply the service already took.
LEMMA StepSimulation ==
  ASSUME IndInv, [Next]_vars
  PROVE  [SR!Next]_(SR!vars)
<1> USE DEF IndInv
<1>1. ASSUME NEW s \in Steps, Deliver(s), pc[s] = "post" \/ late[s] > 0,
             UNCHANGED suppressed
      PROVE  [SR!Next]_(SR!vars)
  <2>1. Reply(s) \in Replies
    BY Zenon DEF TypeOK, Reply, Replies
  <2>2. s \notin suppressed
    BY <1>1 DEF TypeOK, ReplyFollowsStep, StepFacts, SuppressedIsKnown
  <2>3. CASE taken[s] = None
    BY <1>1, <2>1, <2>2, <2>3, Zenon DEF SR!Next, SR!Take, Deliver
  <2>4. CASE taken[s] # None
    <3>1. taken' = taken
      BY <1>1, <2>4 DEF TypeOK, ReplyFollowsStep, StepFacts, Deliver
    <3> QED BY <1>1, <3>1 DEF SR!vars
  <2> QED BY <2>3, <2>4
<1>2. ASSUME NEW s \in Steps, suppressed' = suppressed \cup {s}, s \notin suppressed,
             taken[s] = None, code[s] = "ok",
             \E other \in Steps : taken[other] = Reply(s), UNCHANGED taken
      PROVE  SR!Next
  <2>1. Reply(s) \in Replies /\ Reply(s).code = "ok"
    BY <1>2 DEF TypeOK, Reply, Replies
  <2> QED BY <1>2, <2>1, Zenon DEF SR!Next, SR!Suppress
<1>3. CASE UNCHANGED <<taken, suppressed>>
  BY <1>3 DEF SR!vars
<1>4. \/ UNCHANGED suppressed
      \/ \E s \in Steps :
           /\ suppressed' = suppressed \cup {s} /\ s \notin suppressed
           /\ taken[s] = None /\ code[s] = "ok"
           /\ \E other \in Steps : taken[other] = Reply(s)
           /\ UNCHANGED taken
  BY SuppressedChanges
<1> QED BY <1>1, <1>2, <1>3, <1>4, TakenChanges, Zenon

\* The replies the service gets from the process are those StepReplies promises.
THEOREM Refinement == Spec => RepliesAsPromised
<1>1. Init => SR!Init
  BY DEF Init, Fresh, SR!Init
<1>2. IndInv /\ [Next]_vars => [SR!Next]_(SR!vars)
  BY StepSimulation
<1> QED BY <1>1, <1>2, Invariance, PTL DEF Spec, RepliesAsPromised, SR!Spec
-----------------------------------------------------------------------------
(***************************************************************************)
(* The agent: what holds of one next step runner holds of the host across  *)
(* restarts of the runner and of the agent.                                *)
(***************************************************************************)
\* A step of the agent that leaves the runner's memory and the service alone
\* keeps the inductive invariant of the runner.
LEMMA AgentStepKeepsIndInv ==
  ASSUME IndInv,
         UNCHANGED <<rebooted, dryRun, pc, attempt, cache, held, stepVars, serviceVars>>,
         loop' \in {"query", loop}, tries' \in {0, tries}, exit' \in {FALSE, exit},
         cancelled' \in {FALSE, cancelled},
         process' \in {"absent", "running", process}
  PROVE  IndInv'
<1> USE DEF IndInv, stepVars, serviceVars
<1>1. TypeOK'
  <2>1. tries' \in 0..MaxTries
    BY BoundsAssumption DEF TypeOK
  <2>2. exit' \in BOOLEAN /\ cancelled' \in BOOLEAN /\ rebooted' \in BOOLEAN
    BY Zenon DEF TypeOK
  <2>3. /\ loop' \in {"query", "backoff", "select", "frozen", "returned"}
        /\ process' \in {"absent", "running", "exited", "crashed"}
    BY DEF TypeOK
  <2> QED BY <2>1, <2>2, <2>3 DEF TypeOK
<1>2. ReplyFollowsStep'
  BY DEF ReplyFollowsStep, StepFacts, Reply, requiresRestart
<1>3. CacheIsAcknowledged' /\ SuppressedIsKnown'
  BY Zenon DEF CacheIsAcknowledged, SuppressedIsKnown, Reply
<1>4. SemaphoreInv'
  BY SemaphoreUntouched
<1>5. CancelledAfterReply'
  BY Zenon DEF CancelledAfterReply, requiresRestart
<1> QED BY <1>1, <1>2, <1>3, <1>4, <1>5

\* The death of the runner keeps the invariant, as its own end does.
LEMMA RunnerDiesKeepsIndInv ==
  ASSUME IndInv, RunnerDies
  PROVE  IndInv'
<1> USE DEF IndInv, RunnerDies
<1>0. /\ \A s \in Steps : pc'[s] # "exclusive" /\ (pc[s] = "done" => pc'[s] = "done")
      /\ \A t \in StepTypes : cache'[t] = None
      /\ \A t \in ExclusiveTypes : held'[t] = FALSE
      /\ UNCHANGED <<stepType, output, code, succeeded, taken, late, suppressed>>
      /\ UNCHANGED <<cancelled, dryRun, rebooted>>
  BY DEF ProcessEnds, MemoryLost, stepVars, serviceVars
<1>1. TypeOK'
  BY DEF TypeOK, ProcessEnds, stepVars, serviceVars, ExclusiveTypes, MemoryLost
<1>2. ReplyFollowsStep'
  BY StepsAtProcessEnd
<1>3. CacheIsAcknowledged'
  BY ONLY <1>0, Zenon DEF CacheIsAcknowledged
<1>4. SuppressedIsKnown'
  <2>1. SuppressedIsKnown
    OBVIOUS
  <2> QED
    BY ONLY <1>0, <2>1, Zenon DEF SuppressedIsKnown, Reply
<1>5. SemaphoreInv'
  BY ONLY <1>0, Zenon DEF SemaphoreInv, OneExclusiveCommand, SemaphoreNotLeaked, HoldsSemaphore
<1>6. CancelledAfterReply'
  <2>1. CancelledAfterReply
    OBVIOUS
  <2> QED
    BY ONLY <1>0, <2>1, Zenon DEF CancelledAfterReply, requiresRestart
<1> QED BY <1>1, <1>2, <1>3, <1>4, <1>5, <1>6

\* What an agent's own step does to the runner: when the agent starts one, there
\* is no memory of an earlier one to lose.
LEMMA AgentStepCases ==
  ASSUME TypeOK, NothingLeftBehind, AgentProgress \/ ContainerRemoved \/ AgentRestarts
  PROVE  /\ UNCHANGED <<rebooted, dryRun, pc, attempt, cache, held, stepVars, serviceVars>>
         /\ loop' \in {"query", loop} /\ tries' \in {0, tries}
         /\ exit' \in {FALSE, exit} /\ cancelled' \in {FALSE, cancelled}
         /\ process' \in {"absent", "running", process}
         /\ process' = "running" \/ process # "running"
<1>1. CASE UNCHANGED vars
  BY <1>1 DEF vars, stepVars, serviceVars
<1>2. CASE RunNextStepRunner
  <2>1. PICK p \in UNION {cleanupPrevious(q) : q \in cleanupPrevious(process)} :
          \/ /\ p = "absent"
             /\ process' = "running" /\ MemoryLost
             /\ loop' = "query" /\ tries' = 0 /\ exit' = FALSE /\ cancelled' = FALSE
          \/ /\ process' = p
             /\ UNCHANGED <<loop, tries, exit, cancelled, pc, cache, held>>
    BY <1>2, Zenon DEF RunNextStepRunner
  <2>2. p \in {"absent", process} /\ (process = "running" => p = "running")
    BY DEF cleanupPrevious
  <2>3. ASSUME MemoryLost, process # "running"
        PROVE  UNCHANGED <<pc, cache, held>>
    BY <2>3 DEF MemoryLost, NothingLeftBehind, Running, TypeOK
  <2> QED BY <1>2, <2>1, <2>2, <2>3, Zenon DEF RunNextStepRunner
<1>3. CASE NextStepRunnerEnds \/ ContainerRemoved
  BY <1>3, Zenon DEF NextStepRunnerEnds, ContainerRemoved, runnerVars
<1> QED BY <1>1, <1>2, <1>3 DEF AgentProgress, RegisterFails, RegisterHostWithRetry,
          SleepElapsed, CreateNextStepRunner, AgentRestarts

\* A step of the runner's own process: it is running, and leaves nothing behind
\* if it ends, or its memory does not change at all.
LEMMA RunnerStepMemory ==
  ASSUME Next
  PROVE  \/ UNCHANGED <<pc, cache, held, process>>
         \/ Running /\ UNCHANGED process
         \/ /\ Running
            /\ ProcessEnds("exited") \/ ProcessEnds("crashed")
<1>1. ASSUME NEW s \in Steps,
             \/ DiagnoseBefore(s) \/ CreateRunner(s) \/ TryAcquire(s)
             \/ DiagnoseAfter(s) \/ SendStepReply(s) \/ PostStepReply(s)
             \/ StoreInCache(s) \/ StepEnds(s) \/ RunCommand(s) \/ ExclusiveEnds(s)
      PROVE  Running /\ UNCHANGED process
  BY <1>1, Zenon DEF DiagnoseBefore, CreateRunner, TryAcquire, DiagnoseAfter, SendStepReply,
       PostStepReply, StoreInCache, StepEnds, RunCommand, ExclusiveEnds, loopVars,
          CanAcquire, AfterPost, RetriesLeft, Released
<1>2. ASSUME \/ \E s \in Steps : DeliverLate(s)
             \/ FakeReboot
      PROVE  UNCHANGED <<pc, cache, held, process>>
  BY <1>2 DEF DeliverLate, FakeReboot, loopVars
<1>3. ASSUME SessionFails \/ MainWaits \/ MainPolls
      PROVE  Running /\ (ProcessEnds("exited") \/ ProcessEnds("crashed"))
  BY <1>3 DEF SessionFails, MainWaits, MainPolls
<1>4. ASSUME \/ \E I \in SUBSET Steps, a \in {"continue", "exit"} : GetNextSteps(I, a)
             \/ \E n \in BOOLEAN : GetNextStepsFails(n)
             \/ BackoffElapsed \/ ContextDone \/ DelayElapsed
             \/ \E t \in StepTypes : CacheExpires(t)
      PROVE  Running /\ UNCHANGED process
  BY <1>4 DEF GetNextSteps, GetNextStepsFails, BackoffElapsed, ContextDone,
       DelayElapsed, CacheExpires, loopVars,
          AfterDelay
<1> QED BY <1>1, <1>2, <1>3, <1>4, NextCases

\* The invariant of the host: between two runners nothing of the first is left.
HostInv == IndInv /\ NothingLeftBehind

\* Every step of the host keeps its invariant.
LEMMA HostStep == HostInv /\ [AgentNext]_agentVars => HostInv'
<1> SUFFICES ASSUME IndInv, NothingLeftBehind, [AgentNext]_agentVars
             PROVE  IndInv' /\ NothingLeftBehind'
  BY DEF HostInv
<1>1. TypeOK
  BY DEF IndInv
<1>2. ASSUME ProcessEnds("exited") \/ ProcessEnds("crashed")
      PROVE  NothingLeftBehind'
  BY <1>2 DEF NothingLeftBehind, ProcessEnds, MemoryLost
<1>3. ASSUME UNCHANGED <<pc, cache, held>>, process' = "running" \/ process # "running"
      PROVE  NothingLeftBehind'
  BY <1>3 DEF NothingLeftBehind, Running
<1>4. CASE RunnerProgress
  <2>1. IndInv'
    BY <1>4, NextIndInv DEF RunnerProgress
  <2>2. NothingLeftBehind'
    BY <1>2, <1>3, <1>4, RunnerStepMemory DEF RunnerProgress, Running, NothingLeftBehind
  <2> QED BY <2>1, <2>2
<1>5. CASE AgentProgress \/ ContainerRemoved \/ AgentRestarts
  BY <1>1, <1>3, <1>5, AgentStepCases, AgentStepKeepsIndInv, Zenon
<1>6. CASE RunnerDies
  BY <1>2, <1>6, RunnerDiesKeepsIndInv DEF RunnerDies
<1>7. CASE UNCHANGED agentVars
  <2>1. UNCHANGED vars
    BY <1>7 DEF agentVars
  <2>2. UNCHANGED <<pc, cache, held, process>>
    BY <2>1 DEF vars
  <2> QED BY <1>3, <2>1, <2>2, NextIndInv DEF NothingLeftBehind, Running
<1> QED BY <1>4, <1>5, <1>6, <1>7 DEF AgentNext

\* The invariant of the runner holds on the host across all restarts.
THEOREM HostInvariance == AgentSpec => []HostInv
<1>1. AgentInit => IndInv
  BY InitIndInv DEF AgentInit
<1>2. AgentInit => NothingLeftBehind
  BY DEF AgentInit, Fresh, NothingLeftBehind
<1> QED BY <1>1, <1>2, HostStep, PTL DEF AgentSpec, HostInv

\* Between two runners nothing of the first is left: every way a runner ends
\* clears its memory, and nothing fills it before the next one starts.
THEOREM RunnerStartsFromNothing == AgentSpec => []NothingLeftBehind
<1>1. HostInv => NothingLeftBehind
  BY DEF HostInv
<1> QED BY <1>1, HostInvariance, PTL

\* The cache of whichever runner is at work holds only what the service took,
\* and only known replies are left out, also after crashes and restarts.
THEOREM AgentCacheSafety == AgentSpec => [](CacheIsAcknowledged /\ SuppressedIsKnown)
<1>1. HostInv => CacheIsAcknowledged /\ SuppressedIsKnown
  BY DEF HostInv, IndInv
<1> QED BY <1>1, HostInvariance, PTL

\* The agent's state and the runner's keep their types.
THEOREM AgentTypeCorrectness == AgentSpec => []AgentTypeOK
<1> DEFINE AgentStates == {"register", "retry", "sleep", "create", "start", "wait",
                           "frozen", "stopped", "crashed"}
<1>1. AgentInit => agent \in AgentStates
  BY DEF AgentInit
<1>2. agent \in AgentStates /\ [AgentNext]_agentVars => (agent \in AgentStates)'
  BY DEF AgentNext, agentVars, RunnerProgress, AgentProgress, ContainerRemoved,
         RunnerDies, AgentRestarts, RegisterFails, RegisterHostWithRetry,
         AfterRegister, SleepElapsed, CreateNextStepRunner, RunNextStepRunner,
         NextStepRunnerEnds,
          MemoryLost
<1>3. HostInv /\ agent \in AgentStates => AgentTypeOK
  BY DEF HostInv, IndInv, AgentTypeOK
<1> QED BY <1>1, <1>2, <1>3, HostInvariance, PTL DEF AgentSpec

-----------------------------------------------------------------------------
\* Every step of the host is a step of StepReplies or changes nothing there.
LEMMA AgentStepSimulation ==
  ASSUME HostInv, [AgentNext]_agentVars
  PROVE  [SR!Next]_(SR!vars)
<1>1. CASE RunnerProgress
  BY <1>1, StepSimulation DEF RunnerProgress, HostInv
<1>2. CASE AgentProgress \/ ContainerRemoved \/ AgentRestarts \/ RunnerDies
           \/ UNCHANGED agentVars
  <2>1. UNCHANGED <<taken, suppressed>>
    BY <1>2, AgentStepCases, ZenonT(20) DEF HostInv, IndInv, RunnerDies, serviceVars, agentVars, vars
  <2> QED BY <2>1 DEF SR!vars
<1> QED BY <1>1, <1>2 DEF AgentNext

\* The promise to the service is kept across restarts of runner and agent.
THEOREM AgentRefinement == AgentSpec => RepliesAsPromised
<1>1. AgentInit => SR!Init
  BY DEF AgentInit, Fresh, SR!Init
<1>2. HostInv /\ [AgentNext]_agentVars => [SR!Next]_(SR!vars)
  BY AgentStepSimulation
<1> QED BY <1>1, <1>2, HostInvariance, PTL DEF AgentSpec, RepliesAsPromised, SR!Spec

-----------------------------------------------------------------------------
\* A goroutine of the runner dies only with the runner's process.
LEMMA DeadOnlyAtEnd ==
  ASSUME TypeOK, Next, NEW s \in Steps, pc[s] # "dead", pc'[s] = "dead"
  PROVE  process' \in {"exited", "crashed"}
<1>1. ASSUME NEW r \in Steps,
             \/ DiagnoseBefore(r) \/ CreateRunner(r) \/ TryAcquire(r)
             \/ DiagnoseAfter(r) \/ SendStepReply(r) \/ PostStepReply(r)
             \/ StoreInCache(r) \/ StepEnds(r) \/ RunCommand(r) \/ ExclusiveEnds(r)
             \/ DeliverLate(r)
      PROVE  FALSE
  BY <1>1, Zenon DEF TypeOK, DiagnoseBefore, CreateRunner, TryAcquire, DiagnoseAfter,
       SendStepReply, PostStepReply, StoreInCache, StepEnds, RunCommand,
       ExclusiveEnds, DeliverLate, Finished, AfterCommand, AfterPost
<1>2. ASSUME NEW I \in SUBSET Steps, NEW a \in {"continue", "exit"}, GetNextSteps(I, a)
      PROVE  FALSE
  BY <1>2 DEF GetNextSteps
<1>3. ASSUME \/ \E n \in BOOLEAN : GetNextStepsFails(n)
             \/ BackoffElapsed \/ ContextDone \/ DelayElapsed \/ FakeReboot
             \/ \E t \in StepTypes : CacheExpires(t)
      PROVE  FALSE
  BY <1>3 DEF GetNextStepsFails, BackoffElapsed, ContextDone, DelayElapsed,
       FakeReboot, CacheExpires
<1>4. ASSUME SessionFails \/ MainWaits \/ MainPolls
      PROVE  process' \in {"exited", "crashed"}
  BY <1>4 DEF SessionFails, MainWaits, MainPolls, ProcessEnds
<1> QED BY <1>1, <1>2, <1>3, <1>4, NextCases, Zenon

\* The agent never replaces a live runner: the container name and the unforced
\* cleanup see to it, also after the agent itself was restarted.
THEOREM LiveRunnerIsKept == AgentSpec => StepsDieWithRunner
<1> DEFINE Kept == \A s \in Steps :
                     pc[s] # "dead" /\ pc'[s] = "dead" => process' \in {"exited", "crashed"}
<1>1. HostInv /\ [AgentNext]_agentVars => [Kept]_agentVars
  <2> SUFFICES ASSUME HostInv, AgentNext, NEW s \in Steps, pc[s] # "dead", pc'[s] = "dead"
               PROVE  process' \in {"exited", "crashed"}
    OBVIOUS
  <2>1. TypeOK /\ NothingLeftBehind
    BY DEF HostInv, IndInv
  <2>2. CASE RunnerProgress
    BY <2>1, <2>2, DeadOnlyAtEnd DEF RunnerProgress
  <2>3. CASE AgentProgress \/ ContainerRemoved \/ AgentRestarts
    BY <2>1, <2>3, AgentStepCases, Zenon
  <2>4. CASE RunnerDies
    BY <2>4 DEF RunnerDies, ProcessEnds
  <2> QED BY <2>2, <2>3, <2>4 DEF AgentNext
<1> QED BY <1>1, HostInvariance, PTL DEF AgentSpec, StepsDieWithRunner
=============================================================================
