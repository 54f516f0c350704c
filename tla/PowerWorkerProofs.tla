------------------------- MODULE PowerWorkerProofs -------------------------
(***************************************************************************)
(* Theorems about PowerWorker, for any number of jobs and requests and     *)
(* every mode: type correctness and the slot, cancellation and terminal    *)
(* invariants; that each step of the Worker's threads is a step of the     *)
(* asynchronous job contract AsyncJobs or changes nothing of it; and what  *)
(* a Worker that ends has done and says.                                   *)
(***************************************************************************)
EXTENDS PowerWorker, SequenceTheorems, TLAPS

\* The runner has a job from taking it until the section that releases it.
JobInHand == runnerPc \in Running \cup {"finish"} => job \in Jobs

\* A handler thread answers once, when it is done.
AnswerLast ==
    \A r \in Requests : handlerPc[r] \in {"idle", "lock", "emit"} => answer[r] = "none"

\* A request that has not entered its locked section is no job yet.
UnseenJobs ==
    \A j \in Jobs : handlerPc[j] \in {"idle", "lock"} =>
        /\ j \notin {nextJob, job, activeJob.job, pendingTerminal.job, terminalEvent.job}
        /\ finished[j] = << >>

\* Where the terminal of the current job is: nowhere, pending, or taken.
TerminalPlace ==
    /\ IF runnerPc = "finish" THEN pendingTerminal \in Terminals /\ pendingTerminal.job = job
                              ELSE pendingTerminal = NoTerminal
    /\ IF runnerPc = "announce" THEN terminalEvent \in Terminals /\ terminalEvent.job # nextJob
                                ELSE terminalEvent = NoTerminal

TypeInv == TypeOK /\ JobInHand

IInv ==
    /\ TypeInv
    /\ SingleSlot
    /\ TerminalPlace
    /\ AtMostOneFinished
    /\ AnswerLast
    /\ CancelScope
    /\ UnseenJobs

-----------------------------------------------------------------------------
\* Every variable starts with its type.
LEMMA TypeInit == Init => TypeInv
<1> USE RequestsAssumption, ModeAssumption DEF RequestsAssumption, ModeAssumption, Requests
<1> SUFFICES ASSUME Init PROVE TypeInv
  OBVIOUS
<1>1. StateTypeOK
  BY DEF Init, StateTypeOK
<1>2. HandlerTypeOK
  BY DEF Init, HandlerTypeOK, Answers
<1>3. RunnerTypeOK /\ MainTypeOK /\ JobInHand
  BY DEF Init, RunnerTypeOK, MainTypeOK, RunnerPcs, MainPcs, JobInHand, Running
<1>4. OutputTypeOK
  BY DEF Init, OutputTypeOK
<1> QED
  BY <1>1, <1>2, <1>3, <1>4 DEF TypeInv, TypeOK

\* Every step keeps the types.
LEMMA TypeStep == TypeInv /\ [Next]_vars => TypeInv'
<1> USE RequestsAssumption, ModeAssumption DEF RequestsAssumption, ModeAssumption, Requests
<1> SUFFICES ASSUME TypeInv, [Next]_vars PROVE TypeInv'
  OBVIOUS
<1>0. StateTypeOK /\ HandlerTypeOK /\ RunnerTypeOK /\ MainTypeOK /\ OutputTypeOK /\ JobInHand
  BY DEF TypeInv, TypeOK
<1> USE <1>0
<1>1. ASSUME NEW r \in Requests, Arrive(r) PROVE TypeInv'
  <2>1. HandlerTypeOK'
    BY <1>1 DEF Arrive, Goto, HandlerTypeOK
  <2>2. StateTypeOK' /\ RunnerTypeOK' /\ MainTypeOK' /\ OutputTypeOK'
    BY <1>1 DEF Arrive, stateVars, runnerVars, mainVars, outputVars, StateTypeOK, RunnerTypeOK, MainTypeOK, OutputTypeOK
  <2>3. JobInHand'
    BY <1>1 DEF Arrive, StateTypeOK, JobInHand, Running, stateVars, runnerVars
  <2> QED
    BY <2>1, <2>2, <2>3 DEF TypeInv, TypeOK
<1>2. ASSUME NEW r \in Requests, HandleStop(r) PROVE TypeInv'
  <2>1. StateTypeOK'
    BY <1>2 DEF HandleStop, StateTypeOK
  <2>2. HandlerTypeOK'
    BY <1>2 DEF HandleStop, Goto, HandlerTypeOK
  <2>3. RunnerTypeOK' /\ MainTypeOK' /\ OutputTypeOK'
    BY <1>2 DEF HandleStop, runnerVars, mainVars, outputVars, RunnerTypeOK, MainTypeOK, OutputTypeOK
  <2>4. JobInHand'
    BY <1>2 DEF HandleStop, StateTypeOK, JobInHand, Running, stateVars, runnerVars
  <2> QED
    BY <2>1, <2>2, <2>3, <2>4 DEF TypeInv, TypeOK
<1>3. ASSUME NEW r \in Requests, HandleCancel(r) PROVE TypeInv'
  <2>1. StateTypeOK'
    BY <1>3 DEF HandleCancel, CancelNamesActive, StateTypeOK, ActiveJobs, NoActive
  <2>2. HandlerTypeOK'
    BY <1>3 DEF HandleCancel, Goto, HandlerTypeOK
  <2>3. RunnerTypeOK' /\ MainTypeOK' /\ OutputTypeOK'
    BY <1>3 DEF HandleCancel, runnerVars, mainVars, outputVars, RunnerTypeOK, MainTypeOK, OutputTypeOK
  <2>4. JobInHand'
    BY <1>3 DEF HandleCancel, StateTypeOK, JobInHand, Running, stateVars, runnerVars
  <2> QED
    BY <2>1, <2>2, <2>3, <2>4 DEF TypeInv, TypeOK
<1>4. ASSUME NEW r \in Requests, RejectCancel(r) PROVE TypeInv'
  <2>1. HandlerTypeOK'
    BY <1>4 DEF RejectCancel, Reply, HandlerTypeOK, Answers
  <2>2. StateTypeOK' /\ RunnerTypeOK' /\ MainTypeOK' /\ OutputTypeOK'
    BY <1>4 DEF RejectCancel, stateVars, runnerVars, mainVars, outputVars, StateTypeOK, RunnerTypeOK, MainTypeOK, OutputTypeOK
  <2>3. JobInHand'
    BY <1>4 DEF RejectCancel, StateTypeOK, JobInHand, Running, stateVars, runnerVars
  <2> QED
    BY <2>1, <2>2, <2>3 DEF TypeInv, TypeOK
<1>5. ASSUME NEW r \in Requests, RejectCommand(r) PROVE TypeInv'
  <2>1. HandlerTypeOK'
    BY <1>5 DEF RejectCommand, Reply, HandlerTypeOK, Answers
  <2>2. StateTypeOK' /\ RunnerTypeOK' /\ MainTypeOK' /\ OutputTypeOK'
    BY <1>5 DEF RejectCommand, stateVars, runnerVars, mainVars, outputVars, StateTypeOK, RunnerTypeOK, MainTypeOK, OutputTypeOK
  <2>3. JobInHand'
    BY <1>5 DEF RejectCommand, StateTypeOK, JobInHand, Running, stateVars, runnerVars
  <2> QED
    BY <2>1, <2>2, <2>3 DEF TypeInv, TypeOK
<1>6. ASSUME NEW r \in Requests, AcceptCommand(r) PROVE TypeInv'
  <2>1. StateTypeOK'
    BY <1>6 DEF AcceptCommand, QueuedJob, StateTypeOK, ActiveJobs
  <2>2. HandlerTypeOK'
    BY <1>6 DEF AcceptCommand, Goto, HandlerTypeOK
  <2>3. MainTypeOK'
    BY <1>6 DEF AcceptCommand, MainMeanwhile, MainTypeOK, MainPcs
  <2>4. RunnerTypeOK' /\ OutputTypeOK'
    BY <1>6 DEF AcceptCommand, runnerVars, outputVars, RunnerTypeOK, OutputTypeOK
  <2>5. JobInHand'
    BY <1>6 DEF AcceptCommand, StateTypeOK, JobInHand, Running, stateVars, runnerVars
  <2> QED
    BY <2>1, <2>2, <2>3, <2>4, <2>5 DEF TypeInv, TypeOK
<1>7. ASSUME NEW r \in Requests, EmitThenReply(r) PROVE TypeInv'
  <2>1. HandlerTypeOK'
    BY <1>7 DEF EmitThenReply, Reply, HandlerTypeOK, Answers
  <2>2. StateTypeOK' /\ RunnerTypeOK' /\ MainTypeOK' /\ OutputTypeOK'
    BY <1>7 DEF EmitThenReply, stateVars, runnerVars, mainVars, outputVars, StateTypeOK, RunnerTypeOK, MainTypeOK, OutputTypeOK
  <2>3. JobInHand'
    BY <1>7 DEF EmitThenReply, StateTypeOK, JobInHand, Running, stateVars, runnerVars
  <2> QED
    BY <2>1, <2>2, <2>3 DEF TypeInv, TypeOK
<1>8. CASE RunnerLeave
  <2>1. RunnerTypeOK'
    BY <1>8 DEF RunnerLeave, RunnerTypeOK, RunnerPcs
  <2>2. StateTypeOK' /\ HandlerTypeOK' /\ MainTypeOK' /\ OutputTypeOK'
    BY <1>8 DEF RunnerLeave, stateVars, handlerVars, mainVars, outputVars, StateTypeOK, HandlerTypeOK, MainTypeOK, OutputTypeOK
  <2>3. JobInHand'
    BY <1>8 DEF RunnerLeave, StateTypeOK, JobInHand, Running, stateVars, runnerVars
  <2> QED
    BY <2>1, <2>2, <2>3 DEF TypeInv, TypeOK
<1>9. CASE RunnerDrain
  <2>1. StateTypeOK'
    BY <1>9 DEF RunnerDrain, RequestShutdown, StateTypeOK
  <2>2. RunnerTypeOK'
    BY <1>9 DEF RunnerDrain, RunnerTypeOK, RunnerPcs
  <2>3. MainTypeOK'
    BY <1>9 DEF RunnerDrain, RequestShutdown, MainMeanwhile, MainTypeOK, MainPcs
  <2>4. OutputTypeOK'
    BY <1>9 DEF RunnerDrain, RequestShutdown, EmitWorker, OutputTypeOK, WorkerEvents
  <2>5. HandlerTypeOK'
    BY <1>9 DEF RunnerDrain, handlerVars, HandlerTypeOK
  <2>6. JobInHand'
    BY <1>9 DEF RunnerDrain, StateTypeOK, JobInHand, Running, stateVars, runnerVars
  <2> QED
    BY <2>1, <2>2, <2>3, <2>4, <2>5, <2>6 DEF TypeInv, TypeOK
<1>10. CASE RunnerTake
  <2>1. StateTypeOK'
    BY <1>10 DEF RunnerTake, StateTypeOK
  <2>2. RunnerTypeOK'
    BY <1>10 DEF RunnerTake, StateTypeOK, RunnerTypeOK, RunnerPcs
  <2>3. HandlerTypeOK' /\ MainTypeOK' /\ OutputTypeOK'
    BY <1>10 DEF RunnerTake, handlerVars, mainVars, outputVars, HandlerTypeOK, MainTypeOK, OutputTypeOK
  <2>4. JobInHand'
    BY <1>10 DEF RunnerTake, StateTypeOK, JobInHand, Running, stateVars, runnerVars
  <2> QED
    BY <2>1, <2>2, <2>3, <2>4 DEF TypeInv, TypeOK
<1>11. CASE RunnerBegin
  <2>1. StateTypeOK'
    BY <1>11 DEF RunnerBegin, StateTypeOK, ActiveJobs, NoActive, JobInHand, Running
  <2>2. RunnerTypeOK'
    BY <1>11 DEF RunnerBegin, RunnerTypeOK, RunnerPcs
  <2>3. HandlerTypeOK' /\ MainTypeOK' /\ OutputTypeOK'
    BY <1>11 DEF RunnerBegin, handlerVars, mainVars, outputVars, HandlerTypeOK, MainTypeOK, OutputTypeOK
  <2>4. JobInHand'
    BY <1>11 DEF RunnerBegin, StateTypeOK, JobInHand, Running, stateVars, runnerVars
  <2> QED
    BY <2>1, <2>2, <2>3, <2>4 DEF TypeInv, TypeOK
<1>12. ASSUME NEW r \in CoreResults, NEW opened \in BOOLEAN, RunnerCore(r, opened) PROVE TypeInv'
  <2>1. RunnerTypeOK'
    BY <1>12 DEF RunnerCore, RunnerTypeOK, RunnerPcs
  <2>2. StateTypeOK' /\ HandlerTypeOK' /\ MainTypeOK' /\ OutputTypeOK'
    BY <1>12 DEF RunnerCore, stateVars, handlerVars, mainVars, outputVars, StateTypeOK, HandlerTypeOK, MainTypeOK, OutputTypeOK
  <2>3. JobInHand'
    BY <1>12 DEF RunnerCore, StateTypeOK, JobInHand, Running, stateVars, runnerVars
  <2> QED
    BY <2>1, <2>2, <2>3 DEF TypeInv, TypeOK
<1>13. ASSUME NEW ok \in BOOLEAN, RunnerSafeOff(ok) PROVE TypeInv'
  <2>1. StateTypeOK'
    <3>1. /\ status' \in {status, "error"} /\ fatalError' \in BOOLEAN
          /\ cleanupResults' \in BOOLEAN /\ cleanupFailed' \in BOOLEAN
      BY <1>13 DEF RunnerSafeOff, RecordCleanup, StateTypeOK
    <3> QED
      BY <1>13, <3>1 DEF RunnerSafeOff, StateTypeOK
  <2>2. RunnerTypeOK'
    BY <1>13 DEF RunnerSafeOff, RunnerTypeOK, RunnerPcs, CoreResults
  <2>3. OutputTypeOK'
    BY <1>13 DEF RunnerSafeOff, OutputTypeOK, JobInHand, Running, outputVars
  <2>4. HandlerTypeOK' /\ MainTypeOK'
    BY <1>13 DEF RunnerSafeOff, handlerVars, mainVars, HandlerTypeOK, MainTypeOK
  <2>5. JobInHand'
    BY <1>13 DEF RunnerSafeOff, StateTypeOK, JobInHand, Running, stateVars, runnerVars
  <2> QED
    BY <2>1, <2>2, <2>3, <2>4, <2>5 DEF TypeInv, TypeOK
<1>14. ASSUME NEW ok \in BOOLEAN, RunnerCloseSession(ok) PROVE TypeInv'
  <2>1. StateTypeOK'
    <3>1. /\ status' \in {status, "error"} /\ fatalError' \in BOOLEAN
          /\ cleanupResults' \in BOOLEAN /\ cleanupFailed' \in BOOLEAN
      <4>1. CASE StopCleanupDue
        BY <1>14, <4>1 DEF RunnerCloseSession, RecordCleanup, StateTypeOK
      <4>2. CASE ~StopCleanupDue
        BY <1>14, <4>2 DEF RunnerCloseSession, StateTypeOK
      <4> QED
        BY <4>1, <4>2
    <3> QED
      BY <1>14, <3>1 DEF RunnerCloseSession, StateTypeOK
  <2>2. RunnerTypeOK'
    BY <1>14 DEF RunnerCloseSession, RunnerTypeOK, RunnerPcs, CoreResults
  <2>3. HandlerTypeOK' /\ MainTypeOK' /\ OutputTypeOK'
    BY <1>14 DEF RunnerCloseSession, handlerVars, mainVars, outputVars, HandlerTypeOK, MainTypeOK, OutputTypeOK
  <2>4. JobInHand'
    BY <1>14 DEF RunnerCloseSession, StateTypeOK, JobInHand, Running, stateVars, runnerVars
  <2> QED
    BY <2>1, <2>2, <2>3, <2>4 DEF TypeInv, TypeOK
<1>15. CASE RunnerCheckLate
  <2>1. RunnerTypeOK'
    BY <1>15 DEF RunnerCheckLate, LateResult, RunnerTypeOK, RunnerPcs, CoreResults
  <2>2. StateTypeOK' /\ HandlerTypeOK' /\ MainTypeOK' /\ OutputTypeOK'
    BY <1>15 DEF RunnerCheckLate, stateVars, handlerVars, mainVars, outputVars, StateTypeOK, HandlerTypeOK, MainTypeOK, OutputTypeOK
  <2>3. JobInHand'
    BY <1>15 DEF RunnerCheckLate, StateTypeOK, JobInHand, Running, stateVars, runnerVars
  <2> QED
    BY <2>1, <2>2, <2>3 DEF TypeInv, TypeOK
<1>16. CASE RunnerClassify
  <2>1. RunnerTypeOK'
    BY <1>16 DEF RunnerClassify, Classified, RunnerTypeOK, RunnerPcs, Outcomes
  <2>2. StateTypeOK' /\ HandlerTypeOK' /\ MainTypeOK' /\ OutputTypeOK'
    BY <1>16 DEF RunnerClassify, stateVars, handlerVars, mainVars, outputVars, StateTypeOK, HandlerTypeOK, MainTypeOK, OutputTypeOK
  <2>3. JobInHand'
    BY <1>16 DEF RunnerClassify, StateTypeOK, JobInHand, Running, stateVars, runnerVars
  <2> QED
    BY <2>1, <2>2, <2>3 DEF TypeInv, TypeOK
<1>17. ASSUME NEW o \in Outcomes, RunnerPublish(o) PROVE TypeInv'
  <2>1. StateTypeOK'
    BY <1>17 DEF RunnerPublish, Terminal, Terminals, StateTypeOK, JobInHand, Running
  <2>2. RunnerTypeOK'
    BY <1>17 DEF RunnerPublish, RunnerTypeOK, RunnerPcs
  <2>3. HandlerTypeOK' /\ MainTypeOK' /\ OutputTypeOK'
    BY <1>17 DEF RunnerPublish, handlerVars, mainVars, outputVars, HandlerTypeOK, MainTypeOK, OutputTypeOK
  <2>4. JobInHand'
    BY <1>17 DEF RunnerPublish, StateTypeOK, JobInHand, Running, stateVars, runnerVars
  <2> QED
    BY <2>1, <2>2, <2>3, <2>4 DEF TypeInv, TypeOK
<1>18. CASE RunnerFails
  <2>1. StateTypeOK'
    BY <1>18 DEF RunnerFails, Terminals, Outcomes, StateTypeOK, JobInHand, Running
  <2>2. RunnerTypeOK'
    BY <1>18 DEF RunnerFails, RunnerTypeOK, RunnerPcs
  <2>3. HandlerTypeOK' /\ MainTypeOK' /\ OutputTypeOK'
    BY <1>18 DEF RunnerFails, handlerVars, mainVars, outputVars, HandlerTypeOK, MainTypeOK, OutputTypeOK
  <2>4. JobInHand'
    BY <1>18 DEF RunnerFails, StateTypeOK, JobInHand, Running, stateVars, runnerVars
  <2> QED
    BY <2>1, <2>2, <2>3, <2>4 DEF TypeInv, TypeOK
<1>19. CASE RunnerFinish
  <2>1. StateTypeOK'
    BY <1>19 DEF RunnerFinish, StatusAfterJob, PendingAfterJob, StateTypeOK
  <2>2. RunnerTypeOK'
    BY <1>19 DEF RunnerFinish, StateTypeOK, RunnerTypeOK, RunnerPcs
  <2>3. MainTypeOK'
    BY <1>19 DEF RunnerFinish, MainMeanwhile, MainTypeOK, MainPcs
  <2>4. HandlerTypeOK' /\ OutputTypeOK'
    BY <1>19 DEF RunnerFinish, handlerVars, outputVars, HandlerTypeOK, OutputTypeOK
  <2>5. JobInHand'
    BY <1>19 DEF RunnerFinish, StateTypeOK, JobInHand, Running, stateVars, runnerVars
  <2> QED
    BY <2>1, <2>2, <2>3, <2>4, <2>5 DEF TypeInv, TypeOK
<1>20. CASE RunnerAnnounce
  <2>1. RunnerTypeOK'
    BY <1>20 DEF RunnerAnnounce, RunnerTypeOK, RunnerPcs
  <2>2. OutputTypeOK'
    <3>1. workerEvents' \in Seq(WorkerEvents) /\ safeOff' \subseteq Jobs
      BY <1>20 DEF RunnerAnnounce, OutputTypeOK
    <3>2. finished' = [finished EXCEPT ![terminalEvent.job] = Append(@, terminalEvent.outcome)]
      BY <1>20 DEF RunnerAnnounce, EmitFinished
    <3>3. CASE terminalEvent = NoTerminal
      <4>1. terminalEvent.job \notin Jobs
        BY <3>3 DEF NoTerminal
      <4>2. finished' = finished
        BY <3>2, <4>1 DEF OutputTypeOK
      <4> QED
        BY <3>1, <4>2 DEF OutputTypeOK
    <3>4. CASE terminalEvent \in Terminals
      <4>1. terminalEvent.job \in Jobs /\ terminalEvent.outcome \in Outcomes
        BY <3>4 DEF Terminals
      <4>2. Append(finished[terminalEvent.job], terminalEvent.outcome) \in Seq(Outcomes)
        BY <4>1 DEF OutputTypeOK
      <4>3. finished' \in [Jobs -> Seq(Outcomes)]
        BY <3>2, <4>2 DEF OutputTypeOK
      <4> QED
        BY <3>1, <4>3 DEF OutputTypeOK
    <3> QED
      BY <3>3, <3>4 DEF RunnerTypeOK
  <2>3. StateTypeOK' /\ HandlerTypeOK' /\ MainTypeOK'
    BY <1>20 DEF RunnerAnnounce, stateVars, handlerVars, mainVars, StateTypeOK, HandlerTypeOK, MainTypeOK
  <2>4. JobInHand'
    BY <1>20 DEF RunnerAnnounce, StateTypeOK, JobInHand, Running, stateVars, runnerVars
  <2> QED
    BY <2>1, <2>2, <2>3, <2>4 DEF TypeInv, TypeOK
<1>21. CASE RunnerShutdownAfterJob
  <2>1. StateTypeOK'
    BY <1>21 DEF RunnerShutdownAfterJob, RequestShutdown, StateTypeOK
  <2>2. RunnerTypeOK'
    BY <1>21 DEF RunnerShutdownAfterJob, RunnerTypeOK, RunnerPcs
  <2>3. MainTypeOK'
    BY <1>21 DEF RunnerShutdownAfterJob, RequestShutdown, MainMeanwhile, MainTypeOK, MainPcs
  <2>4. OutputTypeOK'
    BY <1>21 DEF RunnerShutdownAfterJob, RequestShutdown, EmitWorker, OutputTypeOK, WorkerEvents
  <2>5. HandlerTypeOK'
    BY <1>21 DEF RunnerShutdownAfterJob, handlerVars, HandlerTypeOK
  <2>6. JobInHand'
    BY <1>21 DEF RunnerShutdownAfterJob, StateTypeOK, JobInHand, Running, stateVars, runnerVars
  <2> QED
    BY <2>1, <2>2, <2>3, <2>4, <2>5, <2>6 DEF TypeInv, TypeOK
<1>22. CASE MainShutdown
  <2>1. MainTypeOK'
    BY <1>22 DEF MainShutdown, MainGoto, MainTypeOK, MainPcs
  <2>2. StateTypeOK' /\ HandlerTypeOK' /\ RunnerTypeOK' /\ OutputTypeOK'
    BY <1>22 DEF MainShutdown, stateVars, handlerVars, runnerVars, outputVars, StateTypeOK, HandlerTypeOK, RunnerTypeOK, OutputTypeOK
  <2>3. JobInHand'
    BY <1>22 DEF MainShutdown, StateTypeOK, JobInHand, Running, stateVars, runnerVars
  <2> QED
    BY <2>1, <2>2, <2>3 DEF TypeInv, TypeOK
<1>23. CASE MainInterrupt
  <2>1. MainTypeOK'
    BY <1>23 DEF MainInterrupt, MainGoto, MainTypeOK, MainPcs
  <2>2. StateTypeOK' /\ HandlerTypeOK' /\ RunnerTypeOK' /\ OutputTypeOK'
    BY <1>23 DEF MainInterrupt, stateVars, handlerVars, runnerVars, outputVars, StateTypeOK, HandlerTypeOK, RunnerTypeOK, OutputTypeOK
  <2>3. JobInHand'
    BY <1>23 DEF MainInterrupt, StateTypeOK, JobInHand, Running, stateVars, runnerVars
  <2> QED
    BY <2>1, <2>2, <2>3 DEF TypeInv, TypeOK
<1>24. CASE MainServeFails
  <2>1. StateTypeOK'
    BY <1>24 DEF MainServeFails, StateTypeOK
  <2>2. MainTypeOK'
    BY <1>24 DEF MainServeFails, MainGoto, MainTypeOK, MainPcs
  <2>3. HandlerTypeOK' /\ RunnerTypeOK' /\ OutputTypeOK'
    BY <1>24 DEF MainServeFails, handlerVars, runnerVars, outputVars, HandlerTypeOK, RunnerTypeOK, OutputTypeOK
  <2>4. JobInHand'
    BY <1>24 DEF MainServeFails, StateTypeOK, JobInHand, Running, stateVars, runnerVars
  <2> QED
    BY <2>1, <2>2, <2>3, <2>4 DEF TypeInv, TypeOK
<1>25. CASE MainStoreFatal
  <2>1. StateTypeOK'
    BY <1>25 DEF MainStoreFatal, StateTypeOK
  <2>2. MainTypeOK'
    BY <1>25 DEF MainStoreFatal, MainGoto, MainTypeOK, MainPcs
  <2>3. HandlerTypeOK' /\ RunnerTypeOK' /\ OutputTypeOK'
    BY <1>25 DEF MainStoreFatal, handlerVars, runnerVars, outputVars, HandlerTypeOK, RunnerTypeOK, OutputTypeOK
  <2>4. JobInHand'
    BY <1>25 DEF MainStoreFatal, StateTypeOK, JobInHand, Running, stateVars, runnerVars
  <2> QED
    BY <2>1, <2>2, <2>3, <2>4 DEF TypeInv, TypeOK
<1>26. CASE MainStop
  <2>1. StateTypeOK'
    BY <1>26 DEF MainStop, StateTypeOK
  <2>2. MainTypeOK'
    BY <1>26 DEF MainStop, MainGoto, MainTypeOK, MainPcs
  <2>3. HandlerTypeOK' /\ RunnerTypeOK' /\ OutputTypeOK'
    BY <1>26 DEF MainStop, handlerVars, runnerVars, outputVars, HandlerTypeOK, RunnerTypeOK, OutputTypeOK
  <2>4. JobInHand'
    BY <1>26 DEF MainStop, StateTypeOK, JobInHand, Running, stateVars, runnerVars
  <2> QED
    BY <2>1, <2>2, <2>3, <2>4 DEF TypeInv, TypeOK
<1>27. CASE MainFlag
  <2>1. StateTypeOK'
    BY <1>27 DEF MainFlag, StateTypeOK
  <2>2. MainTypeOK'
    BY <1>27 DEF MainFlag, MainGoto, MainTypeOK, MainPcs
  <2>3. HandlerTypeOK' /\ RunnerTypeOK' /\ OutputTypeOK'
    BY <1>27 DEF MainFlag, handlerVars, runnerVars, outputVars, HandlerTypeOK, RunnerTypeOK, OutputTypeOK
  <2>4. JobInHand'
    BY <1>27 DEF MainFlag, StateTypeOK, JobInHand, Running, stateVars, runnerVars
  <2> QED
    BY <2>1, <2>2, <2>3, <2>4 DEF TypeInv, TypeOK
<1>28. CASE MainRequestShutdown
  <2>1. StateTypeOK'
    BY <1>28 DEF MainRequestShutdown, RequestShutdown, StateTypeOK
  <2>2. MainTypeOK'
    BY <1>28 DEF MainRequestShutdown, RequestShutdown, MainTypeOK, MainPcs
  <2>3. OutputTypeOK'
    BY <1>28 DEF MainRequestShutdown, RequestShutdown, EmitWorker, OutputTypeOK, WorkerEvents
  <2>4. HandlerTypeOK' /\ RunnerTypeOK'
    BY <1>28 DEF MainRequestShutdown, handlerVars, runnerVars, HandlerTypeOK, RunnerTypeOK
  <2>5. JobInHand'
    BY <1>28 DEF MainRequestShutdown, StateTypeOK, JobInHand, Running, stateVars, runnerVars
  <2> QED
    BY <2>1, <2>2, <2>3, <2>4, <2>5 DEF TypeInv, TypeOK
<1>29. CASE MainReleaseRunner
  <2>1. StateTypeOK'
    BY <1>29 DEF MainReleaseRunner, StateTypeOK
  <2>2. MainTypeOK'
    BY <1>29 DEF MainReleaseRunner, MainGoto, MainTypeOK, MainPcs
  <2>3. HandlerTypeOK' /\ RunnerTypeOK' /\ OutputTypeOK'
    BY <1>29 DEF MainReleaseRunner, handlerVars, runnerVars, outputVars, HandlerTypeOK, RunnerTypeOK, OutputTypeOK
  <2>4. JobInHand'
    BY <1>29 DEF MainReleaseRunner, StateTypeOK, JobInHand, Running, stateVars, runnerVars
  <2> QED
    BY <2>1, <2>2, <2>3, <2>4 DEF TypeInv, TypeOK
<1>30. CASE MainSummary
  <2>1. MainTypeOK'
    BY <1>30 DEF MainSummary, MainGoto, MainTypeOK, MainPcs
  <2>2. OutputTypeOK'
    BY <1>30 DEF MainSummary, EmitWorker, OutputTypeOK, WorkerEvents
  <2>3. StateTypeOK' /\ HandlerTypeOK' /\ RunnerTypeOK'
    BY <1>30 DEF MainSummary, stateVars, handlerVars, runnerVars, StateTypeOK, HandlerTypeOK, RunnerTypeOK
  <2>4. JobInHand'
    BY <1>30 DEF MainSummary, StateTypeOK, JobInHand, Running, stateVars, runnerVars
  <2> QED
    BY <2>1, <2>2, <2>3, <2>4 DEF TypeInv, TypeOK
<1>31. CASE MainExit
  <2>1. MainTypeOK'
    BY <1>31 DEF MainExit, MainGoto, MainTypeOK, MainPcs
  <2>2. StateTypeOK' /\ HandlerTypeOK' /\ RunnerTypeOK' /\ OutputTypeOK'
    BY <1>31 DEF MainExit, stateVars, handlerVars, runnerVars, outputVars, StateTypeOK, HandlerTypeOK, RunnerTypeOK, OutputTypeOK
  <2>3. JobInHand'
    BY <1>31 DEF MainExit, StateTypeOK, JobInHand, Running, stateVars, runnerVars
  <2> QED
    BY <2>1, <2>2, <2>3 DEF TypeInv, TypeOK
<1>32. CASE UNCHANGED vars
  BY <1>32 DEF vars, stateVars, handlerVars, runnerVars, mainVars, outputVars, TypeInv, TypeOK,
     StateTypeOK, HandlerTypeOK, RunnerTypeOK, MainTypeOK, OutputTypeOK, JobInHand
<1> QED
  BY <1>1, <1>2, <1>3, <1>4, <1>5, <1>6, <1>7, <1>8, <1>9, <1>10, <1>11, <1>12, <1>13, <1>14, <1>15, <1>16, <1>17, <1>18, <1>19, <1>20, <1>21, <1>22, <1>23, <1>24, <1>25, <1>26, <1>27, <1>28, <1>29, <1>30, <1>31, <1>32
     DEF Next, HandlerStep, RunnerStep, MainStep, MainClosing, Terminated

\* The variables always have their types: in particular active_job never shows
\* a job without an identity, and every terminal names its job and one outcome.
THEOREM TypeCorrect == Spec => []TypeOK
BY TypeInit, TypeStep, PTL DEF Spec, TypeInv

-----------------------------------------------------------------------------
(* The slot, the cancellation and the terminal of the current job. *)

slotVars == <<nextJob, activeJob, job, pendingTerminal, terminalEvent, finished,
              jobCancelEvent>>

\* The runner stays where it is, or moves inside a job or between two jobs.
QuietRunner ==
    \/ runnerPc' = runnerPc
    \/ runnerPc \in Running /\ runnerPc' \in Running
    \/ runnerPc \in {"wait", "drain"} /\ runnerPc' \in {"wait", "gone"}

\* A step that leaves the slot and the terminals alone.
Quiet ==
    /\ UNCHANGED slotVars
    /\ QuietRunner
    /\ status' # "ready" \/ status' = status

\* A quiet step keeps what is said of the slot and the terminals alone.
LEMMA QuietKeepsSlot ==
    IInv /\ Quiet => SingleSlot' /\ TerminalPlace' /\ AtMostOneFinished'
<1> SUFFICES ASSUME IInv, Quiet PROVE SingleSlot' /\ TerminalPlace' /\ AtMostOneFinished'
  OBVIOUS
<1> USE DEF Quiet, QuietRunner, slotVars, Running
<1>1. SingleSlot'
  BY DEF IInv, SingleSlot
<1>2. TerminalPlace'
  BY DEF IInv, TerminalPlace
<1>3. AtMostOneFinished'
  BY DEF IInv, AtMostOneFinished
<1> QED
  BY <1>1, <1>2, <1>3

\* A quiet step of the runner or the main thread keeps all of it.
LEMMA QuietKeepsAll ==
    IInv /\ Quiet /\ UNCHANGED handlerVars /\ TypeInv' => IInv'
<1> SUFFICES ASSUME IInv, Quiet, UNCHANGED handlerVars, TypeInv' PROVE IInv'
  OBVIOUS
<1>1. SingleSlot' /\ TerminalPlace' /\ AtMostOneFinished'
  BY QuietKeepsSlot
<1> USE DEF Quiet, slotVars, handlerVars
<1>2. AnswerLast'
  BY DEF IInv, AnswerLast
<1>3. CancelScope'
  BY DEF IInv, CancelScope, CancelAccepted
<1>4. UnseenJobs'
  BY DEF IInv, UnseenJobs
<1> QED
  BY <1>1, <1>2, <1>3, <1>4 DEF IInv

\* A handler that answers, and one that goes on, is no longer a newcomer.
LEMMA QuietRequest ==
    ASSUME IInv, TypeInv', Quiet, UNCHANGED command, NEW r \in Requests,
           \/ handlerPc[r] = "lock" /\ \E a \in Answers \ {"accepted"} : Reply(r, a) /\ UNCHANGED target
           \/ handlerPc[r] = "lock" /\ Goto(r, "emit") /\ UNCHANGED target
           \/ handlerPc[r] = "emit" /\ Reply(r, "accepted") /\ UNCHANGED target
           \/ /\ handlerPc[r] = "idle" /\ Goto(r, "lock")
              /\ target' = target \/ \E j \in Jobs : target' = [target EXCEPT ![r] = j]
    PROVE IInv'
<1> USE RequestsAssumption DEF RequestsAssumption, Requests
<1> USE DEF Quiet, slotVars, Reply, Goto
<1>0. HandlerTypeOK
  BY DEF IInv, TypeInv, TypeOK
<1>1. SingleSlot' /\ TerminalPlace' /\ AtMostOneFinished'
  BY QuietKeepsSlot
<1>2. AnswerLast'
  BY <1>0 DEF IInv, AnswerLast, HandlerTypeOK
<1>3. CancelScope'
  <2> SUFFICES ASSUME jobCancelEvent PROVE activeJob.job # NoJob /\ CancelAccepted(activeJob.job)'
    BY DEF CancelScope, CancelAccepted
  <2>1. PICK c \in Cancels : target[c] = activeJob.job /\ (handlerPc[c] = "emit" \/ answer[c] = "accepted")
    BY DEF IInv, CancelScope, CancelAccepted
  <2>2. handlerPc[c] \in {"idle", "lock"} => answer[c] = "none"
    BY DEF IInv, AnswerLast
  <2>3. target'[c] = target[c] /\ (handlerPc'[c] = "emit" \/ answer'[c] = "accepted")
    BY <1>0, <2>1, <2>2 DEF HandlerTypeOK
  <2> QED
    BY <2>1, <2>3 DEF IInv, CancelScope, CancelAccepted
<1>4. UnseenJobs'
  BY <1>0 DEF IInv, UnseenJobs, HandlerTypeOK
<1> QED
  BY <1>1, <1>2, <1>3, <1>4 DEF IInv

\* The slot is empty at first and no request has been seen.
LEMMA SlotInit == Init => IInv
<1> USE RequestsAssumption DEF RequestsAssumption, Requests
<1> SUFFICES ASSUME Init PROVE IInv
  OBVIOUS
<1>1. TypeInv
  BY TypeInit
<1>2. SingleSlot
  BY DEF Init, SingleSlot, NoActive, Running
<1>5. TerminalPlace /\ CancelScope
  BY DEF Init, TerminalPlace, CancelScope
<1>6. AnswerLast
  BY DEF Init, AnswerLast
<1>3. AtMostOneFinished
  <2> SUFFICES ASSUME NEW j \in Jobs PROVE Len(finished[j]) <= 1 /\ finished[j] = << >>
    BY DEF AtMostOneFinished
  <2> QED
    BY DEF Init
<1>4. UnseenJobs
  BY DEF Init, UnseenJobs, NoTerminal, NoActive
<1> QED
  BY <1>1, <1>2, <1>3, <1>4, <1>5, <1>6 DEF IInv

\* Every step keeps the slot, the cancellation and the terminals right.
LEMMA SlotStep == IInv /\ [Next]_vars => IInv'
<1> USE RequestsAssumption DEF RequestsAssumption, Requests
<1> SUFFICES ASSUME IInv, [Next]_vars PROVE IInv'
  OBVIOUS
<1>0. /\ TypeInv' /\ StateTypeOK /\ HandlerTypeOK /\ RunnerTypeOK /\ OutputTypeOK
      /\ JobInHand /\ SingleSlot /\ TerminalPlace /\ AtMostOneFinished /\ AnswerLast
      /\ CancelScope /\ UnseenJobs
  BY TypeStep DEF IInv, TypeInv, TypeOK
<1>1. ASSUME NEW r \in Requests, Arrive(r) PROVE IInv'
  <2>1. Quiet
    BY <1>1 DEF Arrive, Quiet, QuietRunner, slotVars, stateVars, runnerVars, mainVars, outputVars
  <2> QED
    BY <1>1, <1>0, <2>1, QuietRequest DEF Arrive
<1>2. ASSUME NEW r \in Requests, HandleStop(r) PROVE IInv'
  <2>1. Quiet
    BY <1>2 DEF HandleStop, Quiet, QuietRunner, slotVars, runnerVars, mainVars, outputVars
  <2> QED
    BY <1>2, <1>0, <2>1, QuietRequest DEF HandleStop
<1>3. ASSUME NEW r \in Requests, RejectCancel(r) PROVE IInv'
  <2>1. Quiet
    BY <1>3 DEF RejectCancel, Quiet, QuietRunner, slotVars, stateVars, runnerVars, mainVars, outputVars
  <2> QED
    BY <1>3, <1>0, <2>1, QuietRequest DEF RejectCancel, Answers
<1>4. ASSUME NEW r \in Requests, RejectCommand(r) PROVE IInv'
  <2>1. Quiet
    BY <1>4 DEF RejectCommand, Quiet, QuietRunner, slotVars, stateVars, runnerVars, mainVars, outputVars
  <2> QED
    BY <1>4, <1>0, <2>1, QuietRequest DEF RejectCommand, Answers
<1>5. ASSUME NEW r \in Requests, EmitThenReply(r) PROVE IInv'
  <2>1. Quiet
    BY <1>5 DEF EmitThenReply, Quiet, QuietRunner, slotVars, stateVars, runnerVars, mainVars, outputVars
  <2> QED
    BY <1>5, <1>0, <2>1, QuietRequest DEF EmitThenReply
<1>6. CASE RunnerLeave
  <2>1. Quiet /\ UNCHANGED handlerVars
    BY <1>6 DEF RunnerLeave, Quiet, QuietRunner, slotVars, stateVars, outputVars
  <2> QED
    BY <1>0, <2>1, QuietKeepsAll
<1>7. CASE RunnerDrain
  <2>1. Quiet /\ UNCHANGED handlerVars
    BY <1>7 DEF RunnerDrain, Quiet, QuietRunner, slotVars, RequestShutdown
  <2> QED
    BY <1>0, <2>1, QuietKeepsAll
<1>8. ASSUME NEW r \in CoreResults, NEW opened \in BOOLEAN, RunnerCore(r, opened) PROVE IInv'
  <2>1. Quiet /\ UNCHANGED handlerVars
    BY <1>8 DEF RunnerCore, Quiet, QuietRunner, slotVars, stateVars, outputVars, Running
  <2> QED
    BY <1>0, <2>1, QuietKeepsAll
<1>9. ASSUME NEW ok \in BOOLEAN, RunnerSafeOff(ok) PROVE IInv'
  <2>1. Quiet /\ UNCHANGED handlerVars
    BY <1>9 DEF RunnerSafeOff, Quiet, QuietRunner, slotVars, RecordCleanup, outputVars, Running
  <2> QED
    BY <1>0, <2>1, QuietKeepsAll
<1>10. ASSUME NEW ok \in BOOLEAN, RunnerCloseSession(ok) PROVE IInv'
  <2>1. status' # "ready" \/ status' = status
    <3>1. CASE StopCleanupDue
      BY <1>10, <3>1 DEF RunnerCloseSession, RecordCleanup
    <3>2. CASE ~StopCleanupDue
      BY <1>10, <3>2 DEF RunnerCloseSession
    <3> QED
      BY <3>1, <3>2
  <2>2. Quiet /\ UNCHANGED handlerVars
    BY <1>10, <2>1 DEF RunnerCloseSession, Quiet, QuietRunner, slotVars, outputVars, Running
  <2> QED
    BY <1>0, <2>2, QuietKeepsAll
<1>11. CASE RunnerCheckLate
  <2>1. Quiet /\ UNCHANGED handlerVars
    BY <1>11 DEF RunnerCheckLate, Quiet, QuietRunner, slotVars, stateVars, outputVars, Running
  <2> QED
    BY <1>0, <2>1, QuietKeepsAll
<1>12. CASE RunnerClassify
  <2>1. Quiet /\ UNCHANGED handlerVars
    BY <1>12 DEF RunnerClassify, Quiet, QuietRunner, slotVars, stateVars, outputVars, Running
  <2> QED
    BY <1>0, <2>1, QuietKeepsAll
<1>13. CASE RunnerShutdownAfterJob
  <2>1. Quiet /\ UNCHANGED handlerVars
    BY <1>13 DEF RunnerShutdownAfterJob, Quiet, QuietRunner, slotVars, RequestShutdown
  <2> QED
    BY <1>0, <2>1, QuietKeepsAll
<1>14. CASE MainShutdown
  <2>1. Quiet /\ UNCHANGED handlerVars
    BY <1>14 DEF MainShutdown, Quiet, QuietRunner, slotVars, stateVars, runnerVars, outputVars
  <2> QED
    BY <1>0, <2>1, QuietKeepsAll
<1>15. CASE MainInterrupt
  <2>1. Quiet /\ UNCHANGED handlerVars
    BY <1>15 DEF MainInterrupt, Quiet, QuietRunner, slotVars, stateVars, runnerVars, outputVars
  <2> QED
    BY <1>0, <2>1, QuietKeepsAll
<1>16. CASE MainServeFails
  <2>1. Quiet /\ UNCHANGED handlerVars
    BY <1>16 DEF MainServeFails, Quiet, QuietRunner, slotVars, runnerVars, outputVars
  <2> QED
    BY <1>0, <2>1, QuietKeepsAll
<1>17. CASE MainStoreFatal
  <2>1. Quiet /\ UNCHANGED handlerVars
    BY <1>17 DEF MainStoreFatal, Quiet, QuietRunner, slotVars, runnerVars, outputVars
  <2> QED
    BY <1>0, <2>1, QuietKeepsAll
<1>18. CASE MainStop
  <2>1. Quiet /\ UNCHANGED handlerVars
    BY <1>18 DEF MainStop, Quiet, QuietRunner, slotVars, runnerVars, outputVars
  <2> QED
    BY <1>0, <2>1, QuietKeepsAll
<1>19. CASE MainFlag
  <2>1. Quiet /\ UNCHANGED handlerVars
    BY <1>19 DEF MainFlag, Quiet, QuietRunner, slotVars, runnerVars, outputVars
  <2> QED
    BY <1>0, <2>1, QuietKeepsAll
<1>20. CASE MainRequestShutdown
  <2>1. Quiet /\ UNCHANGED handlerVars
    BY <1>20 DEF MainRequestShutdown, Quiet, QuietRunner, slotVars, RequestShutdown, runnerVars
  <2> QED
    BY <1>0, <2>1, QuietKeepsAll
<1>21. CASE MainReleaseRunner
  <2>1. Quiet /\ UNCHANGED handlerVars
    BY <1>21 DEF MainReleaseRunner, Quiet, QuietRunner, slotVars, runnerVars, outputVars
  <2> QED
    BY <1>0, <2>1, QuietKeepsAll
<1>22. CASE MainSummary
  <2>1. Quiet /\ UNCHANGED handlerVars
    BY <1>22 DEF MainSummary, Quiet, QuietRunner, slotVars, stateVars, runnerVars
  <2> QED
    BY <1>0, <2>1, QuietKeepsAll
<1>23. CASE MainExit
  <2>1. Quiet /\ UNCHANGED handlerVars
    BY <1>23 DEF MainExit, Quiet, QuietRunner, slotVars, stateVars, runnerVars, outputVars
  <2> QED
    BY <1>0, <2>1, QuietKeepsAll
<1>24. CASE UNCHANGED vars
  <2>1. Quiet /\ UNCHANGED handlerVars
    BY <1>24 DEF vars, stateVars, runnerVars, outputVars, Quiet, QuietRunner, slotVars
  <2> QED
    BY <1>0, <2>1, QuietKeepsAll
<1>25. ASSUME NEW r \in Requests, HandleCancel(r) PROVE IInv'
  <2>1. SingleSlot'
    BY <1>25, <1>0 DEF HandleCancel, SingleSlot, runnerVars, CancelNamesActive, StateTypeOK, ActiveJobs, NoActive
  <2>2. TerminalPlace'
    BY <1>25, <1>0 DEF HandleCancel, TerminalPlace, runnerVars
  <2>3. AtMostOneFinished'
    BY <1>25, <1>0 DEF HandleCancel, AtMostOneFinished, runnerVars, outputVars
  <2>4. AnswerLast'
    BY <1>25, <1>0 DEF HandleCancel, AnswerLast, Goto, HandlerTypeOK
  <2>5. CancelScope'
    BY <1>25, <1>0 DEF HandleCancel, CancelScope, CancelNamesActive, CancelAccepted, Goto, HandlerTypeOK, StateTypeOK, ActiveJobs, NoActive
  <2>6. UnseenJobs'
    BY <1>25, <1>0 DEF HandleCancel, UnseenJobs, Goto, runnerVars, outputVars, HandlerTypeOK, StateTypeOK, ActiveJobs, NoActive
  <2> QED
    BY <1>0, <2>1, <2>2, <2>3, <2>4, <2>5, <2>6 DEF IInv
<1>26. ASSUME NEW r \in Requests, AcceptCommand(r) PROVE IInv'
  <2>1. SingleSlot'
    BY <1>26, <1>0 DEF AcceptCommand, SingleSlot, runnerVars, SlotFree, QueuedJob, NoActive, Running
  <2>2. TerminalPlace'
    BY <1>26, <1>0 DEF AcceptCommand, TerminalPlace, runnerVars, SlotFree, NoActive, UnseenJobs, SingleSlot, Running, NoTerminal
  <2>3. AtMostOneFinished'
    BY <1>26, <1>0 DEF AcceptCommand, AtMostOneFinished, runnerVars, outputVars, UnseenJobs, NoTerminal
  <2>4. AnswerLast'
    BY <1>26, <1>0 DEF AcceptCommand, AnswerLast, Goto, HandlerTypeOK
  <2>5. CancelScope'
    BY <1>26, <1>0 DEF AcceptCommand, CancelScope
  <2>6. UnseenJobs'
    BY <1>26, <1>0 DEF AcceptCommand, UnseenJobs, Goto, runnerVars, outputVars, HandlerTypeOK, QueuedJob, NoTerminal
  <2> QED
    BY <1>0, <2>1, <2>2, <2>3, <2>4, <2>5, <2>6 DEF IInv
<1>27. CASE RunnerTake
  <2>1. SingleSlot'
    BY <1>27, <1>0 DEF RunnerTake, SingleSlot, Running, NoActive, StateTypeOK, ActiveJobs
  <2>2. TerminalPlace'
    BY <1>27, <1>0 DEF RunnerTake, TerminalPlace, NoTerminal, Terminals
  <2>3. AtMostOneFinished'
    BY <1>27, <1>0 DEF RunnerTake, AtMostOneFinished, Running, outputVars, TerminalPlace, NoTerminal, StateTypeOK
  <2>4. AnswerLast'
    BY <1>27, <1>0 DEF RunnerTake, AnswerLast, handlerVars
  <2>5. CancelScope'
    BY <1>27, <1>0 DEF RunnerTake, CancelScope, handlerVars, CancelAccepted
  <2>6. UnseenJobs'
    BY <1>27, <1>0 DEF RunnerTake, UnseenJobs, handlerVars, outputVars, StateTypeOK
  <2> QED
    BY <1>0, <2>1, <2>2, <2>3, <2>4, <2>5, <2>6 DEF IInv
<1>28. CASE RunnerBegin
  <2>1. SingleSlot'
    BY <1>28, <1>0 DEF RunnerBegin, SingleSlot, Running, NoActive, StateTypeOK, ActiveJobs
  <2>2. TerminalPlace'
    BY <1>28, <1>0 DEF RunnerBegin, TerminalPlace
  <2>3. AtMostOneFinished'
    BY <1>28, <1>0 DEF RunnerBegin, AtMostOneFinished, Running, outputVars
  <2>4. AnswerLast'
    BY <1>28, <1>0 DEF RunnerBegin, AnswerLast, handlerVars
  <2>5. CancelScope'
    BY <1>28, <1>0 DEF RunnerBegin, CancelScope, handlerVars, CancelAccepted, StateTypeOK, ActiveJobs, NoActive
  <2>6. UnseenJobs'
    BY <1>28, <1>0 DEF RunnerBegin, UnseenJobs, handlerVars, outputVars, StateTypeOK, ActiveJobs, NoActive
  <2> QED
    BY <1>0, <2>1, <2>2, <2>3, <2>4, <2>5, <2>6 DEF IInv
<1>29. ASSUME NEW o \in Outcomes, RunnerPublish(o) PROVE IInv'
  <2>1. SingleSlot'
    BY <1>29, <1>0 DEF RunnerPublish, SingleSlot, Running
  <2>2. TerminalPlace'
    BY <1>29, <1>0 DEF RunnerPublish, TerminalPlace, Running, JobInHand, Terminals
  <2>3. AtMostOneFinished'
    BY <1>29, <1>0 DEF RunnerPublish, AtMostOneFinished, Running, outputVars
  <2>4. AnswerLast'
    BY <1>29, <1>0 DEF RunnerPublish, AnswerLast, handlerVars
  <2>5. CancelScope'
    BY <1>29, <1>0 DEF RunnerPublish, CancelScope, handlerVars, CancelAccepted
  <2>6. UnseenJobs'
    BY <1>29, <1>0 DEF RunnerPublish, UnseenJobs, handlerVars, outputVars
  <2> QED
    BY <1>0, <2>1, <2>2, <2>3, <2>4, <2>5, <2>6 DEF IInv
<1>30. CASE RunnerFails
  <2>1. SingleSlot'
    BY <1>30, <1>0 DEF RunnerFails, SingleSlot, Running
  <2>2. TerminalPlace'
    BY <1>30, <1>0 DEF RunnerFails, TerminalPlace, Running, JobInHand, Terminals, Outcomes
  <2>3. AtMostOneFinished'
    BY <1>30, <1>0 DEF RunnerFails, AtMostOneFinished, Running, outputVars, TerminalPlace
  <2>4. AnswerLast'
    BY <1>30, <1>0 DEF RunnerFails, AnswerLast, handlerVars
  <2>5. CancelScope'
    BY <1>30, <1>0 DEF RunnerFails, CancelScope, handlerVars, CancelAccepted
  <2>6. UnseenJobs'
    BY <1>30, <1>0 DEF RunnerFails, UnseenJobs, handlerVars, outputVars, TerminalPlace
  <2> QED
    BY <1>0, <2>1, <2>2, <2>3, <2>4, <2>5, <2>6 DEF IInv
<1>31. CASE RunnerFinish
  <2>1. SingleSlot'
    BY <1>31, <1>0 DEF RunnerFinish, SingleSlot, Running, NoActive
  <2>2. TerminalPlace'
    BY <1>31, <1>0 DEF RunnerFinish, TerminalPlace, PendingAfterJob, SingleSlot, Running, JobInHand
  <2>3. AtMostOneFinished'
    BY <1>31, <1>0 DEF RunnerFinish, AtMostOneFinished, PendingAfterJob, outputVars, Running, NoTerminal
  <2>4. AnswerLast'
    BY <1>31, <1>0 DEF RunnerFinish, AnswerLast, handlerVars
  <2>5. CancelScope'
    BY <1>31, <1>0 DEF RunnerFinish, CancelScope
  <2>6. UnseenJobs'
    BY <1>31, <1>0 DEF RunnerFinish, UnseenJobs, handlerVars, outputVars, PendingAfterJob, NoTerminal, NoActive
  <2> QED
    BY <1>0, <2>1, <2>2, <2>3, <2>4, <2>5, <2>6 DEF IInv
<1>32. CASE RunnerAnnounce
  <2>1. SingleSlot'
    BY <1>32, <1>0 DEF RunnerAnnounce, SingleSlot, stateVars, Running
  <2>2. TerminalPlace'
    BY <1>32, <1>0 DEF RunnerAnnounce, TerminalPlace, stateVars
  <2>3. AtMostOneFinished'
    <3>1. terminalEvent \in Terminals /\ terminalEvent.job # nextJob /\ pendingTerminal = NoTerminal
      BY <1>32, <1>0 DEF RunnerAnnounce, TerminalPlace
    <3>2. terminalEvent.job \in Jobs /\ finished[terminalEvent.job] = << >>
      BY <1>0, <3>1 DEF Terminals, AtMostOneFinished
    <3>3. finished' = [finished EXCEPT ![terminalEvent.job] = <<terminalEvent.outcome>>]
      BY <1>32, <3>2 DEF RunnerAnnounce, EmitFinished
    <3>4. \A j \in Jobs : Len(finished'[j]) <= 1
      BY <1>0, <3>3 DEF AtMostOneFinished, OutputTypeOK
    <3>5. \A j \in Jobs : j \in {pendingTerminal'.job, terminalEvent'.job, nextJob'} => finished'[j] = << >>
      BY <1>32, <1>0, <3>1, <3>3 DEF RunnerAnnounce, stateVars, AtMostOneFinished, OutputTypeOK, NoTerminal
    <3> QED
      BY <1>32, <3>4, <3>5 DEF RunnerAnnounce, AtMostOneFinished, Running
  <2>4. AnswerLast'
    BY <1>32, <1>0 DEF RunnerAnnounce, AnswerLast, handlerVars
  <2>5. CancelScope'
    BY <1>32, <1>0 DEF RunnerAnnounce, CancelScope, handlerVars, stateVars, CancelAccepted
  <2>6. UnseenJobs'
    <3>1. terminalEvent \in Terminals
      BY <1>32, <1>0 DEF RunnerAnnounce, TerminalPlace
    <3>2. \A j \in Jobs : handlerPc[j] \in {"idle", "lock"} => finished'[j] = << >>
      BY <1>32, <1>0, <3>1 DEF RunnerAnnounce, EmitFinished, UnseenJobs, OutputTypeOK
    <3> QED
      BY <1>32, <1>0, <3>2 DEF RunnerAnnounce, UnseenJobs, handlerVars, stateVars, NoTerminal
  <2> QED
    BY <1>0, <2>1, <2>2, <2>3, <2>4, <2>5, <2>6 DEF IInv
<1> QED
  BY <1>1, <1>2, <1>3, <1>4, <1>5, <1>6, <1>7, <1>8, <1>9, <1>10, <1>11,
     <1>12, <1>13, <1>14, <1>15, <1>16, <1>17, <1>18, <1>19, <1>20, <1>21,
     <1>22, <1>23, <1>24, <1>25, <1>26, <1>27, <1>28, <1>29, <1>30, <1>31,
     <1>32
     DEF Next, HandlerStep, RunnerStep, MainStep, MainClosing, Terminated

\* IInv holds in every reachable state.
THEOREM Inductive == Spec => []IInv
BY SlotInit, SlotStep, PTL DEF Spec

\* The slot names one job: an accepted job is queued, running or in its last
\* section, never two of them, and a Worker that is "ready" has none.
THEOREM SlotCorrect == Spec => []SingleSlot
<1>1. IInv => SingleSlot
  BY DEF IInv
<1> QED
  BY <1>1, Inductive, PTL

\* A cancellation reaches the job that its accepted POST /cancel named, and no
\* later one.
THEOREM CancelCorrect == Spec => []CancelScope
<1>1. IInv => CancelScope
  BY DEF IInv
<1> QED
  BY <1>1, Inductive, PTL

\* A job is announced once at most, after its terminal exists and never while
\* it is queued or running.
THEOREM OneTerminal == Spec => []AtMostOneFinished
<1>1. IInv => AtMostOneFinished
  BY DEF IInv
<1> QED
  BY <1>1, Inductive, PTL

-----------------------------------------------------------------------------
(* PowerWorker implements the asynchronous job contract                    *)


\* The runner's local job is one only while it has one in hand.
SlotOwner == job # NoJob => runnerPc \in Running \cup {"finish"}

\* Only a cancellable job is ever cancelled.
CancelKind == jobCancelEvent => command[activeJob.job] \in Cancellable

\* Whatever the core command came to, a result that blames a cancellation or a
\* stop is one: it was accepted, and closed the Worker to commands.
ResultFits ==
    /\ runnerPc \in {"unwind", "check"} => result \in CoreResults
    /\ runnerPc = "classify" => result \in CoreResults \ {"step_failed"}
    /\ runnerPc \in {"unwind", "check", "classify"} /\ result \in {"cancelled", "interrupted"}
          => StopRequested
    /\ runnerPc = "publish" =>
          /\ result \in Outcomes
          /\ result = "cancelled" => CancelAccepted(job)
          /\ result = "stopped" => ClosedToCommands

RInv == SlotOwner /\ CancelKind /\ ResultFits

-----------------------------------------------------------------------------
\* An accepted cancellation stays one, and a Worker closed to commands too.
LEMMA Persist ==
    ASSUME IInv, [Next]_vars
    PROVE  /\ \A j \in Jobs : CancelAccepted(j) => CancelAccepted(j)'
           /\ ClosedToCommands => ClosedToCommands'
           /\ command' = command
<1> USE RequestsAssumption DEF RequestsAssumption, Requests
<1> USE DEF IInv, TypeInv, TypeOK, HandlerTypeOK, AnswerLast, CancelAccepted, ClosedToCommands,
            stateVars, handlerVars, runnerVars, mainVars, outputVars
<1>1. ASSUME NEW r \in Requests, Arrive(r) PROVE
        (\A j \in Jobs : CancelAccepted(j) => CancelAccepted(j)')
        /\ (ClosedToCommands => ClosedToCommands') /\ command' = command
  BY <1>1 DEF Arrive, Goto
<1>2. ASSUME NEW r \in Requests, HandlerStep(r) PROVE
        (\A j \in Jobs : CancelAccepted(j) => CancelAccepted(j)')
        /\ (ClosedToCommands => ClosedToCommands') /\ command' = command
  BY <1>2 DEF HandlerStep, HandleStop, HandleCancel, RejectCancel, RejectCommand, AcceptCommand,
     EmitThenReply, Goto, Reply
<1>3. CASE RunnerStep
  BY <1>3 DEF RunnerStep, RunnerLeave, RunnerDrain, RunnerTake, RunnerBegin, RunnerCore,
     RunnerSafeOff, RunnerCloseSession, RunnerCheckLate, RunnerClassify, RunnerPublish, RunnerFails,
     RunnerFinish, RunnerAnnounce, RunnerShutdownAfterJob
<1>4. CASE MainStep
  BY <1>4 DEF MainStep, MainShutdown, MainInterrupt, MainServeFails, MainClosing, MainStoreFatal,
     MainStop, MainFlag, MainRequestShutdown, MainReleaseRunner, MainSummary, MainExit
<1>5. CASE UNCHANGED vars
  BY <1>5 DEF vars
<1> QED
  BY <1>1, <1>2, <1>3, <1>4, <1>5 DEF Next, Terminated

\* Initially no job runs and nothing has a result.
LEMMA ResultInit == Init => RInv
BY DEF Init, RInv, SlotOwner, CancelKind, ResultFits, Running

\* A step of another thread than the runner.
LEMMA OthersKeepResult ==
    ASSUME IInv, RInv, [Next]_vars, UNCHANGED runnerVars,
           runnerPc \in Running => (StopRequested => StopRequested'),
           jobCancelEvent' => \/ jobCancelEvent /\ activeJob'.job = activeJob.job
                              \/ command[activeJob'.job] \in Cancellable
    PROVE  RInv'
<1>1. /\ runnerPc' = runnerPc /\ job' = job /\ result' = result
  BY DEF runnerVars
<1>2. command' = command
  BY Persist
<1>3. SlotOwner'
  BY <1>1 DEF RInv, SlotOwner
<1>4. CancelKind'
  BY <1>2 DEF RInv, CancelKind
<1>5. ResultFits'
  <2>1. runnerPc = "publish" => job \in Jobs
    BY DEF IInv, TypeInv, JobInHand, Running
  <2> QED
    BY <1>1, <2>1, Persist DEF RInv, ResultFits, Running
<1> QED
  BY <1>3, <1>4, <1>5 DEF RInv

\* Every step keeps what the results mean.
LEMMA ResultStep == IInv /\ RInv /\ [Next]_vars => RInv'
<1> SUFFICES ASSUME IInv, RInv, [Next]_vars PROVE RInv'
  OBVIOUS
<1> USE RequestsAssumption DEF RequestsAssumption, Requests
<1>1. ASSUME NEW r \in Requests, Arrive(r) \/ HandlerStep(r) PROVE RInv'
  <2>1. UNCHANGED runnerVars
    BY <1>1 DEF Arrive, HandlerStep, HandleStop, HandleCancel, RejectCancel, RejectCommand,
       AcceptCommand, EmitThenReply
  <2>2. CASE AcceptCommand(r)
    <3>1. runnerPc \notin Running
      BY <2>2 DEF AcceptCommand, SlotFree, IInv, SingleSlot, NoActive
    <3>2. ~jobCancelEvent'
      BY <2>2 DEF AcceptCommand
    <3> QED
      BY <2>1, <3>1, <3>2, OthersKeepResult
  <2>3. CASE HandleCancel(r)
    <3>1. jobCancelEvent' /\ stopEvent' = stopEvent /\ activeJob'.job = activeJob.job
      BY <2>3 DEF HandleCancel, IInv, TypeInv, TypeOK, StateTypeOK, ActiveJobs, NoActive
    <3>2. command[activeJob'.job] \in Cancellable
      BY <2>3, <3>1 DEF HandleCancel, CancelNamesActive
    <3> QED
      BY <2>1, <3>1, <3>2, OthersKeepResult DEF StopRequested
  <2>4. CASE ~AcceptCommand(r) /\ ~HandleCancel(r)
    <3>1. /\ jobCancelEvent' = jobCancelEvent /\ activeJob' = activeJob
          /\ stopEvent => stopEvent'
      BY <1>1, <2>4 DEF Arrive, HandlerStep, HandleStop, RejectCancel, RejectCommand,
         EmitThenReply, stateVars
    <3> QED
      BY <2>1, <3>1, OthersKeepResult DEF StopRequested
  <2> QED
    BY <2>2, <2>3, <2>4
<1>2. CASE MainStep \/ UNCHANGED vars
  <2>1. /\ UNCHANGED runnerVars /\ jobCancelEvent' = jobCancelEvent /\ activeJob' = activeJob
        /\ stopEvent => stopEvent'
    BY <1>2 DEF MainStep, MainShutdown, MainInterrupt, MainServeFails, MainClosing, MainStoreFatal,
       MainStop, MainFlag, MainRequestShutdown, MainReleaseRunner, MainSummary, MainExit, vars,
       stateVars, runnerVars
  <2> QED
    BY <2>1, OthersKeepResult DEF StopRequested
<1>3. CASE RunnerStep
  <2> USE DEF RInv, SlotOwner, CancelKind, ResultFits, Running, CoreResults, Outcomes, StopRequested
  <2>1. CASE RunnerLeave \/ RunnerDrain \/ RunnerAnnounce \/ RunnerShutdownAfterJob
    BY <2>1, Persist DEF RunnerLeave, RunnerDrain, RunnerAnnounce, RunnerShutdownAfterJob,
       stateVars, handlerVars
  <2>2. CASE RunnerTake
    BY <2>2, Persist DEF RunnerTake
  <2>3. CASE RunnerBegin
    <3>1. activeJob'.job = activeJob.job
      BY <2>3 DEF RunnerBegin, IInv, TypeInv, TypeOK, StateTypeOK, ActiveJobs, NoActive
    <3> QED
      BY <2>3, <3>1, Persist DEF RunnerBegin
  <2>4. ASSUME NEW r \in CoreResults, NEW opened \in BOOLEAN, RunnerCore(r, opened) PROVE RInv'
    BY <2>4, Persist DEF RunnerCore, CoreMayEnd, stateVars
  <2>5. ASSUME NEW ok \in BOOLEAN, RunnerSafeOff(ok) PROVE RInv'
    BY <2>5, Persist DEF RunnerSafeOff
  <2>6. ASSUME NEW ok \in BOOLEAN, RunnerCloseSession(ok) PROVE RInv'
    BY <2>6, Persist DEF RunnerCloseSession
  <2>7. CASE RunnerCheckLate
    BY <2>7, Persist DEF RunnerCheckLate, LateResult, stateVars
  <2>8. CASE RunnerClassify
    <3>1. /\ runnerPc = "classify" /\ runnerPc' = "publish" /\ result' = Classified /\ job' = job
          /\ UNCHANGED stateVars
      BY <2>8 DEF RunnerClassify
    <3>2. activeJob.job = job /\ job \in Jobs
      BY <3>1 DEF IInv, TypeInv, JobInHand, SingleSlot
    <3>3. result' \in Outcomes
      BY <3>1 DEF Classified
    <3>4. result' = "cancelled" => jobCancelEvent
      BY <3>1 DEF Classified
    <3>5. result' = "cancelled" => CancelAccepted(job)'
      BY <3>1, <3>2, <3>4, Persist DEF IInv, CancelScope
    <3>6. result' = "stopped" => stopEvent
      BY <3>1, <3>2 DEF Classified
    <3> QED
      BY <3>1, <3>3, <3>5, <3>6, Persist DEF ClosedToCommands, stateVars
  <2>9. ASSUME NEW o \in Outcomes, RunnerPublish(o) PROVE RInv'
    BY <2>9, Persist DEF RunnerPublish
  <2>10. CASE RunnerFails
    BY <2>10, Persist DEF RunnerFails
  <2>11. CASE RunnerFinish
    BY <2>11, Persist DEF RunnerFinish
  <2> QED
    BY <1>3, <2>1, <2>2, <2>3, <2>4, <2>5, <2>6, <2>7, <2>8, <2>9, <2>10, <2>11 DEF RunnerStep
<1> QED
  BY <1>1, <1>2, <1>3 DEF Next, Terminated

-----------------------------------------------------------------------------
(* What a step does to the contract's variables                            *)

\* Phases and outcomes depend on the slot and the terminals only.
LEMMA SamePhases ==
    ASSUME UNCHANGED <<finished, pendingTerminal, terminalEvent, job, nextJob>>,
           runnerPc \in Running <=> runnerPc' \in Running
    PROVE  \A j \in Jobs : Phase(j)' = Phase(j) /\ Outcome(j)' = Outcome(j)
BY DEF Phase, Outcome, Finished

\* A step that keeps what the contract speaks of is none of its steps.
LEMMA Unmoved ==
    ASSUME \A j \in Jobs : Phase(j)' = Phase(j) /\ Outcome(j)' = Outcome(j),
           \A j \in Jobs : CancelAccepted(j)' <=> CancelAccepted(j),
           ClosedToCommands' <=> ClosedToCommands
    PROVE  UNCHANGED Abstract!vars
BY DEF Abstract!vars

\* A step that closes the Worker to commands and keeps the rest.
LEMMA Closing ==
    ASSUME \A j \in Jobs : Phase(j)' = Phase(j) /\ Outcome(j)' = Outcome(j),
           \A j \in Jobs : CancelAccepted(j)' <=> CancelAccepted(j),
           ClosedToCommands'
    PROVE  Abstract!Next
<1>1. Abstract!Close
  BY DEF Abstract!Close
<1> QED
  BY <1>1 DEF Abstract!Next

\* The initial states of the Worker are initial states of the contract.
LEMMA RefinementInit == Init => Abstract!Init
<1> SUFFICES ASSUME Init PROVE Abstract!Init
  OBVIOUS
<1> USE RequestsAssumption DEF RequestsAssumption, Requests
<1>1. \A j \in Jobs : Phase(j) = "none" /\ Outcome(j) = "none"
  BY DEF Init, Phase, Outcome, Finished, NoTerminal, Running
<1>2. \A j \in Jobs : ~CancelAccepted(j)
  BY DEF Init, CancelAccepted
<1>3. ~ClosedToCommands
  BY DEF Init, ClosedToCommands
<1> QED
  BY <1>1, <1>2, <1>3 DEF Abstract!Init

\* A handler's step: a command accepted, a cancellation accepted, a stop.
LEMMA HandlerRefines ==
    ASSUME IInv, RInv, NEW r \in Requests, Arrive(r) \/ HandlerStep(r)
    PROVE  Abstract!Next \/ UNCHANGED Abstract!vars
<1> USE RequestsAssumption DEF RequestsAssumption, Requests
<1> DEFINE Phases == \A j \in Jobs : Phase(j)' = Phase(j) /\ Outcome(j)' = Outcome(j)
           Cancelled == \A j \in Jobs : CancelAccepted(j)' <=> CancelAccepted(j)
<1>1. CASE Arrive(r) \/ RejectCancel(r) \/ RejectCommand(r) \/ EmitThenReply(r)
  <2>1. /\ UNCHANGED <<finished, pendingTerminal, terminalEvent, job, nextJob, runnerPc>>
        /\ ClosedToCommands' <=> ClosedToCommands
    BY <1>1 DEF Arrive, RejectCancel, RejectCommand, EmitThenReply, stateVars, runnerVars,
       outputVars, ClosedToCommands
  <2>2. Cancelled
    BY <1>1 DEF Arrive, RejectCancel, RejectCommand, EmitThenReply, Goto, Reply, CancelAccepted,
       IInv, TypeInv, TypeOK, HandlerTypeOK, AnswerLast
  <2>3. Phases
    BY <2>1, SamePhases
  <2> QED
    BY <2>1, <2>2, <2>3, Unmoved
<1>2. CASE HandleStop(r)
  <2>1. /\ UNCHANGED <<finished, pendingTerminal, terminalEvent, job, nextJob, runnerPc>>
        /\ ClosedToCommands'
    BY <1>2 DEF HandleStop, runnerVars, outputVars, ClosedToCommands
  <2>2. Cancelled
    BY <1>2 DEF HandleStop, Goto, CancelAccepted, IInv, TypeInv, TypeOK, HandlerTypeOK
  <2>3. Phases
    BY <2>1, SamePhases
  <2> QED
    BY <2>1, <2>2, <2>3, Closing
<1>3. CASE HandleCancel(r)
  <2> DEFINE t == target[r]
  <2>1. r \in Cancels /\ t \in Jobs /\ activeJob.job = t
    BY <1>3 DEF HandleCancel, CancelNamesActive, IInv, TypeInv, TypeOK, StateTypeOK, ActiveJobs, NoActive
  <2>2. /\ UNCHANGED <<finished, pendingTerminal, terminalEvent, job, nextJob, runnerPc>>
        /\ ClosedToCommands' <=> ClosedToCommands
    BY <1>3 DEF HandleCancel, runnerVars, outputVars, ClosedToCommands
  <2>3. \A j \in Jobs : CancelAccepted(j)' <=> CancelAccepted(j) \/ j = t
    BY <1>3 DEF HandleCancel, Goto, CancelAccepted, IInv, TypeInv, TypeOK, HandlerTypeOK
  <2>4. Phase(t) \in {"queued", "running", "terminal"}
    <3>1. t = nextJob \/ t = job
      BY <2>1 DEF IInv, SingleSlot
    <3>2. finished[t] = << >>
      <4>1. CASE t = nextJob
        BY <2>1, <4>1 DEF IInv, AtMostOneFinished
      <4>2. CASE t = job
        BY <2>1, <4>2 DEF RInv, SlotOwner, IInv, AtMostOneFinished, TerminalPlace, Running
      <4> QED
        BY <3>1, <4>1, <4>2
    <3>3. t = nextJob => pendingTerminal.job # t /\ terminalEvent.job # t
      BY <2>1 DEF IInv, SingleSlot, TerminalPlace, NoTerminal
    <3>4. t = job => \/ runnerPc \in Running
                     \/ runnerPc = "finish" /\ pendingTerminal.job = t
      BY <2>1 DEF RInv, SlotOwner, IInv, TerminalPlace
    <3> QED
      BY <3>1, <3>2, <3>3, <3>4 DEF Phase, Finished
  <2>5. Phases
    BY <2>2, SamePhases
  <2>6. Abstract!RequestCancel(t)
    BY <2>1, <2>2, <2>3, <2>4, <2>5 DEF Abstract!RequestCancel
  <2> QED
    BY <2>1, <2>6 DEF Abstract!Next
<1>4. CASE AcceptCommand(r)
  <2>1. /\ r \in Jobs /\ ~ClosedToCommands /\ ~ClosedToCommands' /\ status = "ready"
        /\ nextJob' = r /\ pendingTerminal' = NoTerminal
        /\ UNCHANGED <<finished, terminalEvent, job, runnerPc>>
    BY <1>4 DEF AcceptCommand, runnerVars, outputVars, ClosedToCommands, SlotFree
  <2>2. activeJob = NoActive /\ nextJob = NoJob /\ runnerPc \notin Running \cup {"finish"}
    BY <2>1 DEF IInv, SingleSlot, NoActive
  <2>3. pendingTerminal = NoTerminal
    BY <2>2 DEF IInv, TerminalPlace
  <2>4. /\ finished[r] = << >> /\ terminalEvent.job # r
    BY <1>4 DEF AcceptCommand, IInv, UnseenJobs
  <2>5. \A j \in Jobs : Phase(j) \notin {"queued", "running"}
    BY <2>2 DEF Phase
  <2>6. Phase(r) = "none" /\ Phase(r)' = "queued"
    BY <2>1, <2>2, <2>3, <2>4 DEF Phase, Finished, NoTerminal
  <2>7. \A j \in Jobs : j # r => Phase(j)' = Phase(j)
    BY <2>1, <2>2, <2>3 DEF Phase, Finished
  <2>8. \A j \in Jobs : Outcome(j)' = Outcome(j)
    BY <2>1, <2>3 DEF Outcome, Finished
  <2>9. Cancelled
    BY <1>4, <2>1 DEF AcceptCommand, Goto, CancelAccepted, IInv, TypeInv, TypeOK, HandlerTypeOK
  <2>10. Abstract!Admit(r)
    BY <2>1, <2>5, <2>6, <2>7, <2>8, <2>9 DEF Abstract!Admit
  <2> QED
    BY <2>1, <2>10 DEF Abstract!Next
<1> QED
  BY <1>1, <1>2, <1>3, <1>4 DEF HandlerStep

\* The handlers' variables stay: so do the accepted cancellations.
LEMMA SameCancels ==
    ASSUME UNCHANGED handlerVars
    PROVE  \A j \in Jobs : CancelAccepted(j)' <=> CancelAccepted(j)
BY DEF handlerVars, CancelAccepted

\* A terminal is created: the job was running and had none.
LEMMA Ending ==
    ASSUME IInv, runnerPc \in Running, runnerPc' = "finish", NEW o \in Outcomes,
           pendingTerminal' = [job |-> job, outcome |-> o],
           UNCHANGED <<finished, terminalEvent, job, nextJob>>,
           \A j \in Jobs : CancelAccepted(j)' <=> CancelAccepted(j),
           o = "cancelled" => CancelAccepted(job),
           o = "stopped" => ClosedToCommands,
           (ClosedToCommands' <=> ClosedToCommands) \/ (o = "failed" /\ ClosedToCommands')
    PROVE  Abstract!Next
<1> USE RequestsAssumption DEF RequestsAssumption, Requests
<1>1. /\ job \in Jobs /\ nextJob = NoJob /\ pendingTerminal = NoTerminal
      /\ terminalEvent = NoTerminal /\ finished[job] = << >>
  BY DEF IInv, TypeInv, JobInHand, SingleSlot, TerminalPlace, AtMostOneFinished, Running
<1>2. Phase(job) = "running" /\ Phase(job)' = "terminal"
  BY <1>1 DEF Phase, Finished, NoTerminal
<1>3. \A j \in Jobs : j # job => Phase(j)' = Phase(j)
  BY <1>1 DEF Phase, Finished, NoTerminal
<1>4. \A j \in Jobs : Outcome(j)' = IF j = job THEN o ELSE Outcome(j)
  BY <1>1 DEF Outcome, Finished, NoTerminal
<1>5. o \in Abstract!Outcomes
  BY DEF Outcomes, Abstract!Outcomes
<1>6. Abstract!End(job, o)
  BY <1>1, <1>2, <1>3, <1>4 DEF Abstract!End
<1> QED
  BY <1>1, <1>5, <1>6 DEF Abstract!Next

\* The runner's step: it starts a job, creates its terminal, announces it.
LEMMA RunnerRefines ==
    ASSUME IInv, RInv, RunnerStep
    PROVE  Abstract!Next \/ UNCHANGED Abstract!vars
<1> USE RequestsAssumption DEF RequestsAssumption, Requests
<1>0. UNCHANGED handlerVars
  BY DEF RunnerStep, RunnerLeave, RunnerDrain, RunnerTake, RunnerBegin, RunnerCore,
     RunnerSafeOff, RunnerCloseSession, RunnerCheckLate, RunnerClassify, RunnerPublish, RunnerFails,
     RunnerFinish, RunnerAnnounce, RunnerShutdownAfterJob
<1>1. CASE \/ RunnerLeave \/ RunnerDrain \/ RunnerBegin \/ RunnerCheckLate \/ RunnerClassify
           \/ \E r \in CoreResults, opened \in BOOLEAN : RunnerCore(r, opened)
           \/ \E ok \in BOOLEAN : RunnerSafeOff(ok) \/ RunnerCloseSession(ok)
           \/ RunnerShutdownAfterJob
  <2>1. /\ UNCHANGED <<finished, pendingTerminal, terminalEvent, job, nextJob>>
        /\ runnerPc \in Running <=> runnerPc' \in Running
        /\ ClosedToCommands' <=> ClosedToCommands
    BY <1>1 DEF RunnerLeave, RunnerDrain, RunnerBegin, RunnerCore, RunnerSafeOff,
       RunnerCloseSession, RunnerCheckLate, RunnerClassify, RunnerShutdownAfterJob, stateVars,
       runnerVars, outputVars, Running, ClosedToCommands
  <2> QED
    BY <1>0, <2>1, SamePhases, SameCancels, Unmoved
<1>2. CASE RunnerTake
  <2>1. /\ runnerPc = "wait" /\ runnerPc' = "begin" /\ job' = nextJob /\ nextJob' = NoJob
        /\ nextJob \in Jobs
        /\ UNCHANGED <<finished, pendingTerminal, terminalEvent, stopEvent, shutdownFlag>>
    BY <1>2 DEF RunnerTake, outputVars, IInv, TypeInv, TypeOK, StateTypeOK
  <2>2. pendingTerminal = NoTerminal /\ terminalEvent = NoTerminal /\ finished[nextJob] = << >>
    BY <2>1 DEF IInv, TerminalPlace, AtMostOneFinished
  <2>3. Phase(nextJob) = "queued"
    BY <2>1, <2>2 DEF Phase, Finished, NoTerminal, Running
  <2>4. \A j \in Jobs : Phase(j)' = IF j = nextJob THEN "running" ELSE Phase(j)
    BY <2>1, <2>2 DEF Phase, Finished, NoTerminal, Running
  <2>5. \A j \in Jobs : Outcome(j)' = Outcome(j)
    BY <2>1 DEF Outcome, Finished
  <2>6. Abstract!Start(nextJob)
    BY <1>0, <2>1, <2>3, <2>4, <2>5, SameCancels DEF Abstract!Start, ClosedToCommands
  <2> QED
    BY <2>1, <2>6 DEF Abstract!Next
<1>3. ASSUME NEW o \in Outcomes, RunnerPublish(o) PROVE Abstract!Next
  <2>1. /\ runnerPc \in Running /\ runnerPc' = "finish"
        /\ pendingTerminal' = [job |-> job, outcome |-> o]
        /\ UNCHANGED <<finished, terminalEvent, job, nextJob, stopEvent, shutdownFlag>>
    BY <1>3 DEF RunnerPublish, Running, outputVars
  <2>2. (o = "cancelled" => CancelAccepted(job)) /\ (o = "stopped" => ClosedToCommands)
    BY <1>3 DEF RunnerPublish, RInv, ResultFits
  <2> QED
    BY <1>0, <2>1, <2>2, SameCancels, Ending DEF ClosedToCommands
<1>4. CASE RunnerFails
  <2>1. /\ runnerPc \in Running /\ runnerPc' = "finish" /\ ClosedToCommands'
        /\ UNCHANGED <<finished, terminalEvent, job, nextJob>>
    BY <1>4 DEF RunnerFails, Running, outputVars, ClosedToCommands
  <2>2. pendingTerminal = NoTerminal
    BY <2>1 DEF IInv, TerminalPlace, Running
  <2>3. pendingTerminal' = [job |-> job, outcome |-> "failed"]
    BY <1>4, <2>2 DEF RunnerFails
  <2>4. "failed" \in Outcomes
    BY DEF Outcomes
  <2> QED
    BY <1>0, <2>1, <2>3, <2>4, SameCancels, Ending
<1>5. CASE RunnerFinish
  <2>1. /\ runnerPc = "finish" /\ runnerPc' = "announce" /\ job' = NoJob
        /\ terminalEvent' = pendingTerminal /\ pendingTerminal' = NoTerminal
        /\ UNCHANGED <<finished, nextJob, stopEvent, shutdownFlag>>
    BY <1>5 DEF RunnerFinish, PendingAfterJob, outputVars
  <2>2. terminalEvent = NoTerminal /\ nextJob = NoJob
    BY <2>1 DEF IInv, TerminalPlace, SingleSlot
  <2>3. \A j \in Jobs : Phase(j)' = Phase(j) /\ Outcome(j)' = Outcome(j)
    BY <2>1, <2>2 DEF Phase, Outcome, Finished, NoTerminal, Running
  <2> QED
    BY <1>0, <2>1, <2>3, SameCancels, Unmoved DEF ClosedToCommands
<1>6. CASE RunnerAnnounce
  <2>0. terminalEvent \in Terminals
    BY <1>6 DEF RunnerAnnounce, IInv, TerminalPlace
  <2> PICK t \in Jobs : t = terminalEvent.job
    BY <2>0 DEF Terminals
  <2>1. /\ runnerPc = "announce" /\ runnerPc' \in {"drain", "wait"}
        /\ finished' = [finished EXCEPT ![t] = Append(@, terminalEvent.outcome)]
        /\ terminalEvent' = NoTerminal
        /\ UNCHANGED <<pendingTerminal, job, nextJob, stopEvent, shutdownFlag>>
    BY <1>6 DEF RunnerAnnounce, EmitFinished, stateVars
  <2>2. t # nextJob /\ pendingTerminal = NoTerminal
    BY <2>1 DEF IInv, TerminalPlace
  <2>3. finished[t] = << >> /\ finished \in [Jobs -> Seq(Outcomes)]
    BY <2>0, <2>1 DEF IInv, TypeInv, TypeOK, OutputTypeOK, AtMostOneFinished
  <2>4. finished'[t] = <<terminalEvent.outcome>> /\ \A j \in Jobs \ {t} : finished'[j] = finished[j]
    BY <2>1, <2>3
  <2>5. Phase(t) = "terminal" /\ Phase(t)' = "announced"
    BY <2>3, <2>4 DEF Phase, Finished
  <2>6. \A j \in Jobs : j # t => Phase(j)' = Phase(j)
    BY <2>1, <2>2, <2>4 DEF Phase, Finished, NoTerminal, Running
  <2>7. \A j \in Jobs : Outcome(j)' = Outcome(j)
    BY <2>1, <2>2, <2>3, <2>4 DEF Outcome, Finished, NoTerminal
  <2>8. Abstract!Announce(t)
    BY <1>0, <2>1, <2>3, <2>5, <2>6, <2>7, SameCancels DEF Abstract!Announce, ClosedToCommands
  <2> QED
    BY <2>8 DEF Abstract!Next
<1> QED
  BY <1>1, <1>2, <1>3, <1>4, <1>5, <1>6 DEF RunnerStep

\* The main thread's step: it closes the Worker to commands, or nothing.
LEMMA MainRefines ==
    ASSUME MainStep
    PROVE  Abstract!Next \/ UNCHANGED Abstract!vars
<1>1. /\ UNCHANGED handlerVars
      /\ UNCHANGED <<finished, pendingTerminal, terminalEvent, job, nextJob, runnerPc>>
      /\ (ClosedToCommands' <=> ClosedToCommands) \/ ClosedToCommands'
  BY DEF MainStep, MainShutdown, MainInterrupt, MainServeFails, MainClosing, MainStoreFatal,
     MainStop, MainFlag, MainRequestShutdown, MainReleaseRunner, MainSummary, MainExit, stateVars,
     runnerVars, outputVars, ClosedToCommands
<1> QED
  BY <1>1, SamePhases, SameCancels, Unmoved, Closing

(* The Worker implements the contract: one slot, one terminal per job that *)
(* is announced once, "cancelled" only for a job whose cancellation was    *)
(* accepted, "stopped" only once no command is admitted any more.          *)
THEOREM Refinement == Spec => ImplementsAsyncJobs
<1>1. Init => RInv
  BY ResultInit
<1>2. IInv /\ RInv /\ [Next]_vars => RInv'
  BY ResultStep
<1>3. Init => Abstract!Init
  BY RefinementInit
<1>4. IInv /\ RInv /\ [Next]_vars => [Abstract!Next]_(Abstract!vars)
  <2> SUFFICES ASSUME IInv, RInv, [Next]_vars
               PROVE  Abstract!Next \/ UNCHANGED Abstract!vars
    OBVIOUS
  <2>1. CASE Next /\ ~UNCHANGED vars
    BY <2>1, HandlerRefines, RunnerRefines, MainRefines DEF Next, Terminated
  <2>2. CASE UNCHANGED vars
    <3>1. /\ UNCHANGED handlerVars
          /\ UNCHANGED <<finished, pendingTerminal, terminalEvent, job, nextJob, runnerPc>>
          /\ ClosedToCommands' <=> ClosedToCommands
      BY <2>2 DEF vars, stateVars, runnerVars, outputVars, ClosedToCommands
    <3> QED
      BY <3>1, SamePhases, SameCancels, Unmoved
  <2> QED
    BY <2>1, <2>2
<1> QED
  BY <1>1, <1>2, <1>3, <1>4, Inductive, PTL DEF Spec, ImplementsAsyncJobs, Abstract!Spec

-----------------------------------------------------------------------------
(* The end of a Worker: a shutdown comes after the last cleanup, no        *)
(* accepted job is lost by it, the two records of a terminal agree, and no *)
(* failure is without its fatal error.                                     *)


\* A terminal on its way to the event stream is the one in last_job.
LastTerminal ==
    /\ pendingTerminal # NoTerminal => lastJob = pendingTerminal
    /\ terminalEvent # NoTerminal => lastJob = terminalEvent

\* A job is queued, running, or its terminal is on its way.
InHand(j) ==
    \/ j \in {nextJob, pendingTerminal.job, terminalEvent.job}
    \/ runnerPc \in Running /\ job = j

\* An accepted job is in hand until it is announced.
AcceptedPlaced == \A j \in Jobs : Accepted(j) => Finished(j) \/ InHand(j)

\* Nothing is in the slot and nothing will be.
Idle == shutdownFlag /\ nextJob = NoJob /\ activeJob = NoActive

\* The runner that goes on to the shutdown after a job has released the slot.
DrainPlace ==
    /\ runnerPc = "drain" => shouldShutdown
    /\ shouldShutdown => Idle /\ runnerPc \in {"announce", "drain"}

\* When the server is told to stop while it serves, and ever since it stopped
\* for that reason, the runner is idle.
ServedPlace ==
    /\ httpShutdown /\ mainPc = "serving" =>
          Idle /\ runnerPc \in {"wait", "gone"} /\ cleanupResults
    /\ served = "shutdown" => Idle /\ runnerPc \in {"wait", "gone"} /\ mainPc # "serving"

-----------------------------------------------------------------------------
\* A failure is reported with a fatal error, except between the two stores of
\* the failing main thread: every step keeps that.
LEMMA FailureStep == IInv /\ FailedHasFatalError /\ [Next]_vars => FailedHasFatalError'
<1> SUFFICES ASSUME IInv, FailedHasFatalError, [Next]_vars PROVE FailedHasFatalError'
  OBVIOUS
<1> DEFINE Reported == /\ status = "error" /\ mainPc # "failing" => fatalError
                       /\ cleanupFailed => status = "error"
<1>1. Reported
  BY DEF FailedHasFatalError, WorkerState
<1>2. SUFFICES Reported'
  BY DEF FailedHasFatalError, WorkerState
<1>3. ASSUME NEW r \in Requests, Arrive(r) \/ HandlerStep(r) PROVE Reported'
  BY <1>1, <1>3 DEF Arrive, HandlerStep, HandleStop, HandleCancel, RejectCancel, RejectCommand,
     AcceptCommand, SlotFree, MainMeanwhile, EmitThenReply, stateVars, mainVars
<1>4. CASE RunnerStep
  <2>1. ASSUME NEW ok \in BOOLEAN, RunnerSafeOff(ok) \/ RunnerCloseSession(ok) PROVE Reported'
    <3>1. mainPc' = mainPc
      BY <2>1 DEF RunnerSafeOff, RunnerCloseSession, mainVars
    <3>2. \/ status' = "error" /\ fatalError'
          \/ UNCHANGED <<status, fatalError, cleanupFailed>>
      BY <2>1 DEF RunnerSafeOff, RunnerCloseSession, RecordCleanup
    <3> QED
      BY <1>1, <3>1, <3>2
  <2>2. CASE RunnerDrain \/ RunnerShutdownAfterJob
    BY <1>1, <2>2 DEF RunnerDrain, RunnerShutdownAfterJob, RequestShutdown, MainMeanwhile
  <2>3. CASE RunnerFinish
    BY <1>1, <2>3 DEF RunnerFinish, StatusAfterJob, MainMeanwhile
  <2>4. CASE RunnerFails
    BY <1>1, <2>4 DEF RunnerFails, mainVars
  <2>5. CASE \/ RunnerLeave \/ RunnerTake \/ RunnerBegin \/ RunnerCheckLate \/ RunnerClassify
             \/ RunnerAnnounce \/ \E o \in Outcomes : RunnerPublish(o)
             \/ \E r \in CoreResults, opened \in BOOLEAN : RunnerCore(r, opened)
    BY <1>1, <2>5 DEF RunnerLeave, RunnerTake, RunnerBegin, RunnerCheckLate, RunnerClassify,
       RunnerAnnounce, RunnerPublish, RunnerCore, stateVars, mainVars
  <2> QED
    BY <1>4, <2>1, <2>2, <2>3, <2>4, <2>5 DEF RunnerStep
<1>5. CASE MainStep
  BY <1>1, <1>5 DEF MainStep, MainShutdown, MainInterrupt, MainServeFails, MainClosing,
     MainStoreFatal, MainStop, MainFlag, MainRequestShutdown, RequestShutdown, MainReleaseRunner,
     MainSummary, MainExit, MainGoto, stateVars
<1>6. CASE UNCHANGED vars
  BY <1>1, <1>6 DEF vars, stateVars, mainVars
<1> QED
  BY <1>3, <1>4, <1>5, <1>6 DEF Next, Terminated

-----------------------------------------------------------------------------
\* The terminal of last_job, the pending one and the announced one agree.
LEMMA AgreementStep ==
    IInv /\ LastTerminal /\ TerminalAgreement /\ [Next]_vars => (LastTerminal /\ TerminalAgreement)'
<1> SUFFICES ASSUME IInv, LastTerminal, TerminalAgreement, [Next]_vars
             PROVE  (LastTerminal /\ TerminalAgreement)'
  OBVIOUS
<1> USE RequestsAssumption DEF RequestsAssumption, Requests
<1>1. ASSUME UNCHANGED <<lastJob, terminalEvent, finished>>,
             pendingTerminal' \in {pendingTerminal, NoTerminal}
      PROVE  (LastTerminal /\ TerminalAgreement)'
  BY <1>1 DEF LastTerminal, TerminalAgreement, Finished
<1>2. ASSUME NEW r \in Requests, Arrive(r) \/ HandlerStep(r)
      PROVE  (LastTerminal /\ TerminalAgreement)'
  BY <1>1, <1>2 DEF Arrive, HandlerStep, HandleStop, HandleCancel, RejectCancel, RejectCommand,
     AcceptCommand, EmitThenReply, stateVars, runnerVars, outputVars
<1>3. ASSUME NEW o \in Outcomes, runnerPc \in Running, job \in Jobs,
             lastJob' = [job |-> job, outcome |-> o], pendingTerminal' = [job |-> job, outcome |-> o],
             UNCHANGED <<terminalEvent, finished>>
      PROVE  (LastTerminal /\ TerminalAgreement)'
  <2>1. finished[job] = << >> /\ terminalEvent = NoTerminal
    BY <1>3 DEF IInv, AtMostOneFinished, TerminalPlace, Running
  <2> QED
    BY <1>3, <2>1 DEF LastTerminal, TerminalAgreement, Finished
<1>4. CASE RunnerStep
  <2>1. ASSUME NEW o \in Outcomes, RunnerPublish(o) PROVE (LastTerminal /\ TerminalAgreement)'
    <3>1. runnerPc \in Running /\ job \in Jobs
      BY <2>1 DEF RunnerPublish, Running, IInv, TypeInv, JobInHand
    <3> QED
      BY <1>3, <2>1, <3>1 DEF RunnerPublish, Terminal, outputVars
  <2>2. CASE RunnerFails
    <3>1. runnerPc \in Running /\ job \in Jobs /\ pendingTerminal = NoTerminal
      BY <2>2 DEF RunnerFails, Running, IInv, TypeInv, JobInHand, TerminalPlace
    <3>2. /\ lastJob' = [job |-> job, outcome |-> "failed"]
          /\ pendingTerminal' = [job |-> job, outcome |-> "failed"]
          /\ UNCHANGED <<terminalEvent, finished>>
      BY <2>2, <3>1 DEF RunnerFails, outputVars
    <3>3. "failed" \in Outcomes
      BY DEF Outcomes
    <3> QED
      BY <1>3, <3>1, <3>2, <3>3
  <2>3. CASE RunnerFinish
    BY <2>3 DEF RunnerFinish, PendingAfterJob, LastTerminal, TerminalAgreement, Finished, outputVars
  <2>4. CASE RunnerAnnounce
    <3>1. /\ terminalEvent \in Terminals /\ lastJob = terminalEvent
          /\ UNCHANGED <<lastJob, pendingTerminal>> /\ terminalEvent' = NoTerminal
      BY <2>4 DEF RunnerAnnounce, IInv, TerminalPlace, LastTerminal, Terminals, NoTerminal, stateVars
    <3>2. terminalEvent.job \in Jobs /\ finished[terminalEvent.job] = << >>
      BY <3>1 DEF Terminals, IInv, AtMostOneFinished
    <3>3. finished' = [finished EXCEPT ![terminalEvent.job] = <<terminalEvent.outcome>>]
      BY <2>4, <3>2 DEF RunnerAnnounce, EmitFinished
    <3>4. TerminalAgreement'
      <4> finished \in [Jobs -> Seq(Outcomes)]
        BY DEF IInv, TypeInv, TypeOK, OutputTypeOK
      <4>1. finished'[terminalEvent.job][1] = lastJob'.outcome
        BY <3>1, <3>2, <3>3
      <4> QED
        BY <3>1, <4>1 DEF TerminalAgreement
    <3>5. pendingTerminal = NoTerminal
      BY <2>4 DEF RunnerAnnounce, IInv, TerminalPlace
    <3> QED
      BY <3>1, <3>4, <3>5 DEF LastTerminal
  <2>5. CASE \/ RunnerLeave \/ RunnerDrain \/ RunnerTake \/ RunnerBegin \/ RunnerCheckLate
             \/ RunnerClassify \/ RunnerShutdownAfterJob
             \/ \E ok \in BOOLEAN : RunnerSafeOff(ok) \/ RunnerCloseSession(ok)
             \/ \E r \in CoreResults, opened \in BOOLEAN : RunnerCore(r, opened)
    BY <1>1, <2>5 DEF RunnerLeave, RunnerDrain, RunnerTake, RunnerBegin, RunnerCheckLate,
       RunnerClassify, RunnerShutdownAfterJob, RunnerSafeOff, RunnerCloseSession, RunnerCore,
       stateVars, outputVars
  <2> QED
    BY <1>4, <2>1, <2>2, <2>3, <2>4, <2>5 DEF RunnerStep
<1>5. CASE MainStep \/ UNCHANGED vars
  BY <1>1, <1>5 DEF MainStep, MainShutdown, MainInterrupt, MainServeFails, MainClosing,
     MainStoreFatal, MainStop, MainFlag, MainRequestShutdown, MainReleaseRunner, MainSummary,
     MainExit, vars, stateVars, runnerVars, outputVars
<1> QED
  BY <1>2, <1>4, <1>5 DEF Next, Terminated

-----------------------------------------------------------------------------
\* A step that neither accepts a job nor moves one keeps the accepted in hand.
LEMMA NobodyMoves ==
    ASSUME AcceptedPlaced,
           \A j \in Jobs : Accepted(j)' => Accepted(j),
           \A j \in Jobs : finished[j] # << >> => finished'[j] # << >>,
           \A j \in Jobs : InHand(j) => InHand(j)' \/ finished'[j] # << >>
    PROVE  AcceptedPlaced'
BY DEF AcceptedPlaced, Finished

\* No step loses an accepted job.
LEMMA PlacedStep == IInv /\ AcceptedPlaced /\ [Next]_vars => AcceptedPlaced'
<1> SUFFICES ASSUME IInv, AcceptedPlaced, [Next]_vars PROVE AcceptedPlaced'
  OBVIOUS
<1> USE RequestsAssumption DEF RequestsAssumption, Requests
<1>0. HandlerTypeOK /\ StateTypeOK
  BY DEF IInv, TypeInv, TypeOK
<1>1. ASSUME UNCHANGED <<nextJob, pendingTerminal, terminalEvent, job, finished>>,
             runnerPc \in Running => runnerPc' \in Running
      PROVE  /\ \A j \in Jobs : finished[j] # << >> => finished'[j] # << >>
             /\ \A j \in Jobs : InHand(j) => InHand(j)' \/ finished'[j] # << >>
  BY <1>1 DEF InHand
<1>2. ASSUME NEW r \in Requests, Arrive(r) \/ HandlerStep(r) PROVE AcceptedPlaced'
  <2>1. CASE AcceptCommand(r)
    <3>1. /\ r \in Jobs /\ nextJob' = r /\ pendingTerminal' = NoTerminal
          /\ UNCHANGED <<runnerPc, job, terminalEvent, finished>>
      BY <2>1 DEF AcceptCommand, runnerVars, outputVars
    <3>2. nextJob = NoJob /\ pendingTerminal = NoTerminal
      BY <2>1, <1>0 DEF AcceptCommand, SlotFree, IInv, SingleSlot, TerminalPlace, NoActive
    <3>3. \A j \in Jobs \ {r} : Accepted(j)' <=> Accepted(j)
      BY <2>1, <1>0 DEF AcceptCommand, Goto, HandlerTypeOK, Accepted
    <3>4. \A j \in Jobs : InHand(j) => InHand(j)'
      BY <3>1, <3>2 DEF InHand
    <3>5. InHand(r)'
      BY <3>1 DEF InHand
    <3> QED
      BY <3>1, <3>3, <3>4, <3>5 DEF AcceptedPlaced, Finished
  <2>2. CASE ~AcceptCommand(r)
    <3>1. \A j \in Jobs : Accepted(j)' => Accepted(j)
      BY <1>2, <2>2, <1>0 DEF Arrive, HandlerStep, HandleStop, HandleCancel, RejectCancel,
         RejectCommand, EmitThenReply, Goto, Reply, HandlerTypeOK, Accepted
    <3>2. UNCHANGED <<nextJob, pendingTerminal, terminalEvent, job, runnerPc, finished>>
      BY <1>2, <2>2 DEF Arrive, HandlerStep, HandleStop, HandleCancel, RejectCancel,
         RejectCommand, EmitThenReply, stateVars, runnerVars, outputVars
    <3> QED
      BY <1>1, <3>1, <3>2, NobodyMoves
  <2> QED
    BY <2>1, <2>2
<1>3. CASE RunnerStep \/ MainStep \/ UNCHANGED vars
  <2>0. \A j \in Jobs : Accepted(j)' => Accepted(j)
    <3>1. UNCHANGED handlerVars
      BY <1>3 DEF vars, RunnerStep, RunnerLeave, RunnerDrain, RunnerTake, RunnerBegin, RunnerCore,
         RunnerSafeOff, RunnerCloseSession, RunnerCheckLate, RunnerClassify, RunnerPublish,
         RunnerFails, RunnerFinish, RunnerAnnounce, RunnerShutdownAfterJob,
         MainStep, MainShutdown, MainInterrupt, MainServeFails, MainClosing, MainStoreFatal,
         MainStop, MainFlag, MainRequestShutdown, MainReleaseRunner, MainSummary, MainExit
    <3> QED
      BY <3>1 DEF handlerVars, Accepted
  <2>1. CASE MainStep \/ UNCHANGED vars
    <3>1. UNCHANGED <<nextJob, pendingTerminal, terminalEvent, job, runnerPc, finished>>
      BY <2>1 DEF vars, MainStep, MainShutdown, MainInterrupt, MainServeFails, MainClosing,
         MainStoreFatal, MainStop, MainFlag, MainRequestShutdown, MainReleaseRunner, MainSummary,
         MainExit, stateVars, runnerVars, outputVars
    <3> QED
      BY <1>1, <2>0, <3>1, NobodyMoves
  <2>2. CASE \/ RunnerLeave \/ RunnerDrain \/ RunnerBegin \/ RunnerCheckLate
             \/ RunnerClassify \/ RunnerShutdownAfterJob
             \/ \E ok \in BOOLEAN : RunnerSafeOff(ok) \/ RunnerCloseSession(ok)
             \/ \E r \in CoreResults, opened \in BOOLEAN : RunnerCore(r, opened)
    <3>1. /\ UNCHANGED <<nextJob, pendingTerminal, terminalEvent, job, finished>>
          /\ runnerPc \in Running => runnerPc' \in Running
      BY <2>2 DEF RunnerLeave, RunnerDrain, RunnerBegin, RunnerCheckLate, RunnerClassify,
         RunnerShutdownAfterJob, RunnerSafeOff, RunnerCloseSession, RunnerCore, stateVars,
         outputVars, Running
    <3> QED
      BY <1>1, <2>0, <3>1, NobodyMoves
  <2>3. CASE RunnerTake
    <3>1. /\ runnerPc = "wait" /\ runnerPc' \in Running /\ job' = nextJob
          /\ UNCHANGED <<pendingTerminal, terminalEvent, finished>>
      BY <2>3 DEF RunnerTake, Running, outputVars
    <3>2. \A j \in Jobs : InHand(j) => InHand(j)'
      BY <3>1 DEF InHand, Running
    <3> QED
      BY <2>0, <3>1, <3>2, NobodyMoves
  <2>4. CASE RunnerFails \/ \E o \in Outcomes : RunnerPublish(o)
    <3>1. /\ runnerPc \in Running /\ UNCHANGED <<nextJob, terminalEvent, finished>>
      BY <2>4 DEF RunnerFails, RunnerPublish, Running, outputVars
    <3>2. pendingTerminal = NoTerminal
      BY <3>1 DEF IInv, TerminalPlace, Running
    <3>3. pendingTerminal'.job = job
      BY <2>4, <3>2 DEF RunnerFails, RunnerPublish
    <3>4. \A j \in Jobs : InHand(j) => InHand(j)'
      BY <3>1, <3>2, <3>3 DEF InHand, NoTerminal
    <3> QED
      BY <2>0, <3>1, <3>4, NobodyMoves
  <2>5. CASE RunnerFinish
    <3>1. /\ runnerPc = "finish" /\ terminalEvent' = pendingTerminal
          /\ UNCHANGED <<nextJob, finished>>
      BY <2>5 DEF RunnerFinish, outputVars
    <3>2. terminalEvent = NoTerminal
      BY <3>1 DEF IInv, TerminalPlace
    <3>3. \A j \in Jobs : InHand(j) => InHand(j)'
      BY <3>1, <3>2 DEF InHand, NoTerminal, Running
    <3> QED
      BY <2>0, <3>1, <3>3, NobodyMoves
  <2>6. CASE RunnerAnnounce
    <3>1. /\ runnerPc = "announce" /\ UNCHANGED <<nextJob, pendingTerminal>>
          /\ finished' = [finished EXCEPT ![terminalEvent.job] = Append(@, terminalEvent.outcome)]
      BY <2>6 DEF RunnerAnnounce, EmitFinished, stateVars
    <3>2. terminalEvent \in Terminals /\ finished \in [Jobs -> Seq(Outcomes)]
      BY <3>1 DEF IInv, TerminalPlace, TypeInv, TypeOK, OutputTypeOK
    <3>3. finished[terminalEvent.job] = << >> /\ terminalEvent.job \in Jobs
      BY <3>2 DEF Terminals, IInv, AtMostOneFinished
    <3>6. finished'[terminalEvent.job] = <<terminalEvent.outcome>>
      BY <3>1, <3>2, <3>3
    <3>4. \A j \in Jobs : finished[j] # << >> => finished'[j] # << >>
      BY <3>1, <3>2, <3>6
    <3>5. \A j \in Jobs : InHand(j) => InHand(j)' \/ finished'[j] # << >>
      BY <3>1, <3>6 DEF InHand, Running
    <3> QED
      BY <2>0, <3>4, <3>5, NobodyMoves
  <2> QED
    BY <1>3, <2>1, <2>2, <2>3, <2>4, <2>5, <2>6 DEF RunnerStep
<1> QED
  BY <1>2, <1>3 DEF Next, Terminated

-----------------------------------------------------------------------------
\* The runner's way to the shutdown, and what the server's stop finds.
PlaceInv == DrainPlace /\ ServedPlace

\* A step that leaves the slot empty, the flag up and the runner where it is.
LEMMA Undisturbed ==
    ASSUME PlaceInv,
           Idle => Idle', cleanupResults => cleanupResults',
           UNCHANGED <<runnerPc, shouldShutdown, served>>,
           mainPc' = "serving" => mainPc = "serving" /\ httpShutdown' = httpShutdown
    PROVE  PlaceInv'
BY DEF PlaceInv, DrainPlace, ServedPlace

\* Whoever stops the server finds the runner idle, and it stays so.
LEMMA PlaceStep == IInv /\ RInv /\ PlaceInv /\ [Next]_vars => PlaceInv'
<1> SUFFICES ASSUME IInv, RInv, PlaceInv, [Next]_vars PROVE PlaceInv'
  OBVIOUS
<1> USE RequestsAssumption DEF RequestsAssumption, Requests
<1>1. ASSUME NEW r \in Requests, Arrive(r) \/ HandlerStep(r) PROVE PlaceInv'
  <2>1. Idle => Idle'
    <3>1. CASE AcceptCommand(r)
      BY <3>1 DEF AcceptCommand, ClosedToCommands, Idle
    <3>2. CASE HandleCancel(r)
      BY <3>2 DEF HandleCancel, CancelNamesActive, NoActive, Idle
    <3>3. CASE ~AcceptCommand(r) /\ ~HandleCancel(r)
      BY <1>1, <3>3 DEF Arrive, HandlerStep, HandleStop, RejectCancel, RejectCommand,
         EmitThenReply, stateVars, Idle
    <3> QED
      BY <3>1, <3>2, <3>3
  <2>2. /\ UNCHANGED <<runnerPc, shouldShutdown, served, cleanupResults, httpShutdown>>
        /\ mainPc' = "serving" => mainPc = "serving"
    BY <1>1 DEF Arrive, HandlerStep, HandleStop, HandleCancel, RejectCancel, RejectCommand,
       AcceptCommand, MainMeanwhile, EmitThenReply, stateVars, runnerVars, mainVars
  <2> QED
    BY <2>1, <2>2, Undisturbed
<1>2. CASE RunnerStep
  <2>1. CASE RunnerDrain
    <3>1. /\ runnerPc = "wait" /\ runnerPc' = "gone" /\ shutdownFlag /\ nextJob = NoJob
          /\ cleanupResults' = TRUE /\ mainPc' \in {mainPc, "failing"}
          /\ UNCHANGED <<activeJob, nextJob, shutdownFlag, shouldShutdown, served>>
      BY <2>1 DEF RunnerDrain, StopSeenIdle, MainMeanwhile
    <3>2. activeJob = NoActive
      <4>1. job = NoJob
        BY <3>1 DEF RInv, SlotOwner, Running
      <4>2. activeJob.job = NoJob
        BY <3>1, <4>1 DEF IInv, SingleSlot
      <4> QED
        BY <4>2 DEF IInv, TypeInv, TypeOK, StateTypeOK, ActiveJobs
    <3> QED
      BY <3>1, <3>2 DEF PlaceInv, DrainPlace, ServedPlace, Idle
  <2>2. CASE RunnerShutdownAfterJob
    <3>1. /\ runnerPc = "drain" /\ runnerPc' = "wait" /\ shouldShutdown' = FALSE
          /\ cleanupResults' = TRUE /\ mainPc' \in {mainPc, "failing"}
          /\ UNCHANGED <<activeJob, nextJob, shutdownFlag, served>>
      BY <2>2 DEF RunnerShutdownAfterJob, MainMeanwhile
    <3> QED
      BY <3>1 DEF PlaceInv, DrainPlace, ServedPlace, Idle
  <2>3. CASE RunnerFinish
    <3>1. /\ runnerPc = "finish" /\ runnerPc' = "announce" /\ shouldShutdown' = shutdownFlag
          /\ activeJob' = NoActive /\ mainPc' \in {mainPc, "failing"}
          /\ UNCHANGED <<nextJob, shutdownFlag, cleanupResults, served, httpShutdown>>
      BY <2>3 DEF RunnerFinish, MainMeanwhile
    <3>2. nextJob = NoJob
      BY <3>1 DEF IInv, SingleSlot
    <3> QED
      BY <3>1, <3>2 DEF PlaceInv, DrainPlace, ServedPlace, Idle
  <2>4. CASE RunnerAnnounce
    BY <2>4 DEF RunnerAnnounce, PlaceInv, DrainPlace, ServedPlace, Idle, stateVars, mainVars
  <2>5. CASE RunnerTake \/ RunnerLeave
    BY <2>5 DEF RunnerTake, RunnerLeave, PlaceInv, DrainPlace, ServedPlace, Idle, stateVars, mainVars
  <2>6. CASE \/ RunnerBegin \/ RunnerCheckLate \/ RunnerClassify \/ RunnerFails
             \/ \E o \in Outcomes : RunnerPublish(o)
             \/ \E ok \in BOOLEAN : RunnerSafeOff(ok) \/ RunnerCloseSession(ok)
             \/ \E r \in CoreResults, opened \in BOOLEAN : RunnerCore(r, opened)
    <3>1. /\ runnerPc \in Running /\ runnerPc' \in Running \cup {"finish"}
          /\ UNCHANGED <<shouldShutdown, mainPc, served, httpShutdown>>
      BY <2>6 DEF RunnerBegin, RunnerCheckLate, RunnerClassify, RunnerFails, RunnerPublish,
         RunnerSafeOff, RunnerCloseSession, RunnerCore, Running, mainVars
    <3> QED
      BY <3>1 DEF PlaceInv, DrainPlace, ServedPlace, Running
  <2> QED
    BY <1>2, <2>1, <2>2, <2>3, <2>4, <2>5, <2>6 DEF RunnerStep
<1>3. CASE MainStep
  <2>1. CASE MainShutdown
    BY <2>1 DEF MainShutdown, MainGoto, PlaceInv, DrainPlace, ServedPlace, Idle, stateVars, runnerVars
  <2>2. CASE MainInterrupt \/ MainStoreFatal
    BY <2>2 DEF MainInterrupt, MainStoreFatal, MainGoto, PlaceInv, DrainPlace, ServedPlace, Idle,
       stateVars, runnerVars
  <2>3. CASE \/ MainServeFails \/ MainStop \/ MainFlag \/ MainRequestShutdown
             \/ MainReleaseRunner \/ MainSummary \/ MainExit
    <3>1. /\ UNCHANGED <<runnerPc, shouldShutdown, served, nextJob, activeJob, cleanupResults>>
          /\ shutdownFlag => shutdownFlag'
          /\ mainPc' # "serving"
      BY <2>3 DEF MainServeFails, MainStop, MainFlag, MainRequestShutdown, MainReleaseRunner,
         MainSummary, MainExit, MainGoto, stateVars, runnerVars
    <3> QED
      BY <3>1, Undisturbed DEF Idle
  <2> QED
    BY <1>3, <2>1, <2>2, <2>3 DEF MainStep, MainClosing
<1>4. CASE UNCHANGED vars
  BY <1>4, Undisturbed DEF vars, stateVars, runnerVars, mainVars, Idle
<1> QED
  BY <1>1, <1>2, <1>3, <1>4 DEF Next, Terminated

-----------------------------------------------------------------------------
\* The strengthening of the four invariants.
EndInv ==
    /\ RInv
    /\ FailedHasFatalError
    /\ LastTerminal /\ TerminalAgreement
    /\ AcceptedPlaced
    /\ PlaceInv

\* EndInv holds in every reachable state.
THEOREM EndsInductive == Spec => []EndInv
<1> USE RequestsAssumption DEF RequestsAssumption, Requests
<1>1. Init => EndInv
  <2> SUFFICES ASSUME Init PROVE EndInv
    OBVIOUS
  <2>1. RInv
    BY ResultInit
  <2>2. FailedHasFatalError /\ LastTerminal /\ AcceptedPlaced
    BY DEF Init, FailedHasFatalError, WorkerState, LastTerminal, AcceptedPlaced, Accepted
  <2>3. TerminalAgreement /\ PlaceInv
    BY DEF Init, TerminalAgreement, Finished, PlaceInv, DrainPlace, ServedPlace
  <2> QED
    BY <2>1, <2>2, <2>3 DEF EndInv
<1>2. IInv /\ EndInv /\ [Next]_vars => EndInv'
  BY ResultStep, FailureStep, AgreementStep, PlacedStep, PlaceStep DEF EndInv
<1> QED
  BY <1>1, <1>2, Inductive, PTL DEF Spec

\* A failed Worker has a fatal error, outside the two unlocked stores of
\* run_worker's except clause, and a failed cleanup is never hidden.
THEOREM FailuresReported == Spec => []FailedHasFatalError
<1>1. EndInv => FailedHasFatalError
  BY DEF EndInv
<1> QED
  BY <1>1, EndsInductive, PTL

\* The terminal in last_job and the one in the event stream are the same.
THEOREM TerminalsAgree == Spec => []TerminalAgreement
<1>1. EndInv => TerminalAgreement
  BY DEF EndInv
<1> QED
  BY <1>1, EndsInductive, PTL

\* The runner tells the server to stop only when no job is queued, running or
\* in cleanup, and nothing is accepted afterwards.
THEOREM ShutdownComesLast == Spec => []ShutdownAfterCleanup
<1>1. EndInv => ShutdownAfterCleanup
  BY DEF EndInv, PlaceInv, ServedPlace, Idle, ShutdownAfterCleanup
<1> QED
  BY <1>1, EndsInductive, PTL

\* After a shutdown that a stop requested, every job accepted before it, in
\* whatever order the handlers ran, was announced exactly once.
THEOREM NothingLost == Spec => []NoJobLost
<1>1. IInv /\ EndInv => NoJobLost
  <2> SUFFICES ASSUME IInv, EndInv, served = "shutdown", NEW j \in Jobs, Accepted(j)
               PROVE  Len(finished[j]) = 1
    BY DEF NoJobLost
  <2>1. runnerPc \in {"wait", "gone"} /\ nextJob = NoJob
    BY DEF EndInv, PlaceInv, ServedPlace, Idle
  <2>2. ~InHand(j)
    BY <2>1, RequestsAssumption DEF InHand, IInv, TerminalPlace, NoTerminal, Running,
       RequestsAssumption, Requests
  <2>3. finished[j] # << >>
    BY <2>2 DEF EndInv, AcceptedPlaced, Finished
  <2>4. finished[j] \in Seq(Outcomes) /\ Len(finished[j]) <= 1
    BY DEF IInv, TypeInv, TypeOK, OutputTypeOK, AtMostOneFinished
  <2>5. Len(finished[j]) \in Nat \ {0}
    BY <2>3, <2>4, EmptySeq
  <2> DEFINE n == Len(finished[j])
  <2>6. n \in Nat \ {0} /\ n <= 1
    BY <2>4, <2>5
  <2> HIDE DEF n
  <2>7. n = 1
    BY <2>6
  <2> QED
    BY <2>7 DEF n
<1> QED
  BY <1>1, Inductive, EndsInductive, PTL
=============================================================================
