--------------------------- MODULE WebJobsProofs ---------------------------
(***************************************************************************)
(* The safety properties of the WebUI's job manager, for any number of     *)
(* commands, live-data jobs and threads.  The strengthening says what the  *)
(* place of a background task tells about its job: whether it holds the    *)
(* hardware lock and the slot, which statuses it may have, and where its   *)
(* call is in the thread pool.                                             *)
(***************************************************************************)
EXTENDS WebJobs, FiniteSetTheorems, SequenceTheorems, TLAPS

Statuses == {"none", "accepted", "started", "cancel_requested"} \cup Terminal

TaskPcs == {"none", "ready", "acquiring", "acquired", "executing", "closing",
            "returned", "sleeping", "sleeping_locked", "done"}

OnHardware(j) == RequiresHardwareLock(j) \/ j \in Lives

Underway(j) == task[j] \notin {"none", "ready", "done"}

HoldsLock(j) ==
    OnHardware(j) /\ task[j] \in {"acquired", "executing", "closing", "returned", "sleeping_locked"}

DataInv ==
    /\ kind \in [Jobs -> Kinds \cup {"live"}] /\ \A j \in Jobs : kind[j] = "live" <=> j \in Lives
    /\ status \in [Jobs -> Statuses] /\ DOMAIN errorCode = Jobs /\ DOMAIN terminals = Jobs
    /\ cancelRequested \in [Jobs -> BOOLEAN] /\ ioInProgress \in [Lives -> BOOLEAN]
    /\ task \in [Jobs -> TaskPcs] /\ result \in [Jobs -> Results]

PlaceInv ==
    /\ pool \in Seq(Jobs) /\ running \subseteq Jobs
    /\ activeJob \in Jobs \cup {NoJob} /\ hardwareLock \in Jobs \cup {NoJob}
    /\ shutdownStarted \in BOOLEAN /\ shutdownJobs \subseteq Jobs
    /\ shutdownPc \in {"idle", "polling", "returned", "failed", "timeout"}

TypeInv == DataInv /\ PlaceInv

\* Which statuses a job may have, by the place of its task.
StatusInv ==
    \A j \in Jobs :
        /\ task[j] = "none" <=> status[j] = "none"
        /\ task[j] = "ready" => status[j] = "accepted" \/ (status[j] = "cancelled" /\ cancelRequested[j])
        /\ Underway(j) => status[j] \in {"started", "cancel_requested"}
        /\ task[j] = "done" => status[j] \in Terminal

\* The slot is the job's from its start to its end, the lock while it reads,
\* runs or naps inside hardware_io.
SlotInv ==
    /\ \A j \in Jobs : activeJob = j <=> RequiresHardwareLock(j) /\ Underway(j)
    /\ \A j \in Jobs : hardwareLock = j <=> HoldsLock(j)
    /\ \A j \in Jobs : task[j] = "acquiring" => OnHardware(j)

\* A job has at most one call, waiting for a thread or in one.
PoolInv ==
    /\ \A j \in running : task[j] \in {"acquiring", "executing", "closing"}
    /\ \A i \in 1..Len(pool) : task[pool[i]] \in {"acquiring", "executing"} /\ pool[i] \notin running
    /\ \A i, k \in 1..Len(pool) : pool[i] = pool[k] => i = k

\* A command has announced its end exactly when it has one.
EventInv ==
    \A j \in Commands :
        /\ terminals[j] = IF status[j] \in Terminal THEN <<status[j]>> ELSE << >>
        /\ task[j] \in {"closing", "returned"} => result[j] # "none"

\* A shutdown waits for every job that has not ended, and none comes after it.
ShutdownInv ==
    /\ shutdownPc # "idle" => shutdownStarted
    /\ shutdownStarted => \A j \in Jobs : Unfinished(j) => j \in shutdownJobs
    /\ shutdownPc = "returned" => \A j \in Jobs : ~Unfinished(j)

IInv == TypeInv /\ StatusInv /\ SlotInv /\ PoolInv /\ EventInv /\ ShutdownInv

-----------------------------------------------------------------------------
\* Commands and live-data jobs are different jobs, and None is neither.
LEMMA JobsFacts == Commands \subseteq Jobs /\ Lives \subseteq Jobs /\ NoJob \notin Jobs
                   /\ Commands \cap Lives = {}
BY JobsAssumption DEF Jobs

\* What the calls waiting for a thread are after one more, or one less.
LEMMA PoolFacts ==
    ASSUME pool \in Seq(Jobs)
    PROVE  /\ \A j \in Jobs :
               /\ Append(pool, j) \in Seq(Jobs) /\ Len(Append(pool, j)) = Len(pool) + 1
               /\ \A i \in 1..Len(pool) : Append(pool, j)[i] = pool[i]
               /\ Append(pool, j)[Len(pool) + 1] = j
           /\ pool # << >> =>
               /\ Head(pool) \in Jobs /\ Tail(pool) \in Seq(Jobs)
               /\ Len(pool) >= 1 /\ Head(pool) = pool[1] /\ Len(Tail(pool)) = Len(pool) - 1
               /\ \A i \in 1..Len(Tail(pool)) : Tail(pool)[i] = pool[i + 1]
<1>1. \A j \in Jobs :
        /\ Append(pool, j) \in Seq(Jobs) /\ Len(Append(pool, j)) = Len(pool) + 1
        /\ \A i \in 1..Len(pool) : Append(pool, j)[i] = pool[i]
        /\ Append(pool, j)[Len(pool) + 1] = j
  BY AppendProperties
<1>2. pool # << >> => Len(pool) >= 1 /\ Head(pool) = pool[1]
  OBVIOUS
<1>3. pool # << >> =>
        /\ Head(pool) \in Jobs /\ Tail(pool) \in Seq(Jobs)
        /\ Len(Tail(pool)) = Len(pool) - 1
        /\ \A i \in 1..Len(Tail(pool)) : Tail(pool)[i] = pool[i + 1]
  BY HeadTailProperties
<1> QED
  BY <1>1, <1>2, <1>3

\* The strengthening holds before the first request.
LEMMA InitHolds == Init => IInv
<1> SUFFICES ASSUME Init PROVE IInv
  OBVIOUS
<1> USE DEF Init
<1>1. TypeInv
  <2>1. kind \in [Jobs -> Kinds \cup {"live"}] /\ \A j \in Jobs : kind[j] = "live" <=> j \in Lives
    OBVIOUS
  <2>2. pool \in Seq(Jobs)
    OBVIOUS
  <2> QED
    BY <2>1, <2>2, JobsFacts DEF TypeInv, DataInv, PlaceInv, Statuses, TaskPcs, Results
<1>2. StatusInv /\ SlotInv /\ EventInv
  BY JobsFacts DEF StatusInv, SlotInv, EventInv, Underway, HoldsLock, Terminal
<1>3. PoolInv /\ ShutdownInv
  BY JobsFacts DEF PoolInv, ShutdownInv, Unfinished, Terminal
<1> QED
  BY <1>1, <1>2, <1>3 DEF IInv

\* The first event of a job that had none.
LEMMA FirstEvent == \A s : Append(<< >>, s) = <<s>>
OBVIOUS

\* Whatever a command's call returned or raised, its task ends the job.
LEMMA EndingIsTerminal ==
    ASSUME IInv, NEW j \in Commands, task[j] = "returned"
    PROVE  /\ Ending(j)[1] \in Terminal
           /\ Ending(j)[1] # "none"
<1>1. result[j] \in {"ok", "cancelled", "cleanup_failed", "error"}
  BY JobsFacts DEF IInv, TypeInv, DataInv, EventInv, Results
<1>2. cancelRequested[j] \in BOOLEAN
  BY JobsFacts DEF IInv, TypeInv, DataInv
<1> QED
  BY <1>1, <1>2 DEF Ending, Terminal


-----------------------------------------------------------------------------
(* A segment of the loop: job j's task goes on to pc and its status to s.  *)

Holding == {"acquired", "executing", "closing", "returned", "sleeping_locked"}

\* The status fits the place, and nothing begins once a shutdown has.
TaskGoes(j, pc, s) ==
    /\ pc \in TaskPcs /\ s \in Statuses
    /\ task[j] \in {"none", "ready", "acquired", "returned", "sleeping", "sleeping_locked"}
    /\ task' = [task EXCEPT ![j] = pc] /\ status' = [status EXCEPT ![j] = s]
    /\ pc = "ready" => s = "accepted"
    /\ pc = "done" => s \in Terminal
    /\ pc \notin {"ready", "done"} => s \in {"started", "cancel_requested"}
    /\ s \notin Terminal => Unfinished(j) \/ ~shutdownStarted
    /\ UNCHANGED <<kind, cancelRequested, shutdownVars>>

\* A task that goes to a thread hands a call over.
CallGoes(j, pc) ==
    \/ pc \in {"acquiring", "executing"} /\ pool' = Append(pool, j) /\ running' = running
    \/ pc \in {"ready", "sleeping", "sleeping_locked", "done"} /\ pool' = pool /\ running' = running

\* The slot and the lock go with the task.
LocksGo(j, pc) ==
    /\ pc = "acquiring" => OnHardware(j)
    /\ IF RequiresHardwareLock(j) /\ pc \notin {"ready", "done"}
       THEN activeJob \in {j, NoJob} /\ activeJob' = j
       ELSE activeJob' = SlotAfter(j)
    /\ IF OnHardware(j) /\ pc \in Holding
       THEN hardwareLock \in {j, NoJob} /\ hardwareLock' = j
       ELSE hardwareLock' = IF hardwareLock = j THEN NoJob ELSE hardwareLock

\* The end of a command is announced once, and is final.
EndsOnce(j, s) ==
    /\ DOMAIN terminals' = Jobs /\ \A k \in Jobs \ {j} : terminals'[k] = terminals[k]
    /\ j \in Commands => terminals'[j] = IF s \in Terminal THEN <<s>> ELSE << >>
    /\ DOMAIN errorCode' = Jobs /\ \A k \in Jobs \ {j} : errorCode'[k] = errorCode[k]
    /\ j \in Commands /\ status[j] \in Terminal => s = status[j] /\ errorCode'[j] = errorCode[j]

\* A reading begins while no command is active.
ReadingsGo(j) ==
    /\ ioInProgress' \in [Lives -> BOOLEAN]
    /\ \A k \in Lives : ~ioInProgress[k] /\ ioInProgress'[k] => activeJob = NoJob
    /\ result' \in [Jobs -> Results] /\ \A k \in Jobs \ {j} : result'[k] = result[k]

Moves(j, pc, s) ==
    TaskGoes(j, pc, s) /\ CallGoes(j, pc) /\ LocksGo(j, pc) /\ EndsOnce(j, s) /\ ReadingsGo(j)

(* Each segment of the loop that a request or a task runs is such a move:  *)
(* the handlers of app.py between two awaits.                              *)
LEMMA SegmentMoves ==
    ASSUME IInv, NEW j \in Jobs,
           CreateJob(j) \/ CreateOfflineJob(j) \/ StartLiveData(j) \/ LoopStep(j)
    PROVE  \E pc \in TaskPcs, s \in Statuses : Moves(j, pc, s)
<1> USE JobsFacts DEF shutdownVars, poolVars, lockVars, jobVars, taskVars, IInv, TypeInv,
        DataInv, PlaceInv, SetStatus, Goto, Call, SlotAfter
<1>1. CASE CreateJob(j)
  <2>1. TaskGoes(j, "ready", "accepted")
    BY <1>1 DEF CreateJob, Admits, StatusInv, ShutdownInv, TaskGoes, TaskPcs, Statuses,
       Terminal, Unfinished, Underway
  <2>2. LocksGo(j, "ready")
    BY <1>1 DEF CreateJob, Admits, StatusInv, SlotInv, LocksGo, Holding, OnHardware,
       HoldsLock, Underway, RequiresHardwareLock
  <2>3. EndsOnce(j, "accepted")
    BY <1>1 DEF CreateJob, Admits, StatusInv, EventInv, EndsOnce, Terminal, Underway
  <2>4. CallGoes(j, "ready") /\ ReadingsGo(j)
    BY <1>1 DEF CreateJob, Admits, CallGoes, ReadingsGo, Results
  <2> QED
    BY <2>1, <2>2, <2>3, <2>4 DEF Moves, TaskGoes
<1>2. CASE CreateOfflineJob(j)
  <2>1. TaskGoes(j, "executing", "started")
    BY <1>2 DEF CreateOfflineJob, Admits, StatusInv, ShutdownInv, TaskGoes, TaskPcs,
       Statuses, Terminal, Unfinished, Underway
  <2>2. LocksGo(j, "executing")
    BY <1>2 DEF CreateOfflineJob, Admits, StatusInv, SlotInv, LocksGo, Holding, OnHardware,
       HoldsLock, Underway, RequiresHardwareLock
  <2>3. EndsOnce(j, "started")
    BY <1>2 DEF CreateOfflineJob, Admits, StatusInv, EventInv, EndsOnce, Terminal, Underway
  <2>4. CallGoes(j, "executing") /\ ReadingsGo(j)
    BY <1>2 DEF CreateOfflineJob, Admits, CallGoes, ReadingsGo, Results
  <2> QED
    BY <2>1, <2>2, <2>3, <2>4 DEF Moves, TaskGoes
<1>3. CASE StartLiveData(j)
  <2>1. TaskGoes(j, "ready", "accepted")
    BY <1>3 DEF StartLiveData, Admits, StatusInv, ShutdownInv, TaskGoes, TaskPcs, Statuses,
       Terminal, Unfinished, Underway
  <2>2. LocksGo(j, "ready")
    BY <1>3 DEF StartLiveData, Admits, StatusInv, SlotInv, LocksGo, Holding, OnHardware,
       HoldsLock, Underway, RequiresHardwareLock
  <2>3. EndsOnce(j, "accepted")
    BY <1>3 DEF StartLiveData, Admits, StatusInv, EventInv, EndsOnce, Terminal, Underway
  <2>4. CallGoes(j, "ready") /\ ReadingsGo(j)
    BY <1>3 DEF StartLiveData, Admits, CallGoes, ReadingsGo, Results
  <2> QED
    BY <2>1, <2>2, <2>3, <2>4 DEF Moves, TaskGoes
<1>4. CASE TaskStart(j)
  <2>1. CASE ~RequiresHardwareLock(j)
    <3>1. TaskGoes(j, "executing", "started")
      BY <1>4, <2>1 DEF TaskStart, Starts, EnterHardwareIo, StatusInv, ShutdownInv,
         TaskGoes, TaskPcs, Statuses, Terminal, Unfinished, Underway
    <3>2. LocksGo(j, "executing")
      BY <1>4, <2>1 DEF TaskStart, Starts, EnterHardwareIo, StatusInv, SlotInv, LocksGo,
         Holding, OnHardware, HoldsLock, Underway, RequiresHardwareLock
    <3>3. EndsOnce(j, "started")
      BY <1>4, <2>1 DEF TaskStart, Starts, EnterHardwareIo, StatusInv, EventInv, EndsOnce,
         Terminal, Underway
    <3>4. CallGoes(j, "executing") /\ ReadingsGo(j)
      BY <1>4, <2>1 DEF TaskStart, Starts, EnterHardwareIo, CallGoes, ReadingsGo, Results
    <3> QED
      BY <3>1, <3>2, <3>3, <3>4 DEF Moves, TaskGoes
  <2>2. CASE RequiresHardwareLock(j) /\ hardwareLock = NoJob
    <3>1. TaskGoes(j, "executing", "started")
      BY <1>4, <2>2 DEF TaskStart, Starts, EnterHardwareIo, StatusInv, ShutdownInv,
         TaskGoes, TaskPcs, Statuses, Terminal, Unfinished, Underway
    <3>2. LocksGo(j, "executing")
      BY <1>4, <2>2 DEF TaskStart, Starts, EnterHardwareIo, StatusInv, SlotInv, LocksGo,
         Holding, OnHardware, HoldsLock, Underway, RequiresHardwareLock
    <3>3. EndsOnce(j, "started")
      BY <1>4, <2>2 DEF TaskStart, Starts, EnterHardwareIo, StatusInv, EventInv, EndsOnce,
         Terminal, Underway
    <3>4. CallGoes(j, "executing") /\ ReadingsGo(j)
      BY <1>4, <2>2 DEF TaskStart, Starts, EnterHardwareIo, CallGoes, ReadingsGo, Results
    <3> QED
      BY <3>1, <3>2, <3>3, <3>4 DEF Moves, TaskGoes
  <2>3. CASE RequiresHardwareLock(j) /\ hardwareLock # NoJob
    <3>1. TaskGoes(j, "acquiring", "started")
      BY <1>4, <2>3 DEF TaskStart, Starts, EnterHardwareIo, StatusInv, ShutdownInv,
         TaskGoes, TaskPcs, Statuses, Terminal, Unfinished, Underway
    <3>2. LocksGo(j, "acquiring")
      BY <1>4, <2>3 DEF TaskStart, Starts, EnterHardwareIo, StatusInv, SlotInv, LocksGo,
         Holding, OnHardware, HoldsLock, Underway, RequiresHardwareLock
    <3>3. EndsOnce(j, "started")
      BY <1>4, <2>3 DEF TaskStart, Starts, EnterHardwareIo, StatusInv, EventInv, EndsOnce,
         Terminal, Underway
    <3>4. CallGoes(j, "acquiring") /\ ReadingsGo(j)
      BY <1>4, <2>3 DEF TaskStart, Starts, EnterHardwareIo, CallGoes, ReadingsGo, Results
    <3> QED
      BY <3>1, <3>2, <3>3, <3>4 DEF Moves, TaskGoes
  <2> QED
    BY <2>1, <2>2, <2>3
<1>5. CASE TaskCannotStart(j)
  <2>1. CASE FailsToStart(j)
    <3>1. TaskGoes(j, "done", "failed")
      BY <1>5, <2>1 DEF TaskCannotStart, Starts, FailsToStart, EndJob, StatusInv,
         ShutdownInv, TaskGoes, TaskPcs, Statuses, Terminal, Unfinished, Underway
    <3>2. LocksGo(j, "done")
      BY <1>5, <2>1 DEF TaskCannotStart, Starts, FailsToStart, EndJob, StatusInv, SlotInv,
         LocksGo, Holding, OnHardware, HoldsLock, Underway, RequiresHardwareLock
    <3>3. EndsOnce(j, "failed")
      <4>1. status[j] \notin Terminal
        BY <1>5, <2>1 DEF TaskCannotStart, Starts, FailsToStart, EndJob, StatusInv,
           Terminal, Underway
      <4>2. j \in Commands => terminals[j] = << >>
        BY <4>1 DEF EventInv
      <4>3. /\ terminals' = [terminals EXCEPT ![j] = Append(@, "failed")]
            /\ DOMAIN errorCode' = Jobs /\ \A k \in Jobs \ {j} : errorCode'[k] = errorCode[k]
        BY <1>5, <2>1 DEF TaskCannotStart, Starts, FailsToStart, EndJob
      <4>4. "failed" \in Terminal
        BY <1>5, <2>1 DEF TaskCannotStart, Terminal
      <4>5. j \in Commands => terminals'[j] = <<"failed">>
        BY <4>2, <4>3, FirstEvent
      <4> QED
        BY <4>1, <4>3, <4>4, <4>5 DEF EndsOnce
    <3>4. CallGoes(j, "done") /\ ReadingsGo(j)
      BY <1>5, <2>1 DEF TaskCannotStart, Starts, FailsToStart, EndJob, CallGoes,
         ReadingsGo, Results
    <3> QED
      BY <3>1, <3>2, <3>3, <3>4 DEF Moves, TaskGoes
  <2>2. CASE ~FailsToStart(j)
    <3>1. TaskGoes(j, "done", "cancelled")
      BY <1>5, <2>2 DEF TaskCannotStart, Starts, FailsToStart, EndJob, StatusInv,
         ShutdownInv, TaskGoes, TaskPcs, Statuses, Terminal, Unfinished, Underway
    <3>2. LocksGo(j, "done")
      BY <1>5, <2>2 DEF TaskCannotStart, Starts, FailsToStart, EndJob, StatusInv, SlotInv,
         LocksGo, Holding, OnHardware, HoldsLock, Underway, RequiresHardwareLock
    <3>3. EndsOnce(j, "cancelled")
      BY <1>5, <2>2, FirstEvent DEF TaskCannotStart, Starts, FailsToStart, EndJob,
         StatusInv, EventInv, EndsOnce, Terminal, Underway
    <3>4. CallGoes(j, "done") /\ ReadingsGo(j)
      BY <1>5, <2>2 DEF TaskCannotStart, Starts, FailsToStart, EndJob, CallGoes,
         ReadingsGo, Results
    <3> QED
      BY <3>1, <3>2, <3>3, <3>4 DEF Moves, TaskGoes
  <2> QED
    BY <2>1, <2>2
<1>6. CASE TaskAcquired(j)
  <2>1. TaskGoes(j, "executing", status[j])
    BY <1>6 DEF TaskAcquired, StatusInv, ShutdownInv, TaskGoes, TaskPcs, Statuses, Terminal,
       Unfinished, Underway
  <2>2. LocksGo(j, "executing")
    BY <1>6 DEF TaskAcquired, StatusInv, SlotInv, LocksGo, Holding, OnHardware, HoldsLock,
       Underway, RequiresHardwareLock
  <2>3. EndsOnce(j, status[j])
    BY <1>6 DEF TaskAcquired, StatusInv, EventInv, EndsOnce, Terminal, Underway
  <2>4. CallGoes(j, "executing") /\ ReadingsGo(j)
    BY <1>6 DEF TaskAcquired, CallGoes, ReadingsGo, Results
  <2> QED
    BY <2>1, <2>2, <2>3, <2>4 DEF Moves, TaskGoes
<1>7. CASE TaskReturns(j)
  <2>1. TaskGoes(j, "done", Ending(j)[1])
    BY <1>7, EndingIsTerminal DEF TaskReturns, EndJob, StatusInv, ShutdownInv, TaskGoes,
       TaskPcs, Statuses, Terminal, Unfinished, Underway
  <2>2. LocksGo(j, "done")
    BY <1>7, EndingIsTerminal DEF TaskReturns, EndJob, StatusInv, SlotInv, LocksGo, Holding,
       OnHardware, HoldsLock, Underway, RequiresHardwareLock
  <2>3. EndsOnce(j, Ending(j)[1])
    <3>1. status[j] \notin Terminal
      BY <1>7, EndingIsTerminal DEF TaskReturns, EndJob, StatusInv, Terminal, Underway
    <3>2. j \in Commands => terminals[j] = << >>
      BY <3>1 DEF EventInv
    <3>3. /\ terminals' = [terminals EXCEPT ![j] = Append(@, Ending(j)[1])]
          /\ DOMAIN errorCode' = Jobs /\ \A k \in Jobs \ {j} : errorCode'[k] = errorCode[k]
      BY <1>7, EndingIsTerminal DEF TaskReturns, EndJob
    <3>4. Ending(j)[1] \in Terminal
      BY <1>7, EndingIsTerminal DEF TaskReturns, Terminal
    <3>5. j \in Commands => terminals'[j] = <<Ending(j)[1]>>
      BY <3>2, <3>3, FirstEvent
    <3> QED
      BY <3>1, <3>3, <3>4, <3>5 DEF EndsOnce
  <2>4. CallGoes(j, "done") /\ ReadingsGo(j)
    BY <1>7, EndingIsTerminal DEF TaskReturns, EndJob, CallGoes, ReadingsGo, Results
  <2> QED
    BY <2>1, <2>2, <2>3, <2>4 DEF Moves, TaskGoes
<1>8. CASE LiveStart(j)
  <2>1. CASE cancelRequested[j]
    <3>1. TaskGoes(j, "done", "cancelled")
      BY <1>8, <2>1 DEF LiveStart, LivePass, LiveEnds, EnterHardwareIo, EndJob, StatusInv,
         ShutdownInv, TaskGoes, TaskPcs, Statuses, Terminal, Unfinished, Underway
    <3>2. LocksGo(j, "done")
      BY <1>8, <2>1 DEF LiveStart, LivePass, LiveEnds, EnterHardwareIo, EndJob, StatusInv,
         SlotInv, LocksGo, Holding, OnHardware, HoldsLock, Underway, RequiresHardwareLock
    <3>3. EndsOnce(j, "cancelled")
      BY <1>8, <2>1 DEF LiveStart, LivePass, LiveEnds, EnterHardwareIo, EndJob, StatusInv,
         EventInv, EndsOnce, Terminal, Underway
    <3>4. CallGoes(j, "done") /\ ReadingsGo(j)
      BY <1>8, <2>1 DEF LiveStart, LivePass, LiveEnds, EnterHardwareIo, EndJob, CallGoes,
         ReadingsGo, Results
    <3> QED
      BY <3>1, <3>2, <3>3, <3>4 DEF Moves, TaskGoes
  <2>2. CASE ~cancelRequested[j] /\ activeJob # NoJob
    <3>1. TaskGoes(j, "sleeping", "started")
      BY <1>8, <2>2 DEF LiveStart, LivePass, LiveEnds, EnterHardwareIo, EndJob, StatusInv,
         ShutdownInv, TaskGoes, TaskPcs, Statuses, Terminal, Unfinished, Underway
    <3>2. LocksGo(j, "sleeping")
      BY <1>8, <2>2 DEF LiveStart, LivePass, LiveEnds, EnterHardwareIo, EndJob, StatusInv,
         SlotInv, LocksGo, Holding, OnHardware, HoldsLock, Underway, RequiresHardwareLock
    <3>3. EndsOnce(j, "started")
      BY <1>8, <2>2 DEF LiveStart, LivePass, LiveEnds, EnterHardwareIo, EndJob, StatusInv,
         EventInv, EndsOnce, Terminal, Underway
    <3>4. CallGoes(j, "sleeping") /\ ReadingsGo(j)
      BY <1>8, <2>2 DEF LiveStart, LivePass, LiveEnds, EnterHardwareIo, EndJob, CallGoes,
         ReadingsGo, Results
    <3> QED
      BY <3>1, <3>2, <3>3, <3>4 DEF Moves, TaskGoes
  <2>3. CASE ~cancelRequested[j] /\ activeJob = NoJob /\ hardwareLock = NoJob
    <3>1. TaskGoes(j, "executing", "started")
      BY <1>8, <2>3 DEF LiveStart, LivePass, LiveEnds, EnterHardwareIo, EndJob, StatusInv,
         ShutdownInv, TaskGoes, TaskPcs, Statuses, Terminal, Unfinished, Underway
    <3>2. LocksGo(j, "executing")
      BY <1>8, <2>3 DEF LiveStart, LivePass, LiveEnds, EnterHardwareIo, EndJob, StatusInv,
         SlotInv, LocksGo, Holding, OnHardware, HoldsLock, Underway, RequiresHardwareLock
    <3>3. EndsOnce(j, "started")
      BY <1>8, <2>3 DEF LiveStart, LivePass, LiveEnds, EnterHardwareIo, EndJob, StatusInv,
         EventInv, EndsOnce, Terminal, Underway
    <3>4. CallGoes(j, "executing") /\ ReadingsGo(j)
      BY <1>8, <2>3 DEF LiveStart, LivePass, LiveEnds, EnterHardwareIo, EndJob, CallGoes,
         ReadingsGo, Results
    <3> QED
      BY <3>1, <3>2, <3>3, <3>4 DEF Moves, TaskGoes
  <2>4. CASE ~cancelRequested[j] /\ activeJob = NoJob /\ hardwareLock # NoJob
    <3>1. TaskGoes(j, "acquiring", "started")
      BY <1>8, <2>4 DEF LiveStart, LivePass, LiveEnds, EnterHardwareIo, EndJob, StatusInv,
         ShutdownInv, TaskGoes, TaskPcs, Statuses, Terminal, Unfinished, Underway
    <3>2. LocksGo(j, "acquiring")
      BY <1>8, <2>4 DEF LiveStart, LivePass, LiveEnds, EnterHardwareIo, EndJob, StatusInv,
         SlotInv, LocksGo, Holding, OnHardware, HoldsLock, Underway, RequiresHardwareLock
    <3>3. EndsOnce(j, "started")
      BY <1>8, <2>4 DEF LiveStart, LivePass, LiveEnds, EnterHardwareIo, EndJob, StatusInv,
         EventInv, EndsOnce, Terminal, Underway
    <3>4. CallGoes(j, "acquiring") /\ ReadingsGo(j)
      BY <1>8, <2>4 DEF LiveStart, LivePass, LiveEnds, EnterHardwareIo, EndJob, CallGoes,
         ReadingsGo, Results
    <3> QED
      BY <3>1, <3>2, <3>3, <3>4 DEF Moves, TaskGoes
  <2> QED
    BY <2>1, <2>2, <2>3, <2>4
<1>9. CASE LiveStartFails(j)
  <2>1. TaskGoes(j, "done", "failed")
    BY <1>9 DEF LiveStartFails, EndJob, StatusInv, ShutdownInv, TaskGoes, TaskPcs, Statuses,
       Terminal, Unfinished, Underway
  <2>2. LocksGo(j, "done")
    BY <1>9 DEF LiveStartFails, EndJob, StatusInv, SlotInv, LocksGo, Holding, OnHardware,
       HoldsLock, Underway, RequiresHardwareLock
  <2>3. EndsOnce(j, "failed")
    BY <1>9 DEF LiveStartFails, EndJob, StatusInv, EventInv, EndsOnce, Terminal, Underway
  <2>4. CallGoes(j, "done") /\ ReadingsGo(j)
    BY <1>9 DEF LiveStartFails, EndJob, CallGoes, ReadingsGo, Results
  <2> QED
    BY <2>1, <2>2, <2>3, <2>4 DEF Moves, TaskGoes
<1>10. CASE LiveAcquired(j)
  <2>1. CASE MayReadAfterWait(j)
    <3>1. TaskGoes(j, "executing", status[j])
      BY <1>10, <2>1 DEF LiveAcquired, MayReadAfterWait, LiveReads, LiveEnds, EndJob,
         StatusInv, ShutdownInv, TaskGoes, TaskPcs, Statuses, Terminal, Unfinished,
         Underway
    <3>2. LocksGo(j, "executing")
      BY <1>10, <2>1 DEF LiveAcquired, MayReadAfterWait, LiveReads, LiveEnds, EndJob,
         StatusInv, SlotInv, LocksGo, Holding, OnHardware, HoldsLock, Underway,
         RequiresHardwareLock
    <3>3. EndsOnce(j, status[j])
      BY <1>10, <2>1 DEF LiveAcquired, MayReadAfterWait, LiveReads, LiveEnds, EndJob,
         StatusInv, EventInv, EndsOnce, Terminal, Underway
    <3>4. CallGoes(j, "executing") /\ ReadingsGo(j)
      BY <1>10, <2>1 DEF LiveAcquired, MayReadAfterWait, LiveReads, LiveEnds, EndJob,
         CallGoes, ReadingsGo, Results
    <3> QED
      BY <3>1, <3>2, <3>3, <3>4 DEF Moves, TaskGoes
  <2>2. CASE ~MayReadAfterWait(j) /\ cancelRequested[j]
    <3>1. TaskGoes(j, "done", "cancelled")
      BY <1>10, <2>2 DEF LiveAcquired, MayReadAfterWait, LiveReads, LiveEnds, EndJob,
         StatusInv, ShutdownInv, TaskGoes, TaskPcs, Statuses, Terminal, Unfinished,
         Underway
    <3>2. LocksGo(j, "done")
      BY <1>10, <2>2 DEF LiveAcquired, MayReadAfterWait, LiveReads, LiveEnds, EndJob,
         StatusInv, SlotInv, LocksGo, Holding, OnHardware, HoldsLock, Underway,
         RequiresHardwareLock
    <3>3. EndsOnce(j, "cancelled")
      BY <1>10, <2>2 DEF LiveAcquired, MayReadAfterWait, LiveReads, LiveEnds, EndJob,
         StatusInv, EventInv, EndsOnce, Terminal, Underway
    <3>4. CallGoes(j, "done") /\ ReadingsGo(j)
      BY <1>10, <2>2 DEF LiveAcquired, MayReadAfterWait, LiveReads, LiveEnds, EndJob,
         CallGoes, ReadingsGo, Results
    <3> QED
      BY <3>1, <3>2, <3>3, <3>4 DEF Moves, TaskGoes
  <2>3. CASE ~MayReadAfterWait(j) /\ ~cancelRequested[j]
    <3>1. TaskGoes(j, "sleeping_locked", status[j])
      BY <1>10, <2>3 DEF LiveAcquired, MayReadAfterWait, LiveReads, LiveEnds, EndJob,
         StatusInv, ShutdownInv, TaskGoes, TaskPcs, Statuses, Terminal, Unfinished,
         Underway
    <3>2. LocksGo(j, "sleeping_locked")
      BY <1>10, <2>3 DEF LiveAcquired, MayReadAfterWait, LiveReads, LiveEnds, EndJob,
         StatusInv, SlotInv, LocksGo, Holding, OnHardware, HoldsLock, Underway,
         RequiresHardwareLock
    <3>3. EndsOnce(j, status[j])
      BY <1>10, <2>3 DEF LiveAcquired, MayReadAfterWait, LiveReads, LiveEnds, EndJob,
         StatusInv, EventInv, EndsOnce, Terminal, Underway
    <3>4. CallGoes(j, "sleeping_locked") /\ ReadingsGo(j)
      BY <1>10, <2>3 DEF LiveAcquired, MayReadAfterWait, LiveReads, LiveEnds, EndJob,
         CallGoes, ReadingsGo, Results
    <3> QED
      BY <3>1, <3>2, <3>3, <3>4 DEF Moves, TaskGoes
  <2> QED
    BY <2>1, <2>2, <2>3 DEF LiveAcquired
<1>11. CASE LiveReturns(j)
  <2>1. CASE cancelRequested[j]
    <3>1. TaskGoes(j, "done", "cancelled")
      BY <1>11, <2>1 DEF LiveReturns, IoAfterReading, LockAfterReading, LiveEnds, EndJob,
         StatusInv, ShutdownInv, TaskGoes, TaskPcs, Statuses, Terminal, Unfinished,
         Underway
    <3>2. LocksGo(j, "done")
      BY <1>11, <2>1 DEF LiveReturns, IoAfterReading, LockAfterReading, LiveEnds, EndJob,
         StatusInv, SlotInv, LocksGo, Holding, OnHardware, HoldsLock, Underway,
         RequiresHardwareLock
    <3>3. EndsOnce(j, "cancelled")
      BY <1>11, <2>1 DEF LiveReturns, IoAfterReading, LockAfterReading, LiveEnds, EndJob,
         StatusInv, EventInv, EndsOnce, Terminal, Underway
    <3>4. CallGoes(j, "done") /\ ReadingsGo(j)
      BY <1>11, <2>1 DEF LiveReturns, IoAfterReading, LockAfterReading, LiveEnds, EndJob,
         CallGoes, ReadingsGo, Results
    <3> QED
      BY <3>1, <3>2, <3>3, <3>4 DEF Moves, TaskGoes
  <2>2. CASE ~cancelRequested[j]
    <3>1. TaskGoes(j, "sleeping", status[j])
      BY <1>11, <2>2 DEF LiveReturns, IoAfterReading, LockAfterReading, LiveEnds, EndJob,
         StatusInv, ShutdownInv, TaskGoes, TaskPcs, Statuses, Terminal, Unfinished,
         Underway
    <3>2. LocksGo(j, "sleeping")
      BY <1>11, <2>2 DEF LiveReturns, IoAfterReading, LockAfterReading, LiveEnds, EndJob,
         StatusInv, SlotInv, LocksGo, Holding, OnHardware, HoldsLock, Underway,
         RequiresHardwareLock
    <3>3. EndsOnce(j, status[j])
      BY <1>11, <2>2 DEF LiveReturns, IoAfterReading, LockAfterReading, LiveEnds, EndJob,
         StatusInv, EventInv, EndsOnce, Terminal, Underway
    <3>4. CallGoes(j, "sleeping") /\ ReadingsGo(j)
      BY <1>11, <2>2 DEF LiveReturns, IoAfterReading, LockAfterReading, LiveEnds, EndJob,
         CallGoes, ReadingsGo, Results
    <3> QED
      BY <3>1, <3>2, <3>3, <3>4 DEF Moves, TaskGoes
  <2> QED
    BY <2>1, <2>2
<1>12. CASE LiveWakes(j)
  <2>1. CASE cancelRequested[j]
    <3>1. TaskGoes(j, "done", "cancelled")
      BY <1>12, <2>1 DEF LiveWakes, LivePass, LiveEnds, EnterHardwareIo, EndJob,
         StatusInv, ShutdownInv, TaskGoes, TaskPcs, Statuses, Terminal, Unfinished,
         Underway
    <3>2. LocksGo(j, "done")
      BY <1>12, <2>1 DEF LiveWakes, LivePass, LiveEnds, EnterHardwareIo, EndJob,
         StatusInv, SlotInv, LocksGo, Holding, OnHardware, HoldsLock, Underway,
         RequiresHardwareLock
    <3>3. EndsOnce(j, "cancelled")
      BY <1>12, <2>1 DEF LiveWakes, LivePass, LiveEnds, EnterHardwareIo, EndJob,
         StatusInv, EventInv, EndsOnce, Terminal, Underway
    <3>4. CallGoes(j, "done") /\ ReadingsGo(j)
      BY <1>12, <2>1 DEF LiveWakes, LivePass, LiveEnds, EnterHardwareIo, EndJob, CallGoes,
         ReadingsGo, Results
    <3> QED
      BY <3>1, <3>2, <3>3, <3>4 DEF Moves, TaskGoes
  <2>2. CASE ~cancelRequested[j] /\ activeJob # NoJob
    <3>1. TaskGoes(j, "sleeping", status[j])
      BY <1>12, <2>2 DEF LiveWakes, LivePass, LiveEnds, EnterHardwareIo, EndJob,
         StatusInv, ShutdownInv, TaskGoes, TaskPcs, Statuses, Terminal, Unfinished,
         Underway
    <3>2. LocksGo(j, "sleeping")
      BY <1>12, <2>2 DEF LiveWakes, LivePass, LiveEnds, EnterHardwareIo, EndJob,
         StatusInv, SlotInv, LocksGo, Holding, OnHardware, HoldsLock, Underway,
         RequiresHardwareLock
    <3>3. EndsOnce(j, status[j])
      BY <1>12, <2>2 DEF LiveWakes, LivePass, LiveEnds, EnterHardwareIo, EndJob,
         StatusInv, EventInv, EndsOnce, Terminal, Underway
    <3>4. CallGoes(j, "sleeping") /\ ReadingsGo(j)
      BY <1>12, <2>2 DEF LiveWakes, LivePass, LiveEnds, EnterHardwareIo, EndJob, CallGoes,
         ReadingsGo, Results
    <3> QED
      BY <3>1, <3>2, <3>3, <3>4 DEF Moves, TaskGoes
  <2>3. CASE ~cancelRequested[j] /\ activeJob = NoJob /\ hardwareLock = NoJob
    <3>1. TaskGoes(j, "executing", status[j])
      BY <1>12, <2>3 DEF LiveWakes, LivePass, LiveEnds, EnterHardwareIo, EndJob,
         StatusInv, ShutdownInv, TaskGoes, TaskPcs, Statuses, Terminal, Unfinished,
         Underway
    <3>2. LocksGo(j, "executing")
      BY <1>12, <2>3 DEF LiveWakes, LivePass, LiveEnds, EnterHardwareIo, EndJob,
         StatusInv, SlotInv, LocksGo, Holding, OnHardware, HoldsLock, Underway,
         RequiresHardwareLock
    <3>3. EndsOnce(j, status[j])
      BY <1>12, <2>3 DEF LiveWakes, LivePass, LiveEnds, EnterHardwareIo, EndJob,
         StatusInv, EventInv, EndsOnce, Terminal, Underway
    <3>4. CallGoes(j, "executing") /\ ReadingsGo(j)
      BY <1>12, <2>3 DEF LiveWakes, LivePass, LiveEnds, EnterHardwareIo, EndJob, CallGoes,
         ReadingsGo, Results
    <3> QED
      BY <3>1, <3>2, <3>3, <3>4 DEF Moves, TaskGoes
  <2>4. CASE ~cancelRequested[j] /\ activeJob = NoJob /\ hardwareLock # NoJob
    <3>1. TaskGoes(j, "acquiring", status[j])
      BY <1>12, <2>4 DEF LiveWakes, LivePass, LiveEnds, EnterHardwareIo, EndJob,
         StatusInv, ShutdownInv, TaskGoes, TaskPcs, Statuses, Terminal, Unfinished,
         Underway
    <3>2. LocksGo(j, "acquiring")
      BY <1>12, <2>4 DEF LiveWakes, LivePass, LiveEnds, EnterHardwareIo, EndJob,
         StatusInv, SlotInv, LocksGo, Holding, OnHardware, HoldsLock, Underway,
         RequiresHardwareLock
    <3>3. EndsOnce(j, status[j])
      BY <1>12, <2>4 DEF LiveWakes, LivePass, LiveEnds, EnterHardwareIo, EndJob,
         StatusInv, EventInv, EndsOnce, Terminal, Underway
    <3>4. CallGoes(j, "acquiring") /\ ReadingsGo(j)
      BY <1>12, <2>4 DEF LiveWakes, LivePass, LiveEnds, EnterHardwareIo, EndJob, CallGoes,
         ReadingsGo, Results
    <3> QED
      BY <3>1, <3>2, <3>3, <3>4 DEF Moves, TaskGoes
  <2> QED
    BY <2>1, <2>2, <2>3, <2>4
<1>13. CASE LiveWakesLocked(j)
  <2>1. CASE cancelRequested[j]
    <3>1. TaskGoes(j, "done", "cancelled")
      BY <1>13, <2>1 DEF LiveWakesLocked, LiveEnds, EndJob, StatusInv, ShutdownInv,
         TaskGoes, TaskPcs, Statuses, Terminal, Unfinished, Underway
    <3>2. LocksGo(j, "done")
      BY <1>13, <2>1 DEF LiveWakesLocked, LiveEnds, EndJob, StatusInv, SlotInv, LocksGo,
         Holding, OnHardware, HoldsLock, Underway, RequiresHardwareLock
    <3>3. EndsOnce(j, "cancelled")
      BY <1>13, <2>1 DEF LiveWakesLocked, LiveEnds, EndJob, StatusInv, EventInv, EndsOnce,
         Terminal, Underway
    <3>4. CallGoes(j, "done") /\ ReadingsGo(j)
      BY <1>13, <2>1 DEF LiveWakesLocked, LiveEnds, EndJob, CallGoes, ReadingsGo, Results
    <3> QED
      BY <3>1, <3>2, <3>3, <3>4 DEF Moves, TaskGoes
  <2>2. CASE ~cancelRequested[j]
    <3>1. TaskGoes(j, "sleeping", status[j])
      BY <1>13, <2>2 DEF LiveWakesLocked, LiveEnds, EndJob, StatusInv, ShutdownInv,
         TaskGoes, TaskPcs, Statuses, Terminal, Unfinished, Underway
    <3>2. LocksGo(j, "sleeping")
      BY <1>13, <2>2 DEF LiveWakesLocked, LiveEnds, EndJob, StatusInv, SlotInv, LocksGo,
         Holding, OnHardware, HoldsLock, Underway, RequiresHardwareLock
    <3>3. EndsOnce(j, status[j])
      BY <1>13, <2>2 DEF LiveWakesLocked, LiveEnds, EndJob, StatusInv, EventInv, EndsOnce,
         Terminal, Underway
    <3>4. CallGoes(j, "sleeping") /\ ReadingsGo(j)
      BY <1>13, <2>2 DEF LiveWakesLocked, LiveEnds, EndJob, CallGoes, ReadingsGo, Results
    <3> QED
      BY <3>1, <3>2, <3>3, <3>4 DEF Moves, TaskGoes
  <2> QED
    BY <2>1, <2>2
<1> QED
  BY <1>1, <1>2, <1>3, <1>4, <1>5, <1>6, <1>7, <1>8, <1>9, <1>10, <1>11, <1>12, <1>13 DEF
     LoopStep

-----------------------------------------------------------------------------
(* A segment of the loop keeps the strengthening.                          *)
LEMMA MoveKeeps ==
    ASSUME IInv, NEW j \in Jobs, NEW pc, NEW s, Moves(j, pc, s)
    PROVE  IInv'
<1> USE JobsFacts DEF IInv, TypeInv, Moves
<1>0. pc \in {"acquiring", "executing", "ready", "sleeping", "sleeping_locked", "done"}
  BY DEF CallGoes
<1>1. DataInv'
  BY DEF DataInv, TaskGoes, EndsOnce, ReadingsGo
<1>2. PlaceInv'
  <2>1. pool' \in Seq(Jobs) /\ running' \subseteq Jobs
    BY PoolFacts DEF PlaceInv, CallGoes
  <2>2. activeJob' \in Jobs \cup {NoJob} /\ hardwareLock' \in Jobs \cup {NoJob}
    BY DEF PlaceInv, LocksGo, SlotAfter
  <2>3. UNCHANGED shutdownVars
    BY DEF TaskGoes
  <2> QED
    BY <2>1, <2>2, <2>3 DEF PlaceInv, shutdownVars
<1>3. StatusInv'
  <2>1. \A k \in Jobs : k # j => task'[k] = task[k] /\ status'[k] = status[k]
    BY DEF DataInv, TaskGoes
  <2>2. task'[j] = pc /\ status'[j] = s /\ cancelRequested' = cancelRequested
    BY DEF DataInv, TaskGoes
  <2> QED
    BY <1>0, <2>1, <2>2 DEF TaskGoes, StatusInv, Underway, Terminal
<1>4. SlotInv'
  BY <1>0 DEF DataInv, PlaceInv, SlotInv, StatusInv, TaskGoes, LocksGo, SlotAfter, Holding, HoldsLock,
         OnHardware, RequiresHardwareLock, Underway
<1>5. PoolInv'
  <2>1. CASE pc \in {"acquiring", "executing"} /\ pool' = Append(pool, j) /\ running' = running
    <3>1. j \notin running /\ \A i \in 1..Len(pool) : pool[i] # j
      BY DEF PoolInv, TaskGoes
    <3>2. \A i \in 1..Len(pool) : pool[i] \in Jobs
      BY DEF PlaceInv
    <3>3. /\ Len(pool') = Len(pool) + 1 /\ pool'[Len(pool) + 1] = j
          /\ \A i \in 1..Len(pool) : pool'[i] = pool[i]
      BY <2>1, PoolFacts DEF PlaceInv
    <3>4. \A k \in Jobs : task'[k] = IF k = j THEN pc ELSE task[k]
      BY DEF DataInv, TaskGoes
    <3>5. Len(pool) \in Nat
      BY DEF PlaceInv
    <3>6. \A k \in running' : task'[k] \in {"acquiring", "executing", "closing"}
      BY <2>1, <3>1, <3>4 DEF PoolInv, PlaceInv
    <3>7. \A i \in 1..Len(pool') : i = Len(pool) + 1 \/ i \in 1..Len(pool)
      BY <3>3, <3>5
    <3>8. \A i \in 1..Len(pool') :
            task'[pool'[i]] \in {"acquiring", "executing"} /\ pool'[i] \notin running'
      BY <2>1, <3>1, <3>2, <3>3, <3>4, <3>7 DEF PoolInv
    <3>9. \A i, k \in 1..Len(pool') : pool'[i] = pool'[k] => i = k
      BY <3>1, <3>3, <3>7 DEF PoolInv
    <3> QED
      BY <3>6, <3>8, <3>9 DEF PoolInv
  <2>2. CASE pool' = pool /\ running' = running
    BY <2>2 DEF DataInv, PlaceInv, PoolInv, TaskGoes
  <2> QED
    BY <2>1, <2>2 DEF CallGoes
<1>6. EventInv'
  BY <1>0 DEF DataInv, EventInv, TaskGoes, EndsOnce, ReadingsGo
<1>7. ShutdownInv'
  BY DEF DataInv, PlaceInv, ShutdownInv, TaskGoes, Unfinished, shutdownVars
<1> QED
  BY <1>1, <1>2, <1>3, <1>4, <1>5, <1>6, <1>7

(* Cancelling some of the jobs, as POST .../cancel and the shutdown do,    *)
(* ends only jobs that have not started.                                   *)
LEMMA CancelKeeps ==
    ASSUME IInv, NEW J \in SUBSET Jobs, CancelJobs(J),
           UNCHANGED <<kind, lockVars, taskVars, poolVars>>
    PROVE  /\ DataInv' /\ StatusInv' /\ SlotInv' /\ PoolInv' /\ EventInv'
           /\ \A j \in Jobs : Unfinished(j)' => Unfinished(j)
<1> USE JobsFacts DEF IInv, TypeInv, DataInv, lockVars, taskVars, poolVars
<1>1. /\ status' = [j \in Jobs |-> IF j \in J THEN CancelledStatus(j) ELSE status[j]]
      /\ cancelRequested' = [j \in Jobs |-> cancelRequested[j] \/ (j \in J /\ Unfinished(j))]
      /\ terminals' = [j \in Jobs |->
                          IF j \in J /\ Unfinished(j) /\ CancelledStatus(j) = "cancelled"
                          THEN Append(terminals[j], "cancelled") ELSE terminals[j]]
      /\ errorCode' = errorCode
  BY DEF CancelJobs
<1>2. \A j \in Jobs : \/ status'[j] = status[j]
                      \/ j \in J /\ status[j] = "accepted" /\ status'[j] = "cancelled"
                      \/ status[j] = "started" /\ status'[j] = "cancel_requested"
  BY <1>1 DEF CancelledStatus
<1>3. \A j \in Jobs : Unfinished(j)' => Unfinished(j)
  BY <1>2 DEF Unfinished, Terminal
<1>4. \A j \in Jobs : status'[j] = "cancelled" /\ status[j] = "accepted" => cancelRequested'[j]
  BY <1>1, <1>2 DEF Unfinished, Terminal
<1>5. DataInv'
  <2>1. status' \in [Jobs -> Statuses]
    BY <1>1, <1>2 DEF Statuses, Terminal
  <2>2. cancelRequested' \in [Jobs -> BOOLEAN]
    BY <1>1 DEF Unfinished
  <2> QED
    BY <1>1, <2>1, <2>2
<1>6. \A j \in Jobs : cancelRequested[j] => cancelRequested'[j]
  BY <1>1
<1>7. StatusInv'
  BY <1>2, <1>4, <1>6 DEF StatusInv, Underway, Terminal
<1>8. SlotInv' /\ PoolInv'
  BY DEF SlotInv, PoolInv, Underway, HoldsLock, OnHardware, RequiresHardwareLock
<1>9. EventInv'
  <2> SUFFICES ASSUME NEW j \in Commands
               PROVE  /\ terminals'[j] = IF status'[j] \in Terminal THEN <<status'[j]>> ELSE << >>
                      /\ task'[j] \in {"closing", "returned"} => result'[j] # "none"
    BY DEF EventInv
  <2>1. CASE j \in J /\ status[j] = "accepted"
    <3>1. terminals[j] = << >>
      BY <2>1 DEF EventInv, Terminal
    <3>2. status'[j] = "cancelled" /\ terminals'[j] = Append(terminals[j], "cancelled")
      BY <1>1, <2>1 DEF CancelledStatus, Unfinished, Terminal
    <3> QED
      BY <3>1, <3>2, FirstEvent DEF EventInv, Terminal
  <2>2. CASE ~(j \in J /\ status[j] = "accepted")
    <3>1. terminals'[j] = terminals[j]
      BY <1>1, <2>2 DEF CancelledStatus, Unfinished, Terminal
    <3>2. status'[j] \in Terminal <=> status[j] \in Terminal
      BY <1>2, <2>2 DEF Terminal
    <3> QED
      BY <1>2, <2>2, <3>1, <3>2 DEF EventInv, Terminal
  <2> QED
    BY <2>1, <2>2
<1> QED
  BY <1>3, <1>5, <1>7, <1>8, <1>9

(* The thread pool and the calls in it keep the strengthening.             *)
LEMMA ThreadsKeep ==
    ASSUME IInv,
           CallStarts \/ \E j \in Jobs : LockAcquired(j) \/ ThreadStep(j)
    PROVE  IInv'
<1> USE JobsFacts DEF IInv, TypeInv, DataInv, PlaceInv, jobVars, lockVars, taskVars, poolVars,
        shutdownVars
<1>1. CASE CallStarts
  <2>1. /\ pool # << >> /\ running' = running \cup {pool[1]} /\ Len(pool) >= 1
        /\ pool' \in Seq(Jobs) /\ Len(pool') = Len(pool) - 1 /\ pool[1] \in Jobs
        /\ \A i \in 1..Len(pool') : pool'[i] = pool[i + 1]
        /\ task' = task /\ status' = status
    BY <1>1, PoolFacts DEF CallStarts
  <2>2. /\ \A i \in 1..Len(pool') : i + 1 \in 1..Len(pool) /\ i + 1 # 1 /\ pool'[i] = pool[i + 1]
        /\ 1 \in 1..Len(pool)
    BY <2>1
  <2>3. PoolInv'
    <3>1. \A j \in running' : task'[j] \in {"acquiring", "executing", "closing"}
      BY <2>1 DEF PoolInv
    <3>2. \A i \in 1..Len(pool') : pool'[i] # pool[1]
      BY <2>1, <2>2 DEF PoolInv
    <3>3. \A i \in 1..Len(pool') :
            task'[pool'[i]] \in {"acquiring", "executing"} /\ pool'[i] \notin running'
      <4> SUFFICES ASSUME NEW i \in 1..Len(pool')
                   PROVE  task'[pool'[i]] \in {"acquiring", "executing"} /\ pool'[i] \notin running'
        OBVIOUS
      <4>1. task[pool[i + 1]] \in {"acquiring", "executing"} /\ pool[i + 1] \notin running
        BY <2>2 DEF PoolInv
      <4> QED
        BY <2>1, <2>2, <3>2, <4>1
    <3>4. \A i, k \in 1..Len(pool') : pool'[i] = pool'[k] => i = k
      <4> SUFFICES ASSUME NEW i \in 1..Len(pool'), NEW k \in 1..Len(pool'), pool'[i] = pool'[k]
                   PROVE  i = k
        OBVIOUS
      <4>1. /\ i + 1 \in 1..Len(pool) /\ k + 1 \in 1..Len(pool)
            /\ pool[i + 1] = pool[k + 1]
        BY <2>2
      <4>2. i + 1 = k + 1
        BY <4>1 DEF PoolInv
      <4> QED
        BY <4>2
    <3> QED
      BY <3>1, <3>3, <3>4 DEF PoolInv
  <2>4. DataInv' /\ PlaceInv'
    BY <1>1, <2>1 DEF CallStarts
  <2>5. StatusInv' /\ SlotInv'
    BY <1>1 DEF CallStarts, StatusInv, SlotInv, Underway, HoldsLock, OnHardware, RequiresHardwareLock
  <2>6. EventInv' /\ ShutdownInv'
    BY <1>1 DEF CallStarts, EventInv, ShutdownInv, Unfinished
  <2> QED
    BY <2>3, <2>4, <2>5, <2>6
<1>2. ASSUME NEW j \in Jobs, LockAcquired(j) PROVE IInv'
  <2>1. DataInv' /\ PlaceInv'
    BY <1>2 DEF LockAcquired, Goto, TaskPcs
  <2>2. StatusInv'
    BY <1>2 DEF LockAcquired, Goto, StatusInv, Underway
  <2>3. SlotInv'
    BY <1>2 DEF LockAcquired, Goto, SlotInv, Underway, HoldsLock, OnHardware, RequiresHardwareLock
  <2>4. PoolInv'
    BY <1>2 DEF LockAcquired, Goto, PoolInv
  <2>5. EventInv' /\ ShutdownInv'
    BY <1>2 DEF LockAcquired, Goto, EventInv, ShutdownInv, Unfinished
  <2> QED
    BY <2>1, <2>2, <2>3, <2>4, <2>5
<1>3. ASSUME NEW j \in Jobs, NEW r \in Results, BodyEnds(j, r) PROVE IInv'
  <2>1. DataInv' /\ PlaceInv'
    BY <1>3 DEF BodyEnds, Goto, TaskPcs
  <2>2. StatusInv'
    BY <1>3 DEF BodyEnds, Goto, StatusInv, Underway
  <2>3. SlotInv'
    BY <1>3 DEF BodyEnds, Goto, SlotInv, Underway, HoldsLock, OnHardware, RequiresHardwareLock
  <2>4. PoolInv'
    BY <1>3 DEF BodyEnds, Goto, PoolInv
  <2>5. EventInv' /\ ShutdownInv'
    BY <1>3 DEF BodyEnds, Goto, EventInv, ShutdownInv, Unfinished
  <2> QED
    BY <2>1, <2>2, <2>3, <2>4, <2>5
<1>4. ASSUME NEW j \in Jobs, CallReturns(j) PROVE IInv'
  <2>1. DataInv' /\ PlaceInv'
    BY <1>4 DEF CallReturns, Goto, TaskPcs, Results
  <2>2. StatusInv'
    BY <1>4 DEF CallReturns, Goto, StatusInv, Underway
  <2>3. SlotInv'
    BY <1>4 DEF CallReturns, Goto, SlotInv, Underway, HoldsLock, OnHardware, RequiresHardwareLock
  <2>4. PoolInv'
    BY <1>4 DEF CallReturns, Goto, PoolInv
  <2>5. EventInv' /\ ShutdownInv'
    BY <1>4 DEF CallReturns, Goto, EventInv, ShutdownInv, Unfinished
  <2> QED
    BY <2>1, <2>2, <2>3, <2>4, <2>5
<1> QED
  BY <1>1, <1>2, <1>3, <1>4 DEF ThreadStep

(* Every step keeps the strengthening.                                     *)
LEMMA StepKeeps == IInv /\ [Next]_vars => IInv'
<1> SUFFICES ASSUME IInv, [Next]_vars PROVE IInv'
  OBVIOUS
<1>1. ASSUME NEW j \in Jobs,
             CreateJob(j) \/ CreateOfflineJob(j) \/ StartLiveData(j) \/ LoopStep(j)
      PROVE  IInv'
  BY <1>1, SegmentMoves, MoveKeeps
<1>2. ASSUME NEW j \in Jobs, CancelJob(j) PROVE IInv'
  <2>1. DataInv' /\ StatusInv' /\ SlotInv' /\ PoolInv' /\ EventInv'
        /\ \A k \in Jobs : Unfinished(k)' => Unfinished(k)
    BY <1>2, CancelKeeps DEF CancelJob
  <2>2. PlaceInv' /\ ShutdownInv'
    BY <1>2, <2>1 DEF CancelJob, IInv, TypeInv, PlaceInv, ShutdownInv, lockVars, poolVars, shutdownVars
  <2> QED
    BY <2>1, <2>2 DEF IInv, TypeInv
<1>3. CASE CallStarts \/ \E j \in Jobs : LockAcquired(j) \/ ThreadStep(j)
  BY <1>3, ThreadsKeep
<1>4. CASE Shutdown
  <2>1. shutdownJobs' \in SUBSET Jobs
    BY <1>4 DEF Shutdown, ShutdownJobs, IInv, TypeInv, PlaceInv
  <2>2. DataInv' /\ StatusInv' /\ SlotInv' /\ PoolInv' /\ EventInv'
        /\ \A k \in Jobs : Unfinished(k)' => Unfinished(k)
    BY <1>4, <2>1, CancelKeeps DEF Shutdown
  <2>3. PlaceInv'
    BY <1>4, <2>1 DEF Shutdown, IInv, TypeInv, PlaceInv, lockVars, poolVars
  <2>4. ShutdownInv'
    BY <1>4, <2>2 DEF Shutdown, ShutdownJobs, ShutdownInv
  <2> QED
    BY <2>2, <2>3, <2>4 DEF IInv, TypeInv
<1>5. CASE ShutdownEnds \/ ShutdownTimesOut
  <2>1. DataInv' /\ StatusInv' /\ SlotInv' /\ PoolInv' /\ EventInv'
    BY <1>5 DEF ShutdownEnds, ShutdownTimesOut, IInv, TypeInv, DataInv, StatusInv, SlotInv, PoolInv,
                EventInv, Underway, HoldsLock, OnHardware, RequiresHardwareLock, jobVars, lockVars,
                taskVars, poolVars
  <2>2. PlaceInv'
    BY <1>5 DEF ShutdownEnds, ShutdownTimesOut, IInv, TypeInv, PlaceInv, lockVars, poolVars
  <2>3. ShutdownInv'
    BY <1>5 DEF ShutdownEnds, ShutdownTimesOut, JobsQuiet, IInv, ShutdownInv, Unfinished, jobVars
  <2> QED
    BY <2>1, <2>2, <2>3 DEF IInv, TypeInv
<1>6. CASE UNCHANGED vars
  BY <1>6 DEF vars, jobVars, lockVars, taskVars, poolVars, shutdownVars, IInv, TypeInv, DataInv,
              PlaceInv, StatusInv, SlotInv, PoolInv, EventInv, ShutdownInv, Underway, HoldsLock,
              OnHardware, RequiresHardwareLock, Unfinished
<1> QED
  BY <1>1, <1>2, <1>3, <1>4, <1>5, <1>6 DEF Next, Waiting

-----------------------------------------------------------------------------
(* The theorems                                                            *)

(* The strengthening holds in every state the server can reach.            *)
THEOREM Inductive == Spec => []IInv
<1>1. Init => IInv
  BY InitHolds
<1>2. IInv /\ [Next]_vars => IInv'
  BY StepKeeps
<1> QED
  BY <1>1, <1>2, PTL DEF Spec

(* For any number of commands, monitors and threads: at most one thread is *)
(* on the instrument, and its job holds the hardware lock (jobs.py).       *)
THEOREM OneOnHardware == Spec => []HardwareExclusive
<1>1. IInv => HardwareExclusive
  <2> SUFFICES ASSUME IInv PROVE HardwareExclusive
    OBVIOUS
  <2>1. \A j \in OnInstrument : hardwareLock = j
    BY DEF OnInstrument, IInv, TypeInv, PlaceInv, SlotInv, HoldsLock, OnHardware
  <2>2. OnInstrument \subseteq {hardwareLock}
    BY <2>1
  <2>3. /\ IsFiniteSet({hardwareLock}) /\ Cardinality({hardwareLock}) = 1
    BY FS_Singleton
  <2>4. IsFiniteSet(OnInstrument) /\ Cardinality(OnInstrument) <= 1
    BY <2>2, <2>3, FS_Subset
  <2> QED
    BY <2>1, <2>4 DEF HardwareExclusive
<1> QED
  BY <1>1, Inductive, PTL

(* A command on real hardware is the active job from its start to its end; *)
(* a job with a terminal status has neither slot, lock nor thread.         *)
THEOREM ReleasedAtEnd == Spec => []TerminalMeansReleased
<1>1. IInv => TerminalMeansReleased
  BY JobsFacts DEF IInv, TypeInv, DataInv, PlaceInv, StatusInv, SlotInv, PoolInv, Underway,
     HoldsLock, Terminal, TerminalMeansReleased
<1> QED
  BY <1>1, Inductive, PTL

(* Every command has at most one terminal event, which is its status.      *)
THEOREM OneTerminal == Spec => []OneTerminalEvent
<1>1. IInv => OneTerminalEvent
  <2> SUFFICES ASSUME IInv, NEW j \in Commands
               PROVE  /\ Len(terminals[j]) <= 1
                      /\ task[j] = "done" => status[j] \in Terminal
                      /\ status[j] \in Terminal <=> terminals[j] = <<status[j]>>
    BY DEF OneTerminalEvent
  <2>1. task[j] = "done" => status[j] \in Terminal
    BY JobsFacts DEF IInv, StatusInv
  <2>2. CASE status[j] \in Terminal
    <3>1. terminals[j] = <<status[j]>>
      BY <2>2 DEF IInv, EventInv
    <3>2. Len(<<status[j]>>) = 1
      OBVIOUS
    <3> QED
      BY <2>1, <2>2, <3>1, <3>2
  <2>3. CASE status[j] \notin Terminal
    <3>1. terminals[j] = << >>
      BY <2>3 DEF IInv, EventInv
    <3>2. Len(<< >>) = 0 /\ << >> # <<status[j]>>
      OBVIOUS
    <3> QED
      BY <2>1, <2>3, <3>1, <3>2
  <2> QED
    BY <2>2, <2>3
<1> QED
  BY <1>1, Inductive, PTL

(* When shutdown has returned, no job is left and no call is anywhere: the *)
(* process may exit without an instrument in use.                          *)
THEOREM SilenceAfterShutdown == Spec => []QuietAfterShutdown
<1>1. IInv => QuietAfterShutdown
  <2> SUFFICES ASSUME IInv, shutdownPc = "returned"
               PROVE  /\ \A j \in Jobs : ~Unfinished(j)
                      /\ activeJob = NoJob /\ hardwareLock = NoJob
                      /\ pool = << >> /\ running = {}
    BY DEF QuietAfterShutdown
  <2>1. \A j \in Jobs : ~Unfinished(j)
    BY DEF IInv, ShutdownInv
  <2>2. \A j \in Jobs : ~Underway(j)
    BY <2>1 DEF IInv, StatusInv, Unfinished, Terminal
  <2>3. activeJob = NoJob /\ hardwareLock = NoJob
    BY <2>2 DEF IInv, TypeInv, PlaceInv, SlotInv, HoldsLock, Underway
  <2>4. running = {}
    BY <2>2 DEF IInv, TypeInv, PlaceInv, PoolInv, Underway
  <2>5. pool = << >>
    <3> SUFFICES ASSUME pool # << >> PROVE FALSE
      OBVIOUS
    <3>1. 1 \in 1..Len(pool) /\ pool[1] \in Jobs
      BY PoolFacts DEF IInv, TypeInv, PlaceInv
    <3> QED
      BY <2>2, <3>1 DEF IInv, PoolInv, Underway
  <2> QED
    BY <2>1, <2>3, <2>4, <2>5
<1> QED
  BY <1>1, Inductive, PTL

(* No step changes the end of a command, and no reading of a monitor       *)
(* begins while a command is active.                                       *)
LEMMA StepsAllowed ==
    ASSUME IInv, [Next]_vars
    PROVE  /\ \A j \in Commands : status[j] \in Terminal =>
                  status'[j] = status[j] /\ errorCode'[j] = errorCode[j]
           /\ \A k \in Lives : ~ioInProgress[k] /\ ioInProgress'[k] => activeJob = NoJob
<1> DEFINE Final == \A j \in Commands : status[j] \in Terminal =>
                        status'[j] = status[j] /\ errorCode'[j] = errorCode[j]
           Steps == \A k \in Lives : ~ioInProgress[k] /\ ioInProgress'[k] => activeJob = NoJob
<1> USE JobsFacts
<1>1. ASSUME NEW j \in Jobs,
             CreateJob(j) \/ CreateOfflineJob(j) \/ StartLiveData(j) \/ LoopStep(j)
      PROVE  Final /\ Steps
  <2>1. PICK pc \in TaskPcs, s \in Statuses : Moves(j, pc, s)
    BY <1>1, SegmentMoves
  <2> QED
    BY <2>1 DEF Moves, TaskGoes, EndsOnce, ReadingsGo, IInv, TypeInv, DataInv
<1>2. ASSUME NEW J \in SUBSET Jobs, CancelJobs(J), UNCHANGED taskVars PROVE Final /\ Steps
  BY <1>2 DEF CancelJobs, CancelledStatus, Terminal, taskVars, IInv, TypeInv, DataInv
<1>3. ASSUME UNCHANGED jobVars, UNCHANGED ioInProgress PROVE Final /\ Steps
  BY <1>3 DEF jobVars
<1>4. ASSUME NEW j \in Jobs, CancelJob(j) PROVE Final /\ Steps
  BY <1>2, <1>4 DEF CancelJob
<1>5. CASE Shutdown
  BY <1>2, <1>5 DEF Shutdown, ShutdownJobs, IInv, TypeInv, PlaceInv
<1>6. CASE CallStarts \/ ShutdownEnds \/ ShutdownTimesOut \/ UNCHANGED vars
  BY <1>3, <1>6 DEF CallStarts, ShutdownEnds, ShutdownTimesOut, vars, taskVars
<1>7. ASSUME NEW j \in Jobs, LockAcquired(j) \/ ThreadStep(j) PROVE Final /\ Steps
  BY <1>3, <1>7 DEF LockAcquired, ThreadStep, BodyEnds, CallReturns
<1> QED
  BY <1>1, <1>4, <1>5, <1>6, <1>7 DEF Next, Waiting

(* The status and the error of an ended command never change: no late      *)
(* cancellation, result or shutdown does.                                  *)
THEOREM EndsAreFinal == Spec => EndIsFinal
<1>1. IInv /\ [Next]_vars => [\A j \in Commands : status[j] \in Terminal =>
          status'[j] = status[j] /\ errorCode'[j] = errorCode[j]]_vars
  BY StepsAllowed
<1> QED
  BY <1>1, Inductive, PTL DEF Spec, EndIsFinal

(* A monitor's reading never begins while a command is active.             *)
THEOREM MonitorsStepBack == Spec => LiveStepsBack
<1>1. IInv /\ [Next]_vars =>
        [\A j \in Lives : ~ioInProgress[j] /\ ioInProgress'[j] => activeJob = NoJob]_vars
  BY StepsAllowed
<1> QED
  BY <1>1, Inductive, PTL DEF Spec, LiveStepsBack
=============================================================================
