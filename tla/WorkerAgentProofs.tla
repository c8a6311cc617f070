--------------------------- MODULE WorkerAgentProofs ---------------------------
(* The agent drives its pool only by the pool's own operations, so what is   *)
(* proved of the pool holds inside the agent, whatever the signal, the       *)
(* shutdown timeout, the poll loop and Stop do. With it: Run leaves no       *)
(* uncancelled work behind, for any set of jobs and any concurrency.        *)
EXTENDS WorkerAgent, TLAPS

(* The theorems about the pool, for the pool as the agent builds it. *)
Proved == INSTANCE WorkerPoolProofs WITH
    Graceful <- {"drainer"}, Forced <- {"run"},
    SizeArg <- MaxConcurrency, QueueArg <- 2 * MaxConcurrency

(* The agent's parameters satisfy what the pool's theorems assume. *)
LEMMA PoolJobs == Proved!JobsAssumption
<1>1. IsFiniteSet(Jobs) => Proved!IsFiniteSet(Jobs)
  BY DEF IsFiniteSet, Proved!IsFiniteSet
<1>2. QED
  BY <1>1, AgentJobsAssumption DEF Proved!JobsAssumption

LEMMA PoolStoppers == Proved!StoppersAssumption
  BY DEF Proved!StoppersAssumption

LEMMA PoolSizes == Proved!SizeAssumption
  BY ConcurrencyAssumption DEF Proved!SizeAssumption

-----------------------------------------------------------------------------
(* The pool's operations as the agent names them are those of the theorems. *)

LEMMA SubmitterSteps ==
  ASSUME NEW j \in Jobs, ~crashed, Pool!SubmitCheck(j) \/ Pool!SubmitStep(j)
  PROVE  Proved!Next
<1>1. Proved!SubmitCheck(j) \/ Proved!SubmitStep(j)
  BY DEF Pool!SubmitCheck, Pool!SubmitStep, Pool!SubmitAdd, Pool!SubmitSend,
         Pool!SubmitPanic, Pool!SubmitReturn, Pool!channel, Pool!QueueCap,
         Pool!AtLeastOne, Proved!SubmitCheck, Proved!SubmitStep,
         Proved!SubmitAdd, Proved!SubmitSend, Proved!SubmitPanic,
         Proved!SubmitReturn, Proved!channel, Proved!QueueCap, Proved!AtLeastOne
<1>2. QED
  BY <1>1 DEF Proved!Next, Proved!Step

LEMMA WorkerSteps ==
  ASSUME NEW j \in Jobs, ~crashed, Pool!WorkerStep(j)
  PROVE  Proved!Next
<1>1. Proved!WorkerStep(j)
  BY DEF Pool!WorkerStep, Pool!WorkerFinish, Pool!WorkerReport, Pool!WorkerRelease,
         Pool!WorkerUncount, Pool!WorkerDone, Pool!channel, Proved!WorkerStep,
         Proved!WorkerFinish, Proved!WorkerReport, Proved!WorkerRelease,
         Proved!WorkerUncount, Proved!WorkerDone, Proved!channel
<1>2. QED
  BY <1>1 DEF Proved!Next, Proved!Step

LEMMA DispatcherSteps ==
  ASSUME ~crashed, Pool!DispatchStep
  PROVE  Proved!Next
<1>1. Proved!DispatchStep
  BY DEF Pool!DispatchStep, Pool!DispatchReceive, Pool!DispatchAcquire,
         Pool!DispatchSpawn, Pool!Dispatching, Pool!In, Pool!PoolSize,
         Pool!AtLeastOne, Pool!channel, Proved!DispatchStep,
         Proved!DispatchReceive, Proved!DispatchAcquire, Proved!DispatchSpawn,
         Proved!Dispatching, Proved!In, Proved!PoolSize, Proved!AtLeastOne,
         Proved!channel
<1>2. QED
  BY <1>1 DEF Proved!Next, Proved!Step

LEMMA StopperSteps ==
  ASSUME NEW s \in {"drainer", "run"}, ~crashed, Pool!StopCAS(s) \/ Pool!StopStep(s)
  PROVE  Proved!Next
<1>1. Proved!StopCAS(s) \/ Proved!StopStep(s)
  BY DEF Pool!StopCAS, Pool!StopStep, Pool!StopCancelFirst, Pool!StopClose,
         Pool!StopWait, Pool!StopCancelLast, Pool!channel, Proved!StopCAS,
         Proved!StopStep, Proved!StopCancelFirst, Proved!StopClose,
         Proved!StopWait, Proved!StopCancelLast, Proved!channel
<1>2. s \in Proved!Stoppers
  BY DEF Proved!Stoppers
<1>3. QED
  BY <1>1, <1>2 DEF Proved!Next, Proved!Step

LEMMA NoPoolStep ==
  ASSUME UNCHANGED poolVars
  PROVE  UNCHANGED Proved!vars
  BY DEF poolVars, Proved!vars, Proved!channel

(* The initial state of the agent is one of the pool. *)
LEMMA PoolStarts == Init => Proved!Init
  BY DEF Init, Pool!Init, Proved!Init, Pool!Stoppers, Proved!Stoppers

(* The poll loop is about to submit only a job it received. *)
HeldIsJob == poll = "submit" => polled \in Jobs

(* Every step of the agent is one of the pool or leaves the pool alone. *)
LEMMA AgentStep ==
  ASSUME HeldIsJob, [Next]_vars
  PROVE  [Proved!Next]_Proved!vars
<1>1. CASE UNCHANGED vars
  BY <1>1, NoPoolStep DEF vars
<1> SUFFICES ASSUME Next PROVE [Proved!Next]_Proved!vars
  BY <1>1
<1>2. ~crashed
  BY DEF Next
<1>3. CASE PollSubmit
  BY <1>2, <1>3, SubmitterSteps DEF PollSubmit, HeldIsJob
<1>4. CASE DrainerShutdown
  BY <1>2, <1>4, StopperSteps DEF DrainerShutdown
<1>5. CASE RunShutdownNow
  BY <1>2, <1>5, StopperSteps DEF RunShutdownNow
<1>6. CASE PoolStep
  BY <1>2, <1>6, DispatcherSteps, WorkerSteps DEF PoolStep
<1>7. CASE \/ RunStart \/ RunSignalled \/ RunDone \/ RunForced \/ RunReturn \/ RunTimeout
  BY <1>7, NoPoolStep DEF RunStart, RunSignalled, RunDone, RunForced, RunReturn, RunTimeout
<1>8. CASE \/ PollCheckCtx \/ PollCheckActive \/ PollRequest \/ PollEmpty
           \/ PollError \/ PollSubmitted \/ PollWake \/ \E j \in Jobs : PollJob(j)
  BY <1>8, NoPoolStep DEF PollCheckCtx, PollCheckActive, PollRequest, PollEmpty,
     PollError, PollSubmitted, PollWake, PollJob
<1>9. CASE HeartbeatExit \/ StopRead \/ StopCancel \/ Signal
  BY <1>9, NoPoolStep DEF HeartbeatExit, StopRead, StopCancel, Signal
<1>10. QED
  BY <1>3, <1>4, <1>5, <1>6, <1>7, <1>8, <1>9 DEF Next, Run, Poll

-----------------------------------------------------------------------------
(* What the goroutines of the agent know of each other *)

(* Before run has started nothing is polled; the cancel function is unset   *)
(* only then.                                                               *)
BeforeStart ==
    /\ drain = "unset" => main = "idle"
    /\ main = "idle" => poll = "off" /\ \A j \in Jobs : sub[j] = "idle"

(* From the start until run is forced, only Stop cancels drainCtx. *)
BeforeForce ==
    main \in {"serving", "draining", "waiting"} /\ stopper # "done"
        => drain = "live" /\ hb = "beating"

(* run is past its wait only when one of the two shutdowns has returned,     *)
(* and has returned only under a cancelled drainCtx.                        *)
AfterWait ==
    /\ stop["run"] # "idle" => main \in {"forcing", "closing", "returned"}
    /\ main \in {"closing", "returned"} => Done \/ stop["run"] # "idle"
    /\ main = "returned" => drain = "cancelled"

(* A shutdown call loses the CAS only to the other one. *)
LoserHasWinner ==
    /\ ~running => stop["drainer"] # "idle" \/ stop["run"] # "idle"
    /\ stop["drainer"] = "lost" => stop["run"] # "idle"

(* A job is submitted only after the server handed it out. *)
HeldIsGiven ==
    /\ poll = "submit" => polled \in given /\ polled \in Jobs
    /\ poll # "submit" => polled = NoJob
    /\ \A j \in Jobs : sub[j] # "idle" => j \in given

AgentInv == BeforeStart /\ BeforeForce /\ AfterWait /\ LoserHasWinner /\ HeldIsGiven

(* What the pool's steps do to the variables the agent looks at. *)
LEMMA SubmitterMoves ==
  ASSUME NEW i \in Jobs, Pool!SubmitCheck(i) \/ Pool!SubmitStep(i)
  PROVE  stop' = stop /\ running' = running /\ \A j \in DOMAIN sub : j # i => sub'[j] = sub[j]
  BY DEF Pool!SubmitCheck, Pool!SubmitStep, Pool!SubmitAdd, Pool!SubmitSend,
         Pool!SubmitPanic, Pool!SubmitReturn

LEMMA WorkerMoves ==
  ASSUME Pool!DispatchStep \/ \E j \in Jobs : Pool!WorkerStep(j)
  PROVE  stop' = stop /\ running' = running /\ sub' = sub
  BY DEF Pool!DispatchStep, Pool!DispatchReceive, Pool!DispatchAcquire,
         Pool!DispatchSpawn, Pool!WorkerStep, Pool!WorkerFinish, Pool!WorkerReport,
         Pool!WorkerRelease, Pool!WorkerUncount, Pool!WorkerDone

LEMMA StopperMoves ==
  ASSUME NEW s \in DOMAIN stop, Pool!StopCAS(s) \/ Pool!StopStep(s)
  PROVE  /\ sub' = sub
         /\ stop'[s] # "idle"
         /\ stop'[s] = "lost" => ~running
         /\ stop[s] \notin {"returned", "lost"}
         /\ \A t \in DOMAIN stop : t # s => stop'[t] = stop[t]
  BY DEF Pool!StopCAS, Pool!StopStep, Pool!StopCancelFirst, Pool!StopClose,
         Pool!StopWait, Pool!StopCancelLast

(* The types of the pool's variables the agent's argument needs. *)
LEMMA PoolTypes ==
  ASSUME Proved!PoolInv
  PROVE  DOMAIN sub = Jobs /\ DOMAIN stop = {"drainer", "run"}
  BY DEF Proved!PoolInv, Proved!TypeOK, Proved!Stoppers

LEMMA AgentInvInit == Init => AgentInv
<1> SUFFICES ASSUME Init PROVE AgentInv
  OBVIOUS
<1>1. \A j \in Jobs : sub[j] = "idle"
  BY DEF Init, Pool!Init
<1>2. stop["run"] = "idle" /\ stop["drainer"] = "idle"
  BY DEF Init, Pool!Init, Pool!Stoppers
<1>3. QED
  BY <1>1, <1>2 DEF Init, Pool!Init, AgentInv, BeforeStart, BeforeForce, AfterWait,
     LoserHasWinner, HeldIsGiven, Done

LEMMA AgentInvStep ==
  ASSUME Proved!PoolInv, AgentInv, [Next]_vars
  PROVE  AgentInv'
<1>1. DOMAIN sub = Jobs /\ DOMAIN stop = {"drainer", "run"}
  BY PoolTypes
<1> USE DEF AgentInv, BeforeStart, BeforeForce, AfterWait, LoserHasWinner, HeldIsGiven, Done
<1>2. CASE UNCHANGED vars
  BY <1>2 DEF vars, poolVars, agentVars
<1> SUFFICES ASSUME Next PROVE AgentInv'
  BY <1>2
<1>3. CASE PollSubmit
  <2>1. stop' = stop /\ running' = running /\ \A j \in Jobs : j # polled => sub'[j] = sub[j]
    BY <1>1, <1>3, SubmitterMoves DEF PollSubmit
  <2>2. UNCHANGED agentVars /\ poll = "submit" /\ polled \in given
    BY <1>3 DEF PollSubmit
  <2>3. QED
    BY <2>1, <2>2 DEF agentVars
<1>4. CASE DrainerShutdown
  <2>1. /\ sub' = sub /\ stop'["run"] = stop["run"]
        /\ stop["drainer"] \notin {"returned", "lost"}
        /\ stop'["drainer"] # "idle" /\ (stop'["drainer"] = "lost" => ~running)
    BY <1>1, <1>4, StopperMoves DEF DrainerShutdown
  <2>2. stop'["drainer"] = "lost" => stop["run"] # "idle"
    <3>1. CASE stop["drainer"] = "idle"
      BY <2>1, <3>1
    <3>2. CASE stop["drainer"] # "idle"
      BY <1>4, <3>2, <1>1 DEF DrainerShutdown, Pool!StopCAS, Pool!StopStep,
         Pool!StopCancelFirst, Pool!StopClose, Pool!StopWait, Pool!StopCancelLast
    <3>3. QED
      BY <3>1, <3>2
  <2>3. QED
    BY <1>4, <2>1, <2>2 DEF DrainerShutdown, agentVars
<1>5. CASE RunShutdownNow
  <2>1. sub' = sub /\ stop'["drainer"] = stop["drainer"] /\ stop'["run"] # "idle"
    BY <1>1, <1>5, StopperMoves DEF RunShutdownNow
  <2>2. QED
    BY <1>5, <2>1 DEF RunShutdownNow, agentVars
<1>6. CASE PoolStep
  <2>1. stop' = stop /\ running' = running /\ sub' = sub
    BY <1>6, WorkerMoves DEF PoolStep
  <2>2. QED
    BY <1>6, <2>1 DEF PoolStep, agentVars
<1>7. CASE RunStart \/ RunSignalled \/ RunTimeout
  BY <1>7 DEF RunStart, RunSignalled, RunTimeout, poolVars
<1>8. CASE RunDone \/ RunForced \/ RunReturn
  BY <1>8 DEF RunDone, RunForced, RunReturn, poolVars
<1>9. CASE \E j \in Jobs : PollJob(j)
  BY <1>9 DEF PollJob, Polling, poolVars
<1>10. CASE PollCheckCtx \/ PollCheckActive \/ PollRequest \/ PollEmpty
  BY <1>10 DEF PollCheckCtx, PollCheckActive, PollRequest, PollEmpty, Polling, poolVars
<1>11. CASE PollError \/ PollSubmitted \/ PollWake
  BY <1>11 DEF PollError, PollSubmitted, PollWake, Polling, poolVars
<1>12. CASE HeartbeatExit \/ StopRead \/ StopCancel \/ Signal
  BY <1>12 DEF HeartbeatExit, StopRead, StopCancel, Signal, poolVars
<1>13. QED
  BY <1>3, <1>4, <1>5, <1>6, <1>7, <1>8, <1>9, <1>10, <1>11, <1>12 DEF Next, Run, Poll

(* The invariant of the agent and of its pool, together. *)
THEOREM AgentInvariant == Spec => [](Proved!PoolInv /\ AgentInv)
<1>1. Init => Proved!PoolInv /\ AgentInv
  BY PoolStarts, AgentInvInit, Proved!PoolInvInit, PoolJobs, PoolStoppers, PoolSizes
<1>2. Proved!PoolInv /\ AgentInv /\ [Next]_vars => (Proved!PoolInv /\ AgentInv)'
  <2> SUFFICES ASSUME Proved!PoolInv, AgentInv, [Next]_vars
               PROVE  Proved!PoolInv' /\ AgentInv'
    OBVIOUS
  <2>1. HeldIsJob
    BY DEF AgentInv, HeldIsGiven, HeldIsJob
  <2>2. [Proved!Next]_Proved!vars
    BY <2>1, AgentStep
  <2>3. Proved!PoolInv'
    BY <2>2, Proved!PoolInvStep, PoolJobs, PoolStoppers, PoolSizes
  <2>4. QED
    BY <2>3, AgentInvStep
<1>3. QED
  BY <1>1, <1>2, PTL DEF Spec

(* The agent uses the pool as the pool's own specification allows: every     *)
(* behaviour of the agent is one of the pool, for any jobs and concurrency. *)
THEOREM AgentDrivesPool == Spec => Proved!Spec
<1>1. Proved!PoolInv /\ AgentInv /\ [Next]_vars => [Proved!Next]_Proved!vars
  BY AgentStep DEF AgentInv, HeldIsGiven, HeldIsJob
<1>2. QED
  BY <1>1, PoolStarts, AgentInvariant, PTL DEF Spec, Proved!Spec

(* When Run has returned unforced, no job is in the pool; when the timeout   *)
(* forced it, what still runs has its context cancelled.                    *)
THEOREM AgentReturnsClean == Spec => []ReturnLeavesNoWork
<1>1. Proved!PoolInv /\ AgentInv => ReturnLeavesNoWork
  <2> SUFFICES ASSUME Proved!PoolInv, AgentInv, main = "returned", stop["run"] = "idle"
               PROVE  \A j \in Jobs : stage[j] \in {"none", "done"}
    BY DEF ReturnLeavesNoWork, AgentInv, AfterWait
  <2>1. stop["drainer"] \in {"returned", "lost"}
    BY DEF AgentInv, AfterWait, Done
  <2>2. stop["drainer"] # "lost"
    BY DEF AgentInv, LoserHasWinner
  <2>3. Proved!In(Proved!Stage \ {"none", "done"}) = {}
    BY <2>1, <2>2 DEF Proved!PoolInv, Proved!ShutdownDrains, Proved!Stoppers
  <2>4. stage \in [Jobs -> Proved!Stage]
    BY DEF Proved!PoolInv, Proved!TypeOK
  <2>5. QED
    BY <2>3, <2>4 DEF Proved!In
<1>2. QED
  BY <1>1, AgentInvariant, PTL

(* From the signal to the end of the drain the heartbeat is alive and the    *)
(* jobs' context is not cancelled, unless Stop was called or the shutdown   *)
(* timeout fired.                                                           *)
THEOREM AgentKeepsBeating == Spec => []DrainKeepsBeating
<1>1. AgentInv => DrainKeepsBeating
  BY DEF AgentInv, BeforeForce, DrainKeepsBeating
<1>2. QED
  BY <1>1, AgentInvariant, PTL

(* A Stop that finds no cancel function has missed no job. *)
THEOREM AgentStopMissesNothing == Spec => StopMissesNothing
<1>1. ASSUME Proved!PoolInv, AgentInv, [Next]_vars, stopper = "idle", stopper' = "sawNil"
      PROVE  Executing = {}
  <2>1. drain = "unset"
    BY <1>1 DEF Next, StopRead, StopCancel, RunStart, Run, RunSignalled, RunDone,
       RunForced, RunReturn, RunShutdownNow, RunTimeout, DrainerShutdown, Poll,
       PollCheckCtx, PollCheckActive, PollRequest, PollEmpty, PollError, PollSubmit,
       PollSubmitted, PollWake, PollJob, HeartbeatExit, Signal, PoolStep, agentVars, vars
  <2>2. \A j \in Jobs : sub[j] = "idle"
    BY <1>1, <2>1 DEF AgentInv, BeforeStart
  <2>3. \A j \in Jobs : stage[j] = "none"
    BY <1>1, <2>2 DEF Proved!PoolInv, Proved!SentInv
  <2>4. QED
    BY <2>3 DEF Executing
<1>2. QED
  BY <1>1, AgentInvariant, PTL DEF Spec, StopMissesNothing

-----------------------------------------------------------------------------
(* A Submit never waits for a scan *)

LEMMA Capacities ==
  /\ Pool!PoolSize = MaxConcurrency /\ Pool!QueueCap = 2 * MaxConcurrency
  /\ Proved!PoolSize = MaxConcurrency /\ Proved!QueueCap = 2 * MaxConcurrency
  BY ConcurrencyAssumption DEF Pool!PoolSize, Pool!QueueCap, Pool!AtLeastOne,
     Proved!PoolSize, Proved!QueueCap, Proved!AtLeastOne

(* What the loop has given to the pool and what is not yet over: in the      *)
(* queue, in the dispatcher's hand, or counted as active.                   *)
InHand == {j \in Jobs : stage[j] \in {"held", "slotted"}}
Load   == active + (IF InHand = {} THEN 0 ELSE 1) + Len(taskQueue)

(* From the reading of ActiveWorkers() to the send of the job that the poll  *)
(* brings, the pool can take at least one job more without any scan ending. *)
Polls    == poll \in {"ask", "asking"}
Sends    == poll = "submit" /\ sub[polled] \in {"idle", "adding", "sending"}
RoomLeft == Polls \/ Sends => Load <= 3 * MaxConcurrency

(* What of the pool's invariant this argument rests on. *)
LEMMA PoolFacts ==
  ASSUME Proved!PoolInv
  PROVE  /\ stage \in [Jobs -> Proved!Stage] /\ sub \in [Jobs -> Proved!SubState]
         /\ taskQueue \in Seq(Jobs) /\ Len(taskQueue) \in Nat
         /\ Len(taskQueue) <= 2 * MaxConcurrency
         /\ active \in Nat /\ sem \in Nat
         /\ \A i, j \in InHand : i = j
         /\ InHand = Pool!Dispatching
  BY Capacities DEF Proved!PoolInv, Proved!TypeOK, Proved!QueueInv, InHand, Proved!Dispatching,
     Proved!In, Pool!Dispatching, Pool!In

(* Only a send adds to the load. *)
LEMMA LoadNeverGrows ==
  ASSUME Proved!PoolInv, Pool!DispatchStep \/ \E j \in Jobs : Pool!WorkerStep(j)
  PROVE  Load' <= Load
<1> USE PoolFacts
<1>1. CASE Pool!DispatchReceive
  <2>1. /\ InHand = {} /\ taskQueue # <<>> /\ taskQueue' = Tail(taskQueue)
        /\ active' = active
    BY <1>1 DEF Pool!DispatchReceive
  <2>2. Len(taskQueue') = Len(taskQueue) - 1
    BY <2>1
  <2>3. QED
    BY <2>1, <2>2 DEF Load
<1>2. ASSUME NEW j \in Jobs, Pool!DispatchAcquire(j) PROVE Load' <= Load
  <2>1. /\ stage' = [stage EXCEPT ![j] = "slotted"] /\ stage[j] = "held"
        /\ taskQueue' = taskQueue /\ active' = active
    BY <1>2 DEF Pool!DispatchAcquire, Pool!channel
  <2>2. InHand' = InHand
    BY <2>1 DEF InHand
  <2>3. QED
    BY <2>1, <2>2 DEF Load
<1>3. ASSUME NEW j \in Jobs, Pool!DispatchSpawn(j) PROVE Load' <= Load
  <2>1. /\ stage' = [stage EXCEPT ![j] = "executing"] /\ stage[j] = "slotted"
        /\ taskQueue' = taskQueue /\ active' = active + 1
    BY <1>3 DEF Pool!DispatchSpawn, Pool!channel
  <2>2. InHand # {} /\ InHand' = {}
    BY <2>1 DEF InHand
  <2>3. QED
    BY <2>1, <2>2 DEF Load
<1>4. ASSUME NEW j \in Jobs, Pool!WorkerStep(j) PROVE Load' <= Load
  <2>1. /\ stage[j] \notin {"held", "slotted"} /\ taskQueue' = taskQueue
        /\ active' \in {active, active - 1}
        /\ \E b \in {"ok", "bad", "leaving", "released", "uncounted", "done"} :
               stage' = [stage EXCEPT ![j] = b]
    BY <1>4 DEF Pool!WorkerStep, Pool!WorkerFinish, Pool!WorkerReport, Pool!WorkerRelease,
       Pool!WorkerUncount, Pool!WorkerDone, Pool!channel
  <2>2. InHand' = InHand
    BY <2>1 DEF InHand
  <2>3. QED
    BY <2>1, <2>2 DEF Load
<1>5. QED
  BY <1>1, <1>2, <1>3, <1>4 DEF Pool!DispatchStep

LEMMA LoadSame ==
  ASSUME UNCHANGED <<active, stage, taskQueue>>
  PROVE  Load' = Load
  BY DEF Load, InHand

LEMMA RoomLeftStep ==
  ASSUME Proved!PoolInv, AgentInv, RoomLeft, [Next]_vars
  PROVE  RoomLeft'
<1>1. CASE PoolStep
  <2>1. Load' <= Load /\ UNCHANGED <<poll, polled, sub>>
    BY <1>1, LoadNeverGrows, WorkerMoves DEF PoolStep, agentVars
  <2>2. Load \in Int /\ Load' \in Int
    <3>1. Load \in Int
      BY PoolFacts DEF Load
    <3>2. active' \in Int /\ Len(taskQueue') \in Int
      BY <1>1, PoolFacts DEF PoolStep, Pool!DispatchStep, Pool!DispatchReceive,
         Pool!DispatchAcquire, Pool!DispatchSpawn, Pool!WorkerStep, Pool!WorkerFinish,
         Pool!WorkerReport, Pool!WorkerRelease, Pool!WorkerUncount, Pool!WorkerDone, Pool!channel
    <3>3. QED
      BY <3>1, <3>2 DEF Load
  <2>3. QED
    BY <2>1, <2>2, ConcurrencyAssumption DEF RoomLeft, Polls, Sends
<1>2. CASE PollSubmit
  <2>1. poll = "submit" /\ polled \in Jobs /\ UNCHANGED <<poll, polled>>
    BY <1>2 DEF PollSubmit, agentVars, AgentInv, HeldIsGiven
  <2>2. CASE Pool!SubmitCheck(polled) \/ Pool!SubmitAdd(polled)
    <3>1. UNCHANGED <<active, stage, taskQueue>> /\ sub[polled] \in {"idle", "adding"}
      BY <2>2 DEF Pool!SubmitCheck, Pool!SubmitAdd, Pool!channel
    <3>2. QED
      BY <2>1, <3>1, LoadSame DEF RoomLeft, Polls, Sends
  <2>3. CASE Pool!SubmitSend(polled) \/ Pool!SubmitReturn(polled)
    <3>1. sub'[polled] \in {"sent", "returned"}
      BY <2>1, <2>3, PoolFacts DEF Pool!SubmitSend, Pool!SubmitReturn
    <3>2. QED
      BY <2>1, <3>1 DEF RoomLeft, Polls, Sends
  <2>4. CASE Pool!SubmitPanic(polled)
    <3>1. UNCHANGED <<active, stage, taskQueue, sub>>
      BY <2>4 DEF Pool!SubmitPanic, Pool!channel
    <3>2. QED
      BY <2>1, <3>1, LoadSame DEF RoomLeft, Polls, Sends
  <2>5. QED
    BY <1>2, <2>2, <2>3, <2>4 DEF PollSubmit, Pool!SubmitStep
<1>3. CASE DrainerShutdown \/ RunShutdownNow
  <2>1. UNCHANGED <<active, stage, taskQueue, sub, poll, polled>>
    BY <1>3 DEF DrainerShutdown, RunShutdownNow, agentVars, Pool!StopCAS, Pool!StopStep,
       Pool!StopCancelFirst, Pool!StopClose, Pool!StopWait, Pool!StopCancelLast, Pool!channel
  <2>2. QED
    BY <2>1, LoadSame DEF RoomLeft, Polls, Sends
<1>4. CASE PollCheckActive
  <2>1. UNCHANGED <<active, stage, taskQueue, sub>> /\ (poll' = "ask" => active < MaxConcurrency)
        /\ poll' # "submit"
    BY <1>4, PoolFacts, ConcurrencyAssumption DEF PollCheckActive, Polling, poolVars
  <2>2. active < MaxConcurrency => Load <= 3 * MaxConcurrency
    BY PoolFacts, ConcurrencyAssumption DEF Load
  <2>3. poll' # "asking"
    BY <1>4 DEF PollCheckActive, Polling
  <2>4. QED
    BY <2>1, <2>2, <2>3, LoadSame DEF RoomLeft, Polls, Sends
<1>5. CASE PollRequest \/ \E j \in Jobs : PollJob(j)
  <2>1. UNCHANGED <<active, stage, taskQueue, sub>> /\ Polls
    BY <1>5 DEF PollRequest, PollJob, Polling, Polls, poolVars
  <2>2. QED
    BY <2>1, LoadSame DEF RoomLeft
<1>6. CASE PollCheckCtx \/ PollEmpty \/ PollError \/ PollSubmitted \/ PollWake
  BY <1>6 DEF PollCheckCtx, PollEmpty, PollError, PollSubmitted, PollWake, Polling,
     RoomLeft, Polls, Sends
<1>7. CASE RunStart
  BY <1>7 DEF RunStart, RoomLeft, Polls, Sends
<1>8. CASE \/ RunSignalled \/ RunDone \/ RunForced \/ RunReturn \/ RunTimeout
           \/ HeartbeatExit \/ StopRead \/ StopCancel \/ Signal \/ UNCHANGED vars
  <2>1. UNCHANGED <<active, stage, taskQueue, sub, poll, polled>>
    BY <1>8 DEF RunSignalled, RunDone, RunForced, RunReturn, RunTimeout, HeartbeatExit,
       StopRead, StopCancel, Signal, vars, poolVars, agentVars
  <2>2. QED
    BY <2>1, LoadSame DEF RoomLeft, Polls, Sends
<1>9. QED
  BY <1>1, <1>2, <1>3, <1>4, <1>5, <1>6, <1>7, <1>8 DEF Next, Run, Poll

(* When the loop's Submit blocks on the full queue, the dispatcher can go on *)
(* at once: a job it holds has a free slot. No number of long scans holds   *)
(* the loop back from seeing the signal (agent_poll.go:29, 53), because the *)
(* queue has room for twice MaxConcurrency (agent.go).                      *)
THEOREM AgentSubmitAwaitsNoScan == Spec => []SubmitAwaitsNoScan
<1>1. Init => RoomLeft
  BY DEF Init, RoomLeft, Polls, Sends
<1>2. Proved!PoolInv /\ AgentInv /\ RoomLeft => SubmitAwaitsNoScan
  <2> SUFFICES ASSUME Proved!PoolInv, RoomLeft, poll = "submit", sub[polled] = "sending",
                      Len(taskQueue) = Pool!QueueCap, NEW j \in Jobs, stage[j] = "held"
               PROVE  sem < MaxConcurrency
    BY DEF SubmitAwaitsNoScan
  <2>1. active < MaxConcurrency
    <3>1. InHand # {}
      BY DEF InHand
    <3>2. Load <= 3 * MaxConcurrency /\ Len(taskQueue) = 2 * MaxConcurrency
      BY Capacities DEF RoomLeft, Sends
    <3>3. QED
      BY <3>1, <3>2, PoolFacts, ConcurrencyAssumption DEF Load
  <2>2. sem <= active
    <3>1. \A i \in Jobs : stage[i] # "slotted"
      BY PoolFacts DEF InHand
    <3>2. Proved!In({"slotted"}) = {}
      BY <3>1 DEF Proved!In
    <3>3. QED
      BY <3>2, Proved!HoldersAreActive, PoolJobs, PoolStoppers, PoolSizes
  <2>3. QED
    BY <2>1, <2>2, PoolFacts, ConcurrencyAssumption
<1>3. QED
  BY <1>1, <1>2, RoomLeftStep, AgentInvariant, PTL DEF Spec

-----------------------------------------------------------------------------
(* Type correctness *)

(* The ranges of the agent's own variables. *)
OwnRanges ==
    /\ ctxDone \in BOOLEAN
    /\ drain \in {"unset", "live", "cancelled"}
    /\ main \in {"idle", "serving", "draining", "waiting", "forcing", "closing", "returned"}
    /\ poll \in {"off", "check", "load", "ask", "asking", "submit", "sleep", "exited"}
    /\ polled \in Jobs \cup {NoJob}
    /\ given \subseteq Jobs
    /\ hb \in {"off", "beating", "exited"}
    /\ stopper \in {"idle", "sawNil", "sawCancel", "done"}

LEMMA OwnRangesStep == OwnRanges /\ [Next]_vars => OwnRanges'
<1> SUFFICES ASSUME OwnRanges, [Next]_vars PROVE OwnRanges'
  OBVIOUS
<1> USE DEF OwnRanges
<1>1. CASE UNCHANGED agentVars
  BY <1>1 DEF agentVars
<1>2. CASE RunStart \/ RunSignalled \/ RunDone \/ RunForced \/ RunReturn \/ RunTimeout
  BY <1>2 DEF RunStart, RunSignalled, RunDone, RunForced, RunReturn, RunTimeout
<1>3. CASE PollCheckCtx \/ PollCheckActive \/ PollRequest \/ PollEmpty \/ PollWake
  BY <1>3 DEF PollCheckCtx, PollCheckActive, PollRequest, PollEmpty, PollWake, Polling
<1>4. CASE PollError \/ PollSubmitted \/ \E j \in Jobs : PollJob(j)
  BY <1>4 DEF PollError, PollSubmitted, PollJob, Polling
<1>5. CASE HeartbeatExit \/ StopRead \/ StopCancel \/ Signal
  BY <1>5 DEF HeartbeatExit, StopRead, StopCancel, Signal
<1>6. CASE DrainerShutdown \/ RunShutdownNow \/ PollSubmit \/ PoolStep
  BY <1>1, <1>6 DEF DrainerShutdown, RunShutdownNow, PollSubmit, PoolStep
<1>7. CASE UNCHANGED vars
  BY <1>1, <1>7 DEF vars
<1>8. QED
  BY <1>2, <1>3, <1>4, <1>5, <1>6, <1>7 DEF Next, Run, Poll

(* Every variable of the agent and of its pool stays in its range: neither   *)
(* does the semaphore overflow nor a counter go below zero (pool.go:91-160) *)
(* under any schedule of run, pollLoop, heartbeatLoop and Stop.             *)
THEOREM AgentTypeCorrect == Spec => []TypeOK
<1>1. Init => OwnRanges
  BY DEF Init, OwnRanges
<1>2. Proved!PoolInv /\ OwnRanges => TypeOK
  <2>1. Proved!TypeOK => Pool!TypeOK
    BY DEF Proved!TypeOK, Pool!TypeOK, Proved!SubState, Pool!SubState, Proved!Stage,
       Pool!Stage, Proved!Stoppers, Pool!Stoppers, Proved!StopState, Pool!StopState,
       Proved!PoolSize, Pool!PoolSize, Proved!AtLeastOne, Pool!AtLeastOne
  <2>2. QED
    BY <2>1 DEF Proved!PoolInv, OwnRanges, TypeOK
<1>3. QED
  BY <1>1, <1>2, OwnRangesStep, AgentInvariant, PTL DEF Spec
=============================================================================
