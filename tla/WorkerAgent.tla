----------------------------- MODULE WorkerAgent -----------------------------
(***************************************************************************)
(* Worker mode (Agent.Run after initSession): the goroutines of            *)
(* agent_run.go, agent_poll.go, agent_heartbeat.go and Agent.Stop around   *)
(* the worker pool, whose own steps are those of WorkerPool. The caller's  *)
(* ctx is the shutdown signal; drainCtx is the context of the heartbeats   *)
(* and of every job.                                                       *)
(*                                                                         *)
(* The server is external: a poll may be answered with a job, with none,   *)
(* or with an error, and an answer may be lost. Which job is which plays   *)
(* no part here, so that they are numbered in the order in which the agent *)
(* hears of them.                                                          *)
(***************************************************************************)
EXTENDS Naturals, Integers, Sequences, FiniteSets

CONSTANTS
    Jobs,           \* the jobs the server has, by their numbers
    MaxConcurrency, \* WithMaxConcurrency
    Timeouts,       \* whether shutdownTimeout may be > 0, and whether it may not
    LongPolling,    \* WithDispatchMode(DispatchLongPolling): no client sleep
    NoJob           \* the empty job ID

ASSUME AgentJobsAssumption   == IsFiniteSet(Jobs) /\ Jobs \subseteq Nat /\ NoJob \notin Jobs
ASSUME ConcurrencyAssumption == MaxConcurrency \in Nat \ {0}
ASSUME ModeAssumption        == Timeouts \subseteq BOOLEAN /\ LongPolling \in BOOLEAN

VARIABLES
    sub, stage, stop, taskQueue, closed, sem, active, wg, running,
    cancelled, reports, crashed,    \* the pool (see WorkerPool)
    ctxDone,    \* the ctx given to Run has been cancelled
    drain,      \* drainCtx and cancelDrain: "unset", "live" or "cancelled"
    main,       \* the goroutine in run
    poll,       \* the goroutine in pollLoop
    polled,     \* the job the poll loop holds, or NoJob
    given,      \* the jobs the agent has been given
    hb,         \* the goroutine in heartbeatLoop
    stopper     \* the goroutine that calls Agent.Stop

poolVars == <<sub, stage, stop, taskQueue, closed, sem, active, wg, running,
              cancelled, reports, crashed>>
agentVars == <<ctxDone, drain, main, poll, polled, given, hb, stopper>>
vars == <<poolVars, agentVars>>

(* initSession: worker.NewPool(maxConcurrency, maxConcurrency*2). The       *)
(* goroutine that run spawns calls Shutdown; run itself calls ShutdownNow.  *)
Pool == INSTANCE WorkerPool WITH
    Graceful <- {"drainer"}, Forced <- {"run"},
    SizeArg <- MaxConcurrency, QueueArg <- 2 * MaxConcurrency

Done == stop["drainer"] \in {"returned", "lost"}   \* close(done)

TypeOK ==
    /\ Pool!TypeOK
    /\ ctxDone \in BOOLEAN
    /\ drain \in {"unset", "live", "cancelled"}
    /\ main \in {"idle", "serving", "draining", "waiting", "forcing", "closing", "returned"}
    /\ poll \in {"off", "check", "load", "ask", "asking", "submit", "sleep", "exited"}
    /\ polled \in Jobs \cup {NoJob}
    /\ given \subseteq Jobs
    /\ hb \in {"off", "beating", "exited"}
    /\ stopper \in {"idle", "sawNil", "sawCancel", "done"}

Init ==
    /\ Pool!Init
    /\ ctxDone = FALSE
    /\ drain = "unset"
    /\ main = "idle"
    /\ poll = "off"
    /\ polled = NoJob
    /\ given = {}
    /\ hb = "off"
    /\ stopper = "idle"

-----------------------------------------------------------------------------
(* run *)

RunStartUnset ==            \* mutant: a.cancelDrain is not stored
    /\ main = "idle"
    /\ main' = "serving"
    /\ hb' = "beating"
    /\ poll' = "check"
    /\ UNCHANGED <<poolVars, ctxDone, drain, polled, given, stopper>>

(* cancelDrain is set without a.mu, then both loops are spawned. *)
RunStart ==
    /\ main = "idle"
    /\ main' = "serving"
    /\ drain' = "live"
    /\ hb' = "beating"
    /\ poll' = "check"
    /\ UNCHANGED <<poolVars, ctxDone, polled, given, stopper>>

RunSignalledCancelling ==   \* mutant: the signal cancels drainCtx too
    /\ main = "serving"
    /\ ctxDone
    /\ \E timeout \in Timeouts : main' = IF timeout THEN "draining" ELSE "waiting"
    /\ drain' = "cancelled"
    /\ UNCHANGED <<poolVars, ctxDone, poll, polled, given, hb, stopper>>

(* <-ctx.Done(), then the drainer is spawned; without a shutdown timeout    *)
(* run waits for it, else it selects.                                       *)
RunSignalled ==
    /\ main = "serving"
    /\ ctxDone
    /\ \E timeout \in Timeouts : main' = IF timeout THEN "draining" ELSE "waiting"
    /\ UNCHANGED <<poolVars, ctxDone, drain, poll, polled, given, hb, stopper>>

RunDoneAtOnce ==            \* mutant: done is closed before Shutdown returns
    /\ main \in {"draining", "waiting"}
    /\ main' = "closing"
    /\ UNCHANGED <<poolVars, ctxDone, drain, poll, polled, given, hb, stopper>>

RunDone ==
    /\ main \in {"draining", "waiting"}
    /\ Done
    /\ main' = "closing"
    /\ UNCHANGED <<poolVars, ctxDone, drain, poll, polled, given, hb, stopper>>

RunTimeoutPatient ==        \* mutant: cancelDrain is not called on the timeout
    /\ main = "draining"
    /\ main' = "forcing"
    /\ UNCHANGED <<poolVars, ctxDone, drain, poll, polled, given, hb, stopper>>

(* time.After(shutdownTimeout): cancel the jobs, then ShutdownNow. *)
RunTimeout ==
    /\ main = "draining"
    /\ drain' = "cancelled"
    /\ main' = "forcing"
    /\ UNCHANGED <<poolVars, ctxDone, poll, polled, given, hb, stopper>>

RunForced ==
    /\ main = "forcing"
    /\ stop["run"] \in {"returned", "lost"}
    /\ main' = "closing"
    /\ UNCHANGED <<poolVars, ctxDone, drain, poll, polled, given, hb, stopper>>

RunReturn ==
    /\ main = "closing"
    /\ drain' = "cancelled"
    /\ main' = "returned"
    /\ UNCHANGED <<poolVars, ctxDone, poll, polled, given, hb, stopper>>

(* pool.Shutdown in the drainer, pool.ShutdownNow in run. *)
DrainerShutdown ==
    /\ main \notin {"idle", "serving"}
    /\ Pool!StopCAS("drainer") \/ Pool!StopStep("drainer")
    /\ UNCHANGED agentVars

RunShutdownNow ==
    /\ main = "forcing"
    /\ Pool!StopCAS("run") \/ Pool!StopStep("run")
    /\ UNCHANGED agentVars

-----------------------------------------------------------------------------
(* pollLoop. The reads of ctx.Err() and of ActiveWorkers() are two steps.   *)

Polling(from, to) == poll = from /\ poll' = to

PollCheckNothing ==         \* mutant: the loop condition is forgotten
    /\ Polling("check", "load")
    /\ UNCHANGED <<poolVars, ctxDone, drain, main, polled, given, hb, stopper>>

PollCheckCtx ==
    /\ Polling("check", IF ctxDone THEN "exited" ELSE "load")
    /\ UNCHANGED <<poolVars, ctxDone, drain, main, polled, given, hb, stopper>>

PollCheckActive ==
    /\ Polling("load", IF active >= MaxConcurrency THEN "sleep" ELSE "ask")
    /\ UNCHANGED <<poolVars, ctxDone, drain, main, polled, given, hb, stopper>>

(* DoPollJob: under a cancelled ctx the request is not sent and fails. *)
PollRequest ==
    /\ Polling("ask", IF ctxDone THEN "sleep" ELSE "asking")
    /\ UNCHANGED <<poolVars, ctxDone, drain, main, polled, given, hb, stopper>>

(* The job the agent is given next. *)
IsNext(j) == j \notin given /\ \A i \in Jobs \ given : j <= i

(* The answer names a job; it may arrive when ctx is already cancelled. *)
PollJob(j) ==
    /\ Polling("asking", "submit")
    /\ IsNext(j)
    /\ polled' = j
    /\ given' = given \cup {j}
    /\ UNCHANGED <<poolVars, ctxDone, drain, main, hb, stopper>>

(* No job: the next round follows at once, or after pollInterval. *)
PollEmpty ==
    /\ Polling("asking", IF LongPolling THEN "check" ELSE "sleep")
    /\ UNCHANGED <<poolVars, ctxDone, drain, main, polled, given, hb, stopper>>

PollErrorNoJob ==           \* mutant: the empty job ID counts as a job
    /\ Polling("asking", "sleep")
    /\ given' = given \cup {NoJob}
    /\ UNCHANGED <<poolVars, ctxDone, drain, main, polled, hb, stopper>>

(* An error (also the cancellation of ctx) is followed by the backoff. A    *)
(* job that was handed out in the answer that got lost is one the agent     *)
(* never hears of: it has no number.                                        *)
PollError ==
    /\ Polling("asking", "sleep")
    /\ UNCHANGED <<poolVars, ctxDone, drain, main, polled, given, hb, stopper>>

(* pool.Submit(agentPoolJob): a refusal is only logged. *)
PollSubmit ==
    /\ poll = "submit"
    /\ Pool!SubmitCheck(polled) \/ Pool!SubmitStep(polled)
    /\ UNCHANGED agentVars

PollSubmittedEarly ==       \* mutant: the loop goes on before Submit returned
    /\ Polling("submit", "check")
    /\ sub[polled] # "idle"
    /\ polled' = NoJob
    /\ UNCHANGED <<poolVars, ctxDone, drain, main, given, hb, stopper>>

PollSubmitted ==
    /\ Polling("submit", "check")
    /\ sub[polled] \in {"returned", "refused"}
    /\ polled' = NoJob
    /\ UNCHANGED <<poolVars, ctxDone, drain, main, given, hb, stopper>>

(* sleepOrCancel: the timer, or the cancellation. *)
PollWake ==
    /\ \/ Polling("sleep", "check")
       \/ ctxDone /\ Polling("sleep", "exited")
    /\ UNCHANGED <<poolVars, ctxDone, drain, main, polled, given, hb, stopper>>

-----------------------------------------------------------------------------
(* heartbeatLoop ends with drainCtx (a tick itself changes nothing here). *)
HeartbeatExit ==
    /\ hb = "beating"
    /\ drain = "cancelled"
    /\ hb' = "exited"
    /\ UNCHANGED <<poolVars, ctxDone, drain, main, poll, polled, given, stopper>>

(* Agent.Stop: read cancelDrain (under a.mu, which nobody else takes), then *)
(* call it unless it is nil.                                                *)
StopRead ==
    /\ stopper = "idle"
    /\ stopper' = IF drain = "unset" THEN "sawNil" ELSE "sawCancel"
    /\ UNCHANGED <<poolVars, ctxDone, drain, main, poll, polled, given, hb>>

StopCancel ==
    /\ stopper = "sawCancel"
    /\ drain' = "cancelled"
    /\ stopper' = "done"
    /\ UNCHANGED <<poolVars, ctxDone, main, poll, polled, given, hb>>

(* The caller cancels the ctx it gave to Run, at any time. *)
Signal ==
    /\ ~ctxDone
    /\ ctxDone' = TRUE
    /\ UNCHANGED <<poolVars, drain, main, poll, polled, given, hb, stopper>>

-----------------------------------------------------------------------------
(* The pool's own goroutines. agentPoolJob.Execute ignores the pool's       *)
(* context: what makes a scan stop is drainCtx.                             *)
PoolStep ==
    /\ Pool!DispatchStep \/ \E j \in Jobs : Pool!WorkerStep(j)
    /\ UNCHANGED agentVars

(* The pool's steps other than the return of Execute. *)
PoolInternal ==
    /\ \/ Pool!DispatchStep
       \/ \E j \in Jobs : \/ Pool!WorkerReport(j) \/ Pool!WorkerRelease(j)
                          \/ Pool!WorkerUncount(j) \/ Pool!WorkerDone(j)
    /\ UNCHANGED agentVars

ExecuteReturns(j) == Pool!WorkerFinish(j) /\ UNCHANGED agentVars

Run == RunSignalled \/ RunDone \/ RunForced \/ RunReturn \/ RunShutdownNow
Poll == \/ PollCheckCtx \/ PollCheckActive \/ PollRequest
        \/ PollEmpty \/ PollError \/ PollSubmit \/ PollSubmitted \/ PollWake
        \/ \E j \in Jobs : PollJob(j)

Next ==
    /\ ~crashed
    /\ \/ RunStart \/ Run \/ RunTimeout
       \/ DrainerShutdown
       \/ Poll
       \/ HeartbeatExit
       \/ StopRead \/ StopCancel
       \/ Signal
       \/ PoolStep

Spec == Init /\ [][Next]_vars

(* Goroutines that can run do; a poll is answered in the end; the timer of  *)
(* the shutdown timeout fires. A scan is obliged to return only once its    *)
(* context (drainCtx) is cancelled, or when run waits for it without a      *)
(* timeout ("0 = wait forever"); nobody is obliged to send the signal or to *)
(* call Stop.                                                               *)
ScanMustReturn == drain = "cancelled" \/ main = "waiting"

Fairness ==
    /\ WF_vars(~crashed /\ Run) /\ WF_vars(~crashed /\ RunTimeout)
    /\ WF_vars(~crashed /\ DrainerShutdown)
    /\ WF_vars(~crashed /\ Poll)
    /\ WF_vars(~crashed /\ HeartbeatExit)
    /\ WF_vars(~crashed /\ PoolInternal)
    /\ \A j \in Jobs : WF_vars(~crashed /\ ScanMustReturn /\ ExecuteReturns(j))

FairSpec == Spec /\ Fairness

-----------------------------------------------------------------------------
Executing == {j \in Jobs : stage[j] = "executing"}

(* "running jobs now continue heartbeating during pod termination": from    *)
(* the signal to the end of the drain the heartbeat loop is alive and the   *)
(* jobs' context is not cancelled, unless Stop was called or the shutdown   *)
(* timeout fired.                                                           *)
DrainKeepsBeating ==
    (Executing # {} /\ main \in {"serving", "draining", "waiting"} /\ stopper # "done")
        => (hb = "beating" /\ drain = "live")

(* Work never goes on uncancelled behind the back of whoever called Run.    *)
(* When Run has returned without being forced, no job is in the pool; when  *)
(* the timeout forced it, what is left runs under a cancelled drainCtx.     *)
ReturnLeavesNoWork ==
    main = "returned" =>
        /\ drain = "cancelled"
        /\ stop["run"] = "idle" => \A j \in Jobs : stage[j] \in {"none", "done"}

(* Agent.Stop finds no cancel function only when no job is in flight yet.   *)
StopMissesNothing ==
    [][(stopper = "idle" /\ stopper' = "sawNil") => Executing = {}]_vars

(* After the signal, Run returns: at the latest when the timeout has fired  *)
(* and the scans have seen their context cancelled.                         *)
RunReturns == (main # "idle" /\ ctxDone) ~> (main = "returned" \/ crashed)

(* The poll loop ends too, although nobody waits for it: neither a Submit   *)
(* that blocks on the full queue nor a refusing pool holds it for ever.     *)
PollLoopExits == (main # "idle" /\ ctxDone) ~> (poll = "exited" \/ crashed)

(* After the signal, all the jobs the agent was ever given, those it        *)
(* received after the signal included, are executed to their end or         *)
(* refused: the shutdown strands no job between the loop and the pool.      *)
PolledJobsSettle ==
    (main # "idle" /\ ctxDone) ~>
        [](crashed \/ \A j \in given : stage[j] = "done" \/ sub[j] = "refused")

(* A Submit that blocks on the full queue waits for the dispatcher, which   *)
(* can take its next step at once, and never for a scan to come to its end: *)
(* the loop polls only while fewer than MaxConcurrency jobs are active, and *)
(* queue, dispatcher and workers together hold one job more than that.      *)
SubmitAwaitsNoScan ==
    (poll = "submit" /\ sub[polled] = "sending" /\ Len(taskQueue) = Pool!QueueCap) =>
        \A j \in Jobs : stage[j] = "held" => sem < MaxConcurrency

(* pool.go:58-59 "Returns an error if the pool is stopped", which           *)
(* agent_poll.go:54-57 counts on: the process survives a shutdown that      *)
(* overtakes the submission of the last polled job.                         *)
SurvivesShutdown == ~crashed
=============================================================================
