----------------------------- MODULE WorkerPool -----------------------------
(***************************************************************************)
(* internal/worker/pool.go at the grain of its shared-memory steps: each   *)
(* atomic load, CAS, WaitGroup operation and channel operation is an       *)
(* action of its own, so every interleaving of the Submit callers, the     *)
(* dispatch goroutine, the per-job goroutines and the callers of Shutdown  *)
(* and ShutdownNow is explored.                                            *)
(*                                                                         *)
(* A Go panic that nobody recovers (here: a send on a closed channel) ends *)
(* the process: `crashed' becomes TRUE and no further action is enabled.   *)
(* A job's callbacks (OnEnqueue, OnError, OnCompleted) are assumed not to  *)
(* panic, as the SDK's own (agentPoolJob) only log.                        *)
(***************************************************************************)
EXTENDS Naturals, Integers, Sequences, FiniteSets

CONSTANTS
    Jobs,       \* the jobs that may be submitted, each at most once
    Graceful,   \* the goroutines that may call Shutdown
    Forced,     \* the goroutines that may call ShutdownNow
    SizeArg,    \* the arguments of NewPool: the pool size ...
    QueueArg    \* ... and the capacity of the queue

ASSUME JobsAssumption     == IsFiniteSet(Jobs)
ASSUME StoppersAssumption == Graceful \cap Forced = {}
ASSUME SizeAssumption     == SizeArg \in Int /\ QueueArg \in Int

Stoppers == Graceful \cup Forced

(* NewPool replaces a size or a capacity that is not positive by 1. *)
AtLeastOne(n) == IF n <= 0 THEN 1 ELSE n
PoolSize == AtLeastOne(SizeArg)
QueueCap == AtLeastOne(QueueArg)

VARIABLES
    sub,        \* sub[j]: where the call Submit(j) is
    stage,      \* stage[j]: where job j is inside the pool
    stop,       \* stop[s]: where the call Shutdown / ShutdownNow of s is
    taskQueue,  \* the buffered channel p.taskQueue, oldest first
    closed,     \* p.taskQueue has been closed
    sem,        \* the number of tokens in the channel p.sem
    active,     \* p.active
    wg,         \* the counter of p.wg
    running,    \* p.running
    cancelled,  \* p.ctx has been cancelled
    reports,    \* reports[j]: how many OnError / OnCompleted calls j has had
    crashed     \* the process has died of an unrecovered panic

channel == <<taskQueue, closed>>
vars == <<sub, stage, stop, channel, sem, active, wg, running, cancelled, reports, crashed>>

SubState == {"idle", "adding", "sending", "sent", "returned", "refused"}

(* "slotted" holds a token of p.sem but is not counted in p.active yet;     *)
(* "executing" is inside Execute; "ok" and "bad" are about to be reported;  *)
(* "leaving", "released" and "uncounted" are the deferred steps.            *)
Stage == {"none", "queued", "held", "slotted", "executing", "ok", "bad",
          "leaving", "released", "uncounted", "done"}
StopState == {"idle", "closing", "cancelFirst", "waiting", "cancelLast", "returned", "lost"}

(* The jobs that are in one of the stages S. *)
In(S) == {j \in Jobs : stage[j] \in S}

HoldsToken == {"slotted", "executing", "ok", "bad", "leaving"}
IsActive   == {"executing", "ok", "bad", "leaving", "released"}
Executing  == In({"executing"})

(* The jobs p.wg counts: added by Submit and not yet Done by their worker. *)
Counted == {j \in Jobs : sub[j] = "sending" \/ stage[j] \notin {"none", "done"}}

(* What each variable ranges over. *)
TypeOK ==
    /\ sub \in [Jobs -> SubState]
    /\ stage \in [Jobs -> Stage]
    /\ stop \in [Stoppers -> StopState]
    /\ taskQueue \in Seq(Jobs)
    /\ closed \in BOOLEAN
    /\ sem \in 0..PoolSize
    /\ active \in Nat
    /\ wg \in Nat
    /\ running \in BOOLEAN
    /\ cancelled \in BOOLEAN
    /\ reports \in [Jobs -> Nat]
    /\ crashed \in BOOLEAN

Init ==
    /\ sub = [j \in Jobs |-> "idle"]
    /\ stage = [j \in Jobs |-> "none"]
    /\ stop = [s \in Stoppers |-> "idle"]
    /\ taskQueue = <<>>
    /\ closed = FALSE
    /\ sem = 0
    /\ active = 0
    /\ wg = 0
    /\ running = TRUE
    /\ cancelled = FALSE
    /\ reports = [j \in Jobs |-> 0]
    /\ crashed = FALSE

-----------------------------------------------------------------------------
(* Submit *)

(* The load of p.running: a stopped pool calls OnError and refuses. *)
SubmitCheck(j) ==
    /\ sub[j] = "idle"
    /\ IF running
       THEN /\ sub' = [sub EXCEPT ![j] = "adding"]
            /\ UNCHANGED reports
       ELSE /\ sub' = [sub EXCEPT ![j] = "refused"]
            /\ reports' = [reports EXCEPT ![j] = @ + 1]
    /\ UNCHANGED <<stage, stop, channel, sem, active, wg, running, cancelled, crashed>>

SubmitAdd(j) ==
    /\ sub[j] = "adding"
    /\ sub' = [sub EXCEPT ![j] = "sending"]
    /\ wg' = wg + 1
    /\ UNCHANGED <<stage, stop, channel, sem, active, running, cancelled, reports, crashed>>

(* The send blocks while the queue is full. *)
SubmitSend(j) ==
    /\ sub[j] = "sending"
    /\ ~closed
    /\ Len(taskQueue) < QueueCap
    /\ taskQueue' = Append(taskQueue, j)
    /\ sub' = [sub EXCEPT ![j] = "sent"]
    /\ stage' = [stage EXCEPT ![j] = "queued"]
    /\ UNCHANGED <<stop, closed, sem, active, wg, running, cancelled, reports, crashed>>

(* A send on a closed channel panics, also when it was blocked before. *)
SubmitPanic(j) ==
    /\ sub[j] = "sending"
    /\ closed
    /\ crashed' = TRUE
    /\ UNCHANGED <<sub, stage, stop, channel, sem, active, wg, running, cancelled, reports>>

(* OnEnqueue runs after the send: the job may be finished already. *)
SubmitReturn(j) ==
    /\ sub[j] = "sent"
    /\ sub' = [sub EXCEPT ![j] = "returned"]
    /\ UNCHANGED <<stage, stop, channel, sem, active, wg, running, cancelled, reports, crashed>>

-----------------------------------------------------------------------------
(* dispatch: one goroutine, which takes the next job only when it has       *)
(* handed over the one it holds. A closed channel still yields its buffer.  *)

Dispatching == In({"held", "slotted"})

DispatchReceiveNewest ==    \* mutant: the newest job is taken first
    /\ Dispatching = {}
    /\ taskQueue # <<>>
    /\ taskQueue' = SubSeq(taskQueue, 1, Len(taskQueue) - 1)
    /\ stage' = [stage EXCEPT ![taskQueue[Len(taskQueue)]] = "held"]
    /\ UNCHANGED <<sub, stop, closed, sem, active, wg, running, cancelled, reports, crashed>>

DispatchReceiveOpen ==      \* mutant: dispatch returns when the queue is closed
    /\ ~closed
    /\ Dispatching = {}
    /\ taskQueue # <<>>
    /\ taskQueue' = Tail(taskQueue)
    /\ stage' = [stage EXCEPT ![Head(taskQueue)] = "held"]
    /\ UNCHANGED <<sub, stop, closed, sem, active, wg, running, cancelled, reports, crashed>>

DispatchReceive ==
    /\ Dispatching = {}
    /\ taskQueue # <<>>
    /\ taskQueue' = Tail(taskQueue)
    /\ stage' = [stage EXCEPT ![Head(taskQueue)] = "held"]
    /\ UNCHANGED <<sub, stop, closed, sem, active, wg, running, cancelled, reports, crashed>>

DispatchAcquireOneMore(j) ==    \* mutant: p.sem has one slot too many
    /\ stage[j] = "held"
    /\ sem <= PoolSize
    /\ sem' = sem + 1
    /\ stage' = [stage EXCEPT ![j] = "slotted"]
    /\ UNCHANGED <<sub, stop, channel, active, wg, running, cancelled, reports, crashed>>

DispatchAcquire(j) ==
    /\ stage[j] = "held"
    /\ sem < PoolSize
    /\ sem' = sem + 1
    /\ stage' = [stage EXCEPT ![j] = "slotted"]
    /\ UNCHANGED <<sub, stop, channel, active, wg, running, cancelled, reports, crashed>>

DispatchSpawnUncounted(j) ==    \* mutant: active.Add(1) is forgotten
    /\ stage[j] = "slotted"
    /\ stage' = [stage EXCEPT ![j] = "executing"]
    /\ UNCHANGED <<sub, stop, channel, sem, active, wg, running, cancelled, reports, crashed>>

(* active.Add(1), then go: the worker is inside Execute. *)
DispatchSpawn(j) ==
    /\ stage[j] = "slotted"
    /\ active' = active + 1
    /\ stage' = [stage EXCEPT ![j] = "executing"]
    /\ UNCHANGED <<sub, stop, channel, sem, wg, running, cancelled, reports, crashed>>

-----------------------------------------------------------------------------
(* The worker goroutine of job j *)

(* Execute returns nil ("ok"), or returns an error or panics ("bad"). *)
WorkerFinish(j) ==
    /\ stage[j] = "executing"
    /\ \E outcome \in {"ok", "bad"} : stage' = [stage EXCEPT ![j] = outcome]
    /\ UNCHANGED <<sub, stop, channel, sem, active, wg, running, cancelled, reports, crashed>>

WorkerReportTwice(j) ==     \* mutant: OnCompleted is called also after OnError
    /\ stage[j] \in {"ok", "bad"}
    /\ stage' = [stage EXCEPT ![j] = "leaving"]
    /\ reports' = [reports EXCEPT ![j] = @ + IF stage[j] = "bad" THEN 2 ELSE 1]
    /\ UNCHANGED <<sub, stop, channel, sem, active, wg, running, cancelled, crashed>>

(* OnCompleted, or OnError (called by the recover when Execute panicked). *)
WorkerReport(j) ==
    /\ stage[j] \in {"ok", "bad"}
    /\ stage' = [stage EXCEPT ![j] = "leaving"]
    /\ reports' = [reports EXCEPT ![j] = @ + 1]
    /\ UNCHANGED <<sub, stop, channel, sem, active, wg, running, cancelled, crashed>>

(* The deferred function: give the token back, then uncount, then Done. *)
WorkerRelease(j) ==
    /\ stage[j] = "leaving"
    /\ sem' = sem - 1
    /\ stage' = [stage EXCEPT ![j] = "released"]
    /\ UNCHANGED <<sub, stop, channel, active, wg, running, cancelled, reports, crashed>>

WorkerUncount(j) ==
    /\ stage[j] = "released"
    /\ active' = active - 1
    /\ stage' = [stage EXCEPT ![j] = "uncounted"]
    /\ UNCHANGED <<sub, stop, channel, sem, wg, running, cancelled, reports, crashed>>

WorkerDoneTwice(j) ==       \* mutant: the recover calls p.wg.Done() too
    /\ stage[j] = "uncounted"
    /\ wg' = wg - 2
    /\ stage' = [stage EXCEPT ![j] = "done"]
    /\ UNCHANGED <<sub, stop, channel, sem, active, running, cancelled, reports, crashed>>

WorkerDoneForgotten(j) ==   \* mutant: p.wg.Done() is forgotten
    /\ stage[j] = "uncounted"
    /\ stage' = [stage EXCEPT ![j] = "done"]
    /\ UNCHANGED <<sub, stop, channel, sem, active, wg, running, cancelled, reports, crashed>>

WorkerDone(j) ==
    /\ stage[j] = "uncounted"
    /\ wg' = wg - 1
    /\ stage' = [stage EXCEPT ![j] = "done"]
    /\ UNCHANGED <<sub, stop, channel, sem, active, running, cancelled, reports, crashed>>

-----------------------------------------------------------------------------
(* Shutdown and ShutdownNow: the first of all callers wins the CAS, every   *)
(* other call returns at once.                                              *)

StopCAS(s) ==
    /\ stop[s] = "idle"
    /\ running' = FALSE
    /\ stop' = [stop EXCEPT ![s] = IF ~running THEN "lost"
                                   ELSE IF s \in Forced THEN "cancelFirst"
                                   ELSE "closing"]
    /\ UNCHANGED <<sub, stage, channel, sem, active, wg, cancelled, reports, crashed>>

(* ShutdownNow cancels p.ctx before it closes the queue. *)
StopCancelFirst(s) ==
    /\ stop[s] = "cancelFirst"
    /\ cancelled' = TRUE
    /\ stop' = [stop EXCEPT ![s] = "closing"]
    /\ UNCHANGED <<sub, stage, channel, sem, active, wg, running, reports, crashed>>

StopCloseCancelling(s) ==   \* mutant: Shutdown cancels p.ctx before the wait
    /\ stop[s] = "closing"
    /\ closed' = TRUE
    /\ cancelled' = TRUE
    /\ stop' = [stop EXCEPT ![s] = "waiting"]
    /\ UNCHANGED <<sub, stage, taskQueue, sem, active, wg, running, reports, crashed>>

StopClose(s) ==
    /\ stop[s] = "closing"
    /\ closed' = TRUE
    /\ stop' = [stop EXCEPT ![s] = "waiting"]
    /\ UNCHANGED <<sub, stage, taskQueue, sem, active, wg, running, cancelled, reports, crashed>>

StopWaitIdle(s) ==          \* mutant: the wait is for p.active, not for p.wg
    /\ stop[s] = "waiting"
    /\ active = 0
    /\ stop' = [stop EXCEPT ![s] = IF s \in Forced THEN "returned" ELSE "cancelLast"]
    /\ UNCHANGED <<sub, stage, channel, sem, active, wg, running, cancelled, reports, crashed>>

StopWait(s) ==
    /\ stop[s] = "waiting"
    /\ wg = 0
    /\ stop' = [stop EXCEPT ![s] = IF s \in Forced THEN "returned" ELSE "cancelLast"]
    /\ UNCHANGED <<sub, stage, channel, sem, active, wg, running, cancelled, reports, crashed>>

(* Shutdown cancels p.ctx after the wait. *)
StopCancelLast(s) ==
    /\ stop[s] = "cancelLast"
    /\ cancelled' = TRUE
    /\ stop' = [stop EXCEPT ![s] = "returned"]
    /\ UNCHANGED <<sub, stage, channel, sem, active, wg, running, reports, crashed>>

-----------------------------------------------------------------------------
SubmitStep(j) == SubmitAdd(j) \/ SubmitSend(j) \/ SubmitPanic(j) \/ SubmitReturn(j)
DispatchStep  == DispatchReceive \/ \E j \in Jobs : DispatchAcquire(j) \/ DispatchSpawn(j)
WorkerStep(j) == \/ WorkerFinish(j) \/ WorkerReport(j) \/ WorkerRelease(j)
                 \/ WorkerUncount(j) \/ WorkerDone(j)
StopStep(s)   == StopCancelFirst(s) \/ StopClose(s) \/ StopWait(s) \/ StopCancelLast(s)

Step ==
    \/ \E j \in Jobs : SubmitCheck(j) \/ SubmitStep(j) \/ WorkerStep(j)
    \/ DispatchStep
    \/ \E s \in Stoppers : StopCAS(s) \/ StopStep(s)

Next == ~crashed /\ Step

Spec == Init /\ [][Next]_vars

(* Every goroutine that has started keeps running, and Execute returns.     *)
(* Nobody is obliged to call Submit, Shutdown or ShutdownNow.               *)
Fairness ==
    /\ \A j \in Jobs : WF_vars(~crashed /\ SubmitStep(j)) /\ WF_vars(~crashed /\ WorkerStep(j))
    /\ WF_vars(~crashed /\ DispatchStep)
    /\ \A s \in Stoppers : WF_vars(~crashed /\ StopStep(s))

FairSpec == Spec /\ Fairness

-----------------------------------------------------------------------------
(* Never more jobs inside Execute than the pool has slots, whatever the     *)
(* interleaving of the dispatcher with the deferred releases.               *)
ExecutingWithinSize == Cardinality(Executing) <= PoolSize

(* ActiveWorkers, which the poll loop reads to decide whether to pull more  *)
(* work, never reports fewer jobs than are executing (it may report more).  *)
ActiveCoversExecuting == Cardinality(Executing) <= active

(* "Shutdown gracefully stops the pool, waiting for all jobs to complete":  *)
(* when the call that won the CAS has passed its wait, no job is in the     *)
(* queue, in the dispatcher's hand or in a worker, and none gets there.     *)
ShutdownDrains ==
    (\E s \in Stoppers : stop[s] \in {"cancelLast", "returned"})
        => In(Stage \ {"none", "done"}) = {}

(* Every job is reported through OnError or OnCompleted exactly once by     *)
(* the time its worker is gone or its Submit was refused, never twice.      *)
ReportedOnce ==
    \A j \in Jobs :
        /\ reports[j] <= 1
        /\ (sub[j] = "refused" \/ stage[j] = "done") => reports[j] = 1

(* A job sees p.ctx cancelled while it executes only if ShutdownNow won:    *)
(* the graceful Shutdown never cancels work in progress.                    *)
GracefulNeverCancels ==
    (cancelled /\ Executing # {}) => \E s \in Forced : stop[s] \in {"closing", "waiting"}

(* Once the winner has closed the queue its call returns (unless a          *)
(* submitter's panic kills the process): nobody waits for the wait group    *)
(* for ever.                                                                *)
ShutdownReturns ==
    \A s \in Stoppers :
        stop[s] \in {"cancelFirst", "closing"} ~> (stop[s] = "returned" \/ crashed)

(* A job that entered the queue is executed and reported, shutdown or not.  *)
QueuedJobsFinish == \A j \in Jobs : stage[j] = "queued" ~> (stage[j] = "done" \/ crashed)

-----------------------------------------------------------------------------
(* The pool implements PoolContract. A job counts as begun from `go' until  *)
(* its report, as pending from the send until `go'.                         *)

Handed == IF Dispatching = {} THEN <<>> ELSE <<CHOOSE j \in Jobs : j \in Dispatching>>

Phase ==
    IF \E s \in Stoppers : stop[s] \in {"cancelLast", "returned"} THEN "drained"
    ELSE IF closed THEN "closed"
    ELSE IF running THEN "open" ELSE "stopping"

Pending == Handed \o taskQueue
Begun   == In({"executing", "ok", "bad"})
Ended   == In({"leaving", "released", "uncounted", "done"})
Refused == {j \in Jobs : sub[j] = "refused"}

Contract == INSTANCE PoolContract WITH
    Size <- PoolSize, pending <- Pending, begun <- Begun, ended <- Ended,
    refused <- Refused, phase <- Phase

(* Jobs begin in the order in which their sends succeeded and within the    *)
(* size, an open pool refuses nobody, nothing is accepted after the close,  *)
(* and the shutdown that won ends only when every accepted job has ended.   *)
ImplementsContract == Contract!Spec
-----------------------------------------------------------------------------
(* The inductive invariant behind the safety properties: what each counter  *)
(* counts, who won the CAS and how far it is, and where the queue's jobs    *)
(* are. WorkerPoolProofs shows that it is inductive.                        *)

Won(s)   == stop[s] \notin {"idle", "lost"}
Past(s)  == stop[s] \in {"cancelLast", "returned"}

CountersExact ==
    /\ sem = Cardinality(In(HoldsToken)) /\ sem <= PoolSize
    /\ active = Cardinality(In(IsActive))
    /\ wg = Cardinality(Counted)

OneWinner ==
    /\ running => \A s \in Stoppers : stop[s] = "idle"
    /\ \A s, t \in Stoppers : Won(s) /\ Won(t) => s = t
    /\ \A s \in Stoppers : /\ stop[s] = "cancelFirst" => s \in Forced
                           /\ stop[s] = "cancelLast" => s \notin Forced

CloseInv  == closed <=> \E s \in Stoppers : stop[s] \in {"waiting", "cancelLast", "returned"}
CancelInv == cancelled => \E s \in Stoppers :
                \/ stop[s] = "returned"
                \/ s \in Forced /\ stop[s] \in {"closing", "waiting"}

(* A job is in the pool exactly when its send has happened. *)
SentInv == \A j \in Jobs : stage[j] = "none" <=> sub[j] \notin {"sent", "returned"}

ReportsInv == \A j \in Jobs :
    reports[j] = IF sub[j] = "refused" \/ stage[j] \in {"leaving", "released", "uncounted", "done"}
                 THEN 1 ELSE 0

(* The channel holds the queued jobs, each once; the dispatcher holds at    *)
(* most one.                                                                *)
QueueInv ==
    /\ \A i \in 1..Len(taskQueue) : stage[taskQueue[i]] = "queued"
    /\ \A i, k \in 1..Len(taskQueue) : taskQueue[i] = taskQueue[k] => i = k
    /\ \A j \in Jobs : stage[j] = "queued" => \E i \in 1..Len(taskQueue) : taskQueue[i] = j
    /\ Len(taskQueue) <= QueueCap
    /\ \A i, j \in Dispatching : i = j

PoolInv == /\ TypeOK /\ CountersExact /\ OneWinner /\ CloseInv /\ CancelInv
           /\ SentInv /\ ReportsInv /\ QueueInv /\ ShutdownDrains
=============================================================================
