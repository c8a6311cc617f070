------------------------------- MODULE Session -------------------------------
(***************************************************************************)
(* The lifecycle methods of one Agent: Run, RunOnce and Dispatch, called   *)
(* by any number of goroutines, the one-shot guard they share, initSession *)
(* with its retried registration and its metadata sync, and then the body  *)
(* of RunOnce and of Dispatch. What Run does next is in WorkerAgent, what  *)
(* executeJob does in JobExecution.                                        *)
(*                                                                         *)
(* The server is external: a call may fail before or after it was          *)
(* processed, a poll may name any job that waits for an agent, and a job    *)
(* that was handed out may be put back into the queue at any time.         *)
(***************************************************************************)
EXTENDS Naturals, Integers, Sequences, FiniteSets

CONSTANTS
    Callers,        \* the goroutines that call a lifecycle method, once each
    Jobs,           \* the jobs the server has
    NoJob,          \* no job
    SyncDispatcher, \* WithDispatcherMetadataSync
    LongPolling,    \* WithDispatchMode(DispatchLongPolling): no client sleep
    MaxFailures,    \* bound: failures in a row are counted up to here
    MaxRequeues,    \* bound: how often the server puts a job back
    MaxAttempts, InitialBackoff, MaxBackoff, BackoffMultiplier, Jitter,
    RetryableStatusCodes    \* the retry policy (see Retrier)

ASSUME SessionAssumption ==
    /\ NoJob \notin Jobs
    /\ SyncDispatcher \in BOOLEAN /\ LongPolling \in BOOLEAN
    /\ MaxFailures \in Nat /\ MaxFailures > 5     \* the cap is reached at the sixth
    /\ MaxRequeues \in Nat

Methods == {"Run", "RunOnce", "Dispatch"}

VARIABLES
    running,    \* a.running
    method,     \* method[c]: the method c calls
    at,         \* at[c]: where c is in it
    regPc, attempt, errors, pauses, result, \* retrier.Do around RegisterAgent
    ctxDone,    \* the ctx of the calls is cancelled
    machines,   \* how many machines the server has registered
    ready,      \* a.client, a.tokenManager and a.pool are set
    loop,       \* where runDispatcher is
    polled,     \* the job in the hand of RunOnce or Dispatch
    waiting,    \* the jobs the server has to hand out
    requeues,   \* how often it has put one back
    received,   \* the jobs the agent was told of, by an answer or by the caller
    handled,    \* the jobs executed or given to the handler, with the outcome
    backoff,    \* backoff in runDispatcher, in seconds
    pause,      \* the argument of the sleep that is going on
    failures,   \* the polls that failed since the last answer
    hb          \* the heartbeat goroutine of Dispatch; "ending": drainCtx is cancelled

regVars  == <<regPc, attempt, errors, pauses, result>>
jobVars  == <<polled, waiting, requeues, received, handled>>
waitVars == <<backoff, pause, failures>>
loopVars == <<loop, jobVars, waitVars, hb>>
vars == <<running, method, at, regVars, ctxDone, machines, ready, loopVars>>

(* RegisterAgent wraps whatever the RPC returns. *)
RegisterErrors == [cause : {"502", "net", "other"}, wrapped : {TRUE}]

Register == INSTANCE Retrier WITH Errors <- RegisterErrors, pc <- regPc

ASSUME PolicyAssumption ==
    Register!AttemptsAssumption /\ Register!BackoffAssumption /\ Register!JitterAssumption

PollInterval == 5
CapOfBackoff == 30
ClientSleep  == IF LongPolling THEN 0 ELSE PollInterval

TypeOK ==
    /\ running \in BOOLEAN
    /\ method \in [Callers -> Methods]
    /\ at \in [Callers -> {"idle", "refused", "register", "sync", "serve", "returned"}]
    /\ Register!TypeOK
    /\ machines \in Nat
    /\ ready \in BOOLEAN
    /\ loop \in {"off", "check", "ask", "handle", "sleep", "ended"}
    /\ polled \in Jobs \cup {NoJob}
    /\ waiting \subseteq Jobs /\ requeues \in 0..MaxRequeues
    /\ received \in Seq(Jobs)
    /\ handled \in Seq([job : Jobs, ok : BOOLEAN])
    /\ backoff \in 1..CapOfBackoff
    /\ pause \in 0..CapOfBackoff
    /\ failures \in 0..MaxFailures
    /\ hb \in {"off", "beating", "ending", "exited"}

Init ==
    /\ running = FALSE
    /\ method \in [Callers -> Methods]
    /\ at = [c \in Callers |-> "idle"]
    /\ Register!Init
    /\ machines = 0
    /\ ready = FALSE
    /\ loop = "off" /\ polled = NoJob
    /\ waiting = Jobs /\ requeues = 0 /\ received = <<>> /\ handled = <<>>
    /\ backoff = 1 /\ pause = 0 /\ failures = 0
    /\ hb = "off"

-----------------------------------------------------------------------------
Goto(c, from, to) == at[c] = from /\ at' = [at EXCEPT ![c] = to]

StartLate(c) ==             \* mutant: running is stored after initSession
    /\ Goto(c, "idle", IF running THEN "refused" ELSE "register")
    /\ UNCHANGED <<running, method, regVars, ctxDone, machines, ready, loopVars>>

(* a.running.CompareAndSwap(false, true) *)
Start(c) ==
    /\ Goto(c, "idle", IF running THEN "refused" ELSE "register")
    /\ running' = TRUE
    /\ UNCHANGED <<method, regVars, ctxDone, machines, ready, loopVars>>

(* initSession: retrier.Do with RegisterAgent. A call that fails may have   *)
(* been processed by the server.                                            *)
RegisterMachine(c) ==
    /\ at[c] = "register"
    /\ Register!Do
    /\ machines' \in IF regPc # "call" THEN {machines}
                     ELSE IF result' = "nil" THEN {machines + 1} ELSE {machines, machines + 1}
    /\ UNCHANGED <<running, method, at, ready, loopVars>>

(* On an error the method returns it; running stays TRUE. *)
InitFails(c) ==
    /\ regPc = "over" /\ result # "nil"
    /\ Goto(c, "register", "returned")
    /\ UNCHANGED <<running, method, regVars, ctxDone, machines, ready, loopVars>>

SyncsMetadata(c) == method[c] = "Run" \/ (method[c] = "Dispatch" /\ SyncDispatcher)

(* The session's fields are set and the pool is started. *)
InitReady(c) ==
    /\ regPc = "over" /\ result = "nil"
    /\ Goto(c, "register", IF SyncsMetadata(c) THEN "sync" ELSE "serve")
    /\ ready' = TRUE
    /\ UNCHANGED <<running, method, regVars, ctxDone, machines, loopVars>>

(* syncScannerMetadata: a failure is only logged. *)
SyncMetadata(c) ==
    /\ Goto(c, "sync", "serve")
    /\ UNCHANGED <<running, method, regVars, ctxDone, machines, ready, loopVars>>

Serving(c, m) == at[c] = "serve" /\ method[c] = m

(* Run: see WorkerAgent. It returns after the signal. *)
RunServes(c) ==
    /\ Serving(c, "Run")
    /\ ctxDone
    /\ Goto(c, "serve", "returned")
    /\ UNCHANGED <<running, method, regVars, ctxDone, machines, ready, loopVars>>

-----------------------------------------------------------------------------
(* The answer to a poll: a job that waits (and is lost when the poll fails),*)
(* or none. Under a cancelled ctx the poll is not sent.                     *)
Hands(j) == ~ctxDone /\ j \in waiting /\ waiting' = waiting \ {j}

PollLost == UNCHANGED waiting \/ \E j \in Jobs : Hands(j)

(* The agent is told of j, which is then in its hand. *)
Receive(j) == polled' = j /\ received' = Append(received, j)

(* The job in the hand is executed or handled. *)
Settle(ok) == handled' = Append(handled, [job |-> polled, ok |-> ok]) /\ polled' = NoJob

SessionUnchanged == UNCHANGED <<running, method, at, regVars, ctxDone, machines, ready>>

(* The server puts a job it has handed out back into its queue: it missed a *)
(* report or the heartbeats, or somebody asked it to.                       *)
Requeue(j) ==
    /\ j \notin waiting /\ requeues < MaxRequeues
    /\ waiting' = waiting \cup {j} /\ requeues' = requeues + 1
    /\ SessionUnchanged
    /\ UNCHANGED <<loop, polled, received, handled, waitVars, hb>>

(* runOnce: one poll, unless the caller named a job, then executeJob. *)
PullJob(c) ==
    /\ Serving(c, "RunOnce")
    /\ polled = NoJob
    /\ \/ \E j \in Jobs : Hands(j) /\ Receive(j) /\ UNCHANGED at
       \/ \E j \in Jobs : Receive(j) /\ UNCHANGED <<waiting, at>>
       \/ PollLost /\ Goto(c, "serve", "returned") /\ UNCHANGED <<polled, received>>
    /\ UNCHANGED <<running, method, regVars, ctxDone, machines, ready,
                   loop, requeues, handled, waitVars, hb>>

ExecuteJob(c) ==
    /\ Serving(c, "RunOnce")
    /\ polled # NoJob
    /\ \E ok \in BOOLEAN : Settle(ok)
    /\ Goto(c, "serve", "returned")
    /\ UNCHANGED <<running, method, regVars, ctxDone, machines, ready,
                   loop, waiting, requeues, received, waitVars, hb>>

-----------------------------------------------------------------------------
(* runDispatcher *)
LoopGoto(from, to) == loop = from /\ loop' = to

(* cancelDrain *)
CancelDrain == hb' = IF hb = "beating" THEN "ending" ELSE hb

DispatchStart(c) ==
    /\ Serving(c, "Dispatch")
    /\ LoopGoto("off", "check")
    /\ hb' = "beating"
    /\ SessionUnchanged
    /\ UNCHANGED <<jobVars, waitVars>>

DispatchCheck ==
    /\ \/ ctxDone /\ LoopGoto("check", "ended") /\ CancelDrain
       \/ ~ctxDone /\ LoopGoto("check", "ask") /\ UNCHANGED hb
    /\ SessionUnchanged
    /\ UNCHANGED <<jobVars, waitVars>>

DispatchJobKeeping(j) ==    \* mutant: the backoff is not reset by an answer
    /\ LoopGoto("ask", "handle")
    /\ Hands(j) /\ Receive(j)
    /\ failures' = 0
    /\ SessionUnchanged
    /\ UNCHANGED <<requeues, handled, backoff, pause, hb>>

DispatchJob(j) ==
    /\ LoopGoto("ask", "handle")
    /\ Hands(j) /\ Receive(j)
    /\ backoff' = 1 /\ failures' = 0
    /\ SessionUnchanged
    /\ UNCHANGED <<requeues, handled, pause, hb>>

DispatchEmpty ==
    /\ ~ctxDone
    /\ LoopGoto("ask", IF ClientSleep > 0 THEN "sleep" ELSE "check")
    /\ backoff' = 1 /\ failures' = 0
    /\ pause' = ClientSleep
    /\ SessionUnchanged
    /\ UNCHANGED <<jobVars, hb>>

DispatchFailsUncapped ==    \* mutant: minDuration is forgotten
    /\ LoopGoto("ask", "sleep")
    /\ PollLost
    /\ pause' = backoff
    /\ backoff' = 2 * backoff
    /\ failures' = IF failures < MaxFailures THEN failures + 1 ELSE failures
    /\ SessionUnchanged
    /\ UNCHANGED <<polled, requeues, received, handled, hb>>

(* sleepOrCancel(backoff), which is doubled up to its cap. ErrClusterRevoked*)
(* is compared with, but nothing in the SDK returns it.                     *)
DispatchFails ==
    /\ LoopGoto("ask", "sleep")
    /\ PollLost
    /\ pause' = backoff
    /\ backoff' = IF 2 * backoff < CapOfBackoff THEN 2 * backoff ELSE CapOfBackoff
    /\ failures' = IF failures < MaxFailures THEN failures + 1 ELSE failures
    /\ SessionUnchanged
    /\ UNCHANGED <<polled, requeues, received, handled, hb>>

HandleAgain ==              \* mutant: a handler that failed is called once more
    /\ LoopGoto("handle", "check")
    /\ \E again \in {<<>>, <<[job |-> polled, ok |-> FALSE]>>}, ok \in BOOLEAN :
           handled' = handled \o again \o <<[job |-> polled, ok |-> ok]>>
    /\ polled' = NoJob
    /\ SessionUnchanged
    /\ UNCHANGED <<waiting, requeues, received, waitVars, hb>>

(* The handler is called synchronously; its error is only logged. *)
Handle ==
    /\ LoopGoto("handle", "check")
    /\ \E ok \in BOOLEAN : Settle(ok)
    /\ SessionUnchanged
    /\ UNCHANGED <<waiting, requeues, received, waitVars, hb>>

DispatchWake ==
    /\ \/ LoopGoto("sleep", "check")
       \/ ctxDone /\ LoopGoto("sleep", "ended")
    /\ SessionUnchanged
    /\ UNCHANGED <<jobVars, waitVars, hb>>

DispatchJoins(c) ==         \* mutant: Dispatch waits for the heartbeats, then ends them
    /\ Serving(c, "Dispatch")
    /\ loop = "ended" /\ hb = "exited"
    /\ Goto(c, "serve", "returned")
    /\ UNCHANGED <<running, method, regVars, ctxDone, machines, ready, loopVars>>

(* Dispatch returns; the deferred cancelDrain ends the heartbeats. *)
DispatchReturn(c) ==
    /\ Serving(c, "Dispatch")
    /\ loop = "ended"
    /\ Goto(c, "serve", "returned")
    /\ CancelDrain
    /\ UNCHANGED <<running, method, regVars, ctxDone, machines, ready, loop, jobVars, waitVars>>

HeartbeatExit ==
    /\ hb = "ending" /\ hb' = "exited"
    /\ SessionUnchanged
    /\ UNCHANGED <<loop, jobVars, waitVars>>

CancelContext ==
    /\ Register!CancelContext
    /\ UNCHANGED <<running, method, at, machines, ready, loopVars>>

Caller(c) ==
    \/ RegisterMachine(c) \/ InitFails(c) \/ InitReady(c) \/ SyncMetadata(c) \/ RunServes(c)
    \/ PullJob(c) \/ ExecuteJob(c) \/ DispatchStart(c) \/ DispatchReturn(c)

Dispatcher == \/ DispatchCheck \/ DispatchEmpty \/ DispatchFails \/ Handle \/ DispatchWake
              \/ \E j \in Jobs : DispatchJob(j)

Next == \/ \E c \in Callers : Start(c) \/ Caller(c)
        \/ Dispatcher \/ HeartbeatExit \/ CancelContext \/ \E j \in Jobs : Requeue(j)

Spec == Init /\ [][Next]_vars

(* Goroutines run, calls are answered, handlers and scans return. Nobody    *)
(* need call a method, cancel the context or put a job back.                *)
Fairness == /\ \A c \in Callers : WF_vars(Caller(c))
            /\ WF_vars(Dispatcher) /\ WF_vars(HeartbeatExit)

FairSpec == Spec /\ Fairness

-----------------------------------------------------------------------------
(* "Agents are one-shot": however the calls interleave, one of them at most *)
(* gets a session and the server sees one machine at most. The second holds *)
(* because a registration that failed is not repeated: the retrier gives up *)
(* on every wrapped error (TransientIsRetried of Retrier). With retries a   *)
(* registration whose answer was lost would make a second machine.          *)
OneShot ==
    /\ machines <= 1
    /\ \A c, d \in Callers :
           at[c] \notin {"idle", "refused"} /\ at[d] \notin {"idle", "refused"} => c = d

(* The agent hears of no job before the session is there, and then handles  *)
(* what it is told in that order, each delivery once: a job the server hands*)
(* out again is handled again, and one whose handler failed only if it is.  *)
(* The agent itself neither repeats nor reports it, where dispatch.go:15-16 *)
(* says that it is reported as failed so that the server can re-queue it.   *)
HandledOnce ==
    /\ received # <<>> => ready /\ machines = 1
    /\ Len(received) = Len(handled) + (IF polled = NoJob THEN 0 ELSE 1)
    /\ \A i \in 1..Len(handled) : handled[i].job = received[i]
    /\ polled # NoJob => polled = received[Len(received)]

(* 2 to the power of n, up to the cap. *)
TwoTo[n \in Nat] == IF n = 0 THEN 1 ELSE 2 * TwoTo[n - 1]
Capped(n) == IF TwoTo[n] < CapOfBackoff THEN TwoTo[n] ELSE CapOfBackoff

(* The pause after the n-th failure in a row is 2^(n-1) seconds, 30 at the  *)
(* most, and an answer starts the series anew.                              *)
BackoffFollowsFailures ==
    (loop = "sleep" /\ failures > 0) => pause = Capped(failures - 1)

(* When the context is cancelled every method that was called returns.      *)
MethodsReturn ==
    \A c \in Callers :
        (ctxDone /\ at[c] # "idle") ~> at[c] \in {"refused", "returned"}
=============================================================================
