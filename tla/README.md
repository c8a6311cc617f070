# Rediver SDK: models, checks and proofs

This directory holds TLA+ models of the Rediver scanner SDK for Go (the program in `src/`), the TLC configurations
that check them on small instances, and TLAPS proofs, for every value of the constants, of every safety property
that the passing runs check. Everything is translated from the code; line references are to files under `src/`.

## 1. The system

An `Agent` runs a `Scanner` on jobs it gets from the Rediver server by Connect RPCs. It has three
lifecycle methods, one of which may be called once: `Run` (worker mode: poll, execute in a pool, drain
on a signal), `RunOnce` (one job) and `Dispatch` (hand polled jobs to a handler).

| Component | State | Operations | Talks to |
|---|---|---|---|
| worker pool, `internal/worker/pool.go` | `taskQueue`, `sem`, `active`, `wg`, `running`, `ctx` | `Submit`, `dispatch`, per-job goroutine, `Shutdown`, `ShutdownNow`, `SetSize` | jobs' callbacks |
| agent, worker mode, `agent.go`, `agent_run.go`, `agent_poll.go` | `drainCtx`, `cancelDrain`, the loop's backoff | `run`, `pollLoop`, the drainer goroutine, `Stop` | pool, server |
| heartbeats, `agent_heartbeat.go` | none | agent loop, job loop (60 s each) | server |
| job execution, `agent_execute.go` | per job: token, heartbeat, directory | `executeJob`, reports | server, scanner, repository |
| repository, `job_repo.go`, `utils/git.go` | `repoDir`, `clonedRepoDir` | clone or download and extract, deepen, resolve SHAs, clean up | git, presigned URL |
| commands, `utils/exec.go` | a process, two pipes, two goroutines | `Exec`, `streamOutput` | git, callbacks |
| session and transport, `agent_token.go`, `internal/transport`, `internal/auth` | runner ID, tokens | `initSession`, one method per RPC, `RoundTrip` | server |
| retrier, `retry.go` | the attempt | `Do`, `BackoffDuration`, `IsRetryableError` | any operation |
| dispatcher and one-shot, `agent_dispatch.go`, `agent_run_once.go` | backoff | `runDispatcher`, `runOnce` | server, handler |
| results and logs, `agent_import.go`, `job_logger.go` | none | batches of results, one goroutine per log record | server |
| options and parameters, `option.go`, `param.go`, `job_factory.go`, `job.go` | configuration, `params` of a job | options, parameter builders, `Param` and its typed accessors | handler |

How they interact. `Run` builds a session and starts two goroutines, the heartbeat loop under
`drainCtx` and the poll loop under the caller's `ctx`. The poll loop submits each polled job to the
pool; the pool's single dispatch goroutine hands jobs, under a semaphore, to one goroutine each, which
calls `executeJob` with `drainCtx`. When `ctx` is cancelled a drainer goroutine calls
`pool.Shutdown`, and `run` waits for it, with or without a timeout. On the timeout it cancels
`drainCtx` and calls `pool.ShutdownNow`. `Stop` cancels `drainCtx` from outside. A job mints a token,
fetches its detail, prepares a repository, starts its own heartbeat, scans, stops the heartbeat and
reports. A repository is filled by git commands, each a process with two pipes that two goroutines read, or
from an artifact that is downloaded, decrypted and unpacked. The handler reads the job's parameters through
accessors that convert them.

What is hard in it, and what correctness means there:

- the pool's lock-free hand-over: submitters, dispatcher, workers and two kinds of shutdown share three
  counters, a channel and a flag. It must keep its size, lose and repeat nothing, and drain;
- the drain: heartbeats and jobs outlive the poll loop, a timeout races the end of the drain, a poll
  answer races the closing of the queue;
- partial failure in a job: any RPC may fail before or after the server saw it, the context may be
  cancelled anywhere, the handler may panic. Reports must be true, nothing may be left behind, and
  the server must get back what was never reported;
- retries under a context that may be done at any point, and pauses that grow up to a cap;
- the repository: a shallow clone of an origin that others push to, refs fetched one by one, a bounded
  deepening, SHAs that the server named or that the clone must tell. What is scanned must be what the
  findings name;
- a git command: process, readers and `Wait` must end together, with all output delivered, while the context
  may kill the process and git has processes of its own;
- an archive: torn, encrypted against the announcement, with entries that contradict each other. A handler must
  see all of it or not run;
- jobs side by side on one client: heartbeats, imports and fire-and-forget log goroutines, each under the
  token of its own job;
- the one-shot guard, the only thing between two lifecycle calls on one `Agent`.

The full list, each at its line and with the properties that cover it, is under `hazards` in
`PROJECT.json`.

## 2. Modules

| Module | Models | Remarks |
|---|---|---|
| `WorkerPool` | `pool.go` | one action per atomic, WaitGroup or channel operation |
| `PoolContract` | what the pool promises | the abstract specification that `WorkerPool` implements |
| `WorkerPoolProofs` | | inductive invariant, six safety theorems, the refinement theorem |
| `WorkerAgent` | `run`, `pollLoop`, `heartbeatLoop`, `Stop` | `Pool == INSTANCE WorkerPool`: the pool's steps are the pool module's |
| `WorkerAgentProofs` | | the agent implements the pool's specification, and five safety theorems of its own |
| `JobExecution`, `MCJobExecution` | `executeJob`, `jobHeartbeatLoop`, the directory of `job_repo.go` | server as external party; composes the next two (`Git ==`, `Archive == INSTANCE`) |
| `JobExecutionProofs` | | inductive invariant of all three modules together, six safety theorems |
| `ExecCommand` | `utils/exec.go` | git's process and its helper as external parties; no `Next` of its own |
| `ArchiveExtract` | `prepareArchive`, decryption, `extractTarGz` | no `Next` of its own |
| `Retrier`, `MCRetrier` | `retry.go` | |
| `RetrierProofs` | | inductive invariant, three safety theorems |
| `NatRecursion` | | induction and recursion over the naturals, for the proof modules |
| `Session` | the lifecycle methods, `initSession`, `runOnce`, `runDispatcher` | `Register == INSTANCE Retrier` |
| `SessionProofs` | | the registration implements the retrier's specification; inductive invariant, four safety theorems |
| `RepoCheckout`, `MCRepoCheckout` | refspecs, `GitCheckout`, deepening, SHA resolution, `ChangedFiles` | git's commands and the origin as external parties |
| `RepoCheckoutProofs` | | inductive invariant, four safety theorems |
| `JobPlane`, `MCJobPlane` | `importResult`, `jobLogHandler`, `RoundTrip`, the RPCs of jobs side by side, `GetArtifactDownload` included | server as external party |
| `JobPlaneProofs` | | inductive invariant, three safety theorems |
| `JobParams`, `MCJobParams` | `newJob`, `resolveParams`, `Job.Param`, the accessors and conversions of `param.go` | |

### WorkerPool

`sub[j]` follows the call `Submit(j)` and `stage[j]` the job inside the pool; `sem`, `active` and `wg`
are the three counters as the code keeps them, not as derived quantities, so a step that updates one
and not yet another is a state of its own:

| Code | Action |
|---|---|
| `running.Load`, `wg.Add`, the send, `OnEnqueue` (64-72) | `SubmitCheck`, `SubmitAdd`, `SubmitSend` or `SubmitPanic`, `SubmitReturn` |
| `range taskQueue`, `sem <-`, `active.Add` and `go` (128-133) | `DispatchReceive`, `DispatchAcquire`, `DispatchSpawn` |
| `Execute`, the callback, the three deferred steps (133-153) | `WorkerFinish`, `WorkerReport`, `WorkerRelease`, `WorkerUncount`, `WorkerDone` |
| `CompareAndSwap`, `cancel`, `close`, `Wait`, `cancel` (108-125) | `StopCAS`, `StopCancelFirst`, `StopClose`, `StopWait`, `StopCancelLast` |

A send on a closed channel panics outside any recover and ends the process: `crashed` becomes TRUE and
`Next` is disabled. Each job is submitted at most once, as the agent does with the jobs it polls.
`OnError` may be called by the refusing `Submit`, by the worker, or by its recover; `reports` counts
all of them.

`PoolContract` knows neither goroutines nor counters: accepted jobs begin in the order of acceptance,
at most `Size` run at once, an open pool refuses nobody, a closed one accepts nobody, and a drained
pool has ended everything it accepted. Under the mapping a job is pending from its send until `go`,
begun until its callback, and the phase is read off `running`, `closed` and the winner's position.

### WorkerAgent

Adds to the pool's variables the caller's context, `drainCtx` (`unset` before `run` has stored it), the
position of `run`, of the poll loop, of the heartbeat loop and of a goroutine that calls `Stop`, and
what the agent has been given. The drainer is the pool's graceful stopper and `run` itself its forced
one, so the pool's theorems and its race between the two apply as they stand. The check of `ctx`, the
read of `ActiveWorkers`, the request and the answer are separate steps. Both forms of the wait
(`shutdownTimeout` zero or not) are explored in the same runs (`Timeouts`). No step depends on which job is which,
so the jobs are numbered in the order in which the agent hears of them (`IsNext`); one that was lost with the answer
to a poll has no number.

The queue holds twice `MaxConcurrency` jobs, and the loop polls only while fewer than `MaxConcurrency` are active.
A `Submit` that finds the queue full is therefore one that the dispatcher has fallen behind, not one that waits for a
scan: `SubmitAwaitsNoScan`, an invariant that is proved, says so, and `PollLoopExits` shows in an instance where
`Submit` does block that the loop gets past it.

### JobExecution

One job. Every RPC has three outcomes: answered, failed before the server processed it, failed after.
Under a cancelled context it is not sent. `server` is the server's view, `log` the terminal reports it
has received. The scan returns, fails, or panics; a panic unwinds through the deferred cleanup only, as
`cancelHB` is not deferred. `Reclaim` is the server's side of "Backend reclaims the job via heartbeat
timeout". The context of the job may be cancelled at any step.

Between `ReportStarted` and `StartHeartbeat` the repository is prepared. For a clone, `PrepareDir` makes the
directory, `RunCommand` and `AwaitCommand` are the calls of `Exec`, and `CheckoutFails` removes the directory on
the spot, as no cleanup is registered yet, while `CheckoutDone` leaves it to the deferred `Cleanup`. Errors of the
commands after the checkout are ignored (`Resolved`). Which commands are run is the business of `RepoCheckout`;
here they are at most `MaxCommands`, each of any script, since what matters here is when they end and what lives on.
`os.RemoveAll` may fail, on the spot (`job_repo.go:53`, where its error is dropped) as in `cleanupRepository`
(75-76, where it is logged): the directory is then "stuck" (`RemoveDir`).
For an archive, `RequestURL` and `ExtractArchive` do the same with the steps of `ArchiveExtract`.

### ExecCommand

| Code of `utils/exec.go` | Action |
|---|---|
| `CommandContext`, the pipes, `Start`, the two `go` (44-72), and their errors | `Start`, `StartFails` |
| `streamOutput` (89-99) | `Read`, `ReadEOF` |
| the two receives of `done`, `cmd.Wait` (75-84) | `StreamsDone`, `Wait` |
| what `os/exec` does when the context ends | `Kill` |
| git | `ChildWrite`, `ChildExit`, `HelperEnds` |

A script is what the command writes, line by line. A "long" line is one that exceeds the buffer of `bufio.Scanner`
(64 KiB): `Scan` returns FALSE, the goroutine ends as at the end of the stream, and nobody looks at `scanner.Err`.
Either stream may carry one, as one function reads both. The helper stands for the processes git starts
(`git-remote-https`, `index-pack`), which inherit stderr. The kill reaches git only, and `cmd.WaitDelay` is not set,
so a surviving helper keeps the stream open. Ended with its context cancelled, a command may be reported either way,
as the kill may come too late. `Written` is the set of the lines written to a stream, and `InOrder` says that a
callback got such a set in ascending order.

### ArchiveExtract

A path is the sequence of its names; `Clean` is `filepath.Clean("/" + name)`, which never leads above the root, so
that the prefix check after it never fails. `ExtractDir`, `ExtractFile` and `SkipEntry` are the cases of the loop: a
file truncates what an earlier entry wrote there, links and other types are passed over, a file in the way of a
directory, or the reverse, is an error. An artifact has as many entries as it has, of which the first `intact` can
be read. A tar stream that is cut at the end of an entry inside a gzip stream that is whole is not among them: the
reader cannot tell it from a shorter archive. `Opens` compares what the server says of the encryption with what the
bytes are. The body is read to its end before the first entry, so the context plays no part in the extraction.
`Contents` states without the loop what tree the first n entries describe, and `Whole` what all of them do.

### Retrier and Session

`Retrier` is the loop of `Do` with an error universe in which every cause occurs plain and wrapped,
since `IsRetryableError` only looks at the outermost error. The jitter is every value the
floating-point expression can truncate to. `Session` has any number of callers, each with any of the
three methods, on one Agent. Registration is the retrier with the errors `RegisterAgent` can return,
which are all wrapped; that the server sees one machine at most (`OneShot`) rests on this, and would not outlast a
repair of finding 3. The server has a queue, `waiting`, and may put back into it a job that it has handed out, at any
moment (`Requeue`, at most `MaxRequeues` times). `received` is what the agent was told, job by job, and `handled` what
it did with it: the same job may be in both several times, once for each delivery.

### RepoCheckout

The origin has a base branch and a topic branch, each a line of numbered commits; `Push` adds to either
while the job runs. The clone is the set of commits fetched by name and how many generations came with
them, so "git knows the parent" (`ParentKnown`), "git knows the way" (`Connected`) and "git has the commit"
(`Present`) differ as they do in a shallow clone. `Common` are the common ancestors the clone can tell of, and
`MergeBase` the best of these. The two branches are lines without merges, and pushes are fast-forward: a history that is
rewritten while a job runs is not modelled. The refspecs and the checkout ref are those of
`buildRefSpecs` for every combination of event, provider and fields set. Every git command may fail; the
errors of the deepening and of the resolution are ignored, as in the code.

### JobParams

A Go value is a record with its dynamic type, as the conversions switch on that type. A text is the sequence of
its comma-separated parts, and a part is a number, a truth value or a word, which is what `strconv` and
`strings.Split` tell apart. `Sent` are the values of a protobuf `Struct`; `GoValue` is the Go value that each of
them stands for.

### JobPlane

`jobToken[j]` is what `jobCtx` carries: nothing, until `CreateJobToken` has brought the token that the server minted.
`Header` is the choice of `RoundTrip`: the context's token as a Bearer, without one the agent's own as X-Token, and
nothing if it has none. The server knows a token by the job it was minted for, refuses a job's request without a
Bearer and one whose token it has invalidated, and books the others on whom the credential names. `reached` are the
requests it has got, with who made them, whom their header named, and whether they were booked on a job whose terminal
report it had. A request may be lost before the server, its answer after, the answer may lack the token; a cancelled
context sends nothing; the terminal report takes the token away while heartbeats and log goroutines may still be about
to call. The jobs are distinct executions. A result is the numbers of its items; `Requests` is what `importResult`
sends for it. The handler is taken to emit from one goroutine.

## 3. Runs

| Run | Question | Bounds and why they suffice |
|---|---|---|
| `WorkerPool` | can any interleaving exceed the size, under-report, double-report, cancel work gracefully, end a shutdown early, or leave the contract? Do shutdowns and queued jobs get through? | three jobs, two slots, a queue of two, one caller of each shutdown: the queue fills when the dispatcher lags (so the order of two queued jobs matters and the third submitter blocks), the slots fill while a job waits in the dispatcher's hand, and the two shutdowns race. No symmetry, as the refinement and the liveness properties are temporal |
| `WorkerAgent` | what may the drain, the timeout and `Stop` never do, and does everything end after the signal? | three jobs, one slot, a queue of two, with and without a timeout: while the dispatcher lags the queue is full and the third `Submit` blocks, and while one job executes another waits in the dispatcher's hand or the queue and a third is polled. The safety part is proved for any number |
| `WorkerAgentCrash` | does the process survive a shutdown? (violated) | one job |
| `JobExecution` | are reports true, is the removal of the directory always tried and nothing left in it that runs, is all output of git delivered, is an archive seen whole, does everything end, is the job reclaimed? | one job, any target, every failure point. Three git commands stand for the four and more of a real checkout, as a command leaves nothing to the next but its result: one that succeeds, a later one that fails, one after an ignored error. Scripts with both streams and with a long line on either, last or followed by another; a pipe of one line, so that the child blocks as soon as nobody reads. Artifacts of up to three entries: rewritten files, files where directories are needed, links, paths with "..", torn ones, and every combination of sealing, algorithm and key |
| `JobExecutionPanic` | is the job of a panicking handler reclaimed? (violated) | one job without a repository |
| `Retrier` | is the result explained, do the pauses follow the policy, does `Do` end? | four attempts, that is three pauses: one as long as the initial backoff, one that grows by the multiplier, one at the cap (`MaxBackoff` is 10 where the growth asks for 16) |
| `RetrierGivesUp` | is a transient failure of an SDK call retried? (violated) | five attempts |
| `Session` | does the guard hold, is each delivery of a job handled once and in turn, does the backoff follow the failures, does everything return? | two callers, two jobs, one of which the server may put back once (`MaxRequeues`), so that it comes a second time after it failed, while it is handled, or after another; failures are counted up to six (`MaxFailures`, which must be more than five), where the cap of 30 s is reached; the backoff is proved for any number of them |
| `RepoCheckout` | is the commit that findings name the one scanned, does a diff against the resolved baseline show the changes of the request and no others, does deepening reach? | every combination of the fields the code reads (a tag only for a push, provider and number only for a merge request); topic branches of 1, 180 and 181 commits (180 is what the deepening adds up to); one push at any moment, so that a branch differs between any two commands; two commits before the fork, so that an older common ancestor than the fork exists |
| `RepoCheckoutMergeRequest` | is a merge request scanned at its head? (violated) | GitLab, number and commit given |
| `JobPlane` | does each request name its maker, is one that follows the end of its job refused, and is a completed job complete? | two jobs, the least that can interfere; one result each (any number in the proofs), with a full and an incomplete batch or with findings only; one log goroutine each at a time |
| `JobParams` | is a parameter that the server sent read as its value? (violated) | two parameters, one value of each kind of a `Struct` |

Every property of a passing run has a mutant: the definition named under `mutants` is replaced by
a version with a plausible bug, which stands next to it in the module, and TLC must find the property
violated. This shows that the property depends on the code and that the bounds reach the case.

Deadlock checking is off everywhere, because every instance really comes to rest: all calls have
returned or the process has died.

### Fairness, and why the code justifies it

Each goroutine that has started keeps running (weak fairness per goroutine: the Go scheduler). A blocked channel
operation is not enabled, so weak fairness never forces it. In `WorkerPool`, `Execute` returns. In `WorkerAgent` it
must return only when its context is cancelled or when `run` waits without a timeout, the documented "0 = wait
forever"; before that a scan may go on for ever. Polls are answered in the end because a long poll has a deadline
and the HTTP client a timeout (`option.go:74`), which bounds every RPC. No fairness is assumed for the signal, for
`Stop`, for calls of `Submit` or for cancelling a context. The server's `Reclaim` is fair because the code relies on
it. In `JobExecution` both readers, git and its kill are fair: what a command writes is its script. Two things
depend on a remote side for which the code sets no limit, and are not fair: the helper by which git talks to its
server, and the download of an archive, which goes through `http.DefaultClient` (`job_repo.go:141`). Only a
cancelled context is sure to end the second; the first need not end even then. `NothingOutlivesJob` therefore names
the ways in which a job may stay for ever: `Git!Hung` (git was killed and its helper holds stderr, or a long line
ended the reader of a stream, git is blocked on the full pipe of that stream and nobody cancels the context) and
`Stalled` (a remote side that does not answer, under a context that nobody cancels). Each occurs in the model;
without any one of them the property is violated.

### Findings

1. `Submit` loads `running` and sends later. A `Shutdown` in between closes the channel and the send
   panics, although the comment promises an error (`pool.go:58-59`). In the agent one poll answer around
   the signal is enough (`WorkerAgentCrash`).
2. A panicking handler leaves the job's heartbeat running and the job unreported (`JobExecutionPanic`).
3. The retrier retries nothing in practice, since every error it is given is wrapped (`RetrierGivesUp`).
4. `GitFetch` runs one `git fetch` per ref, so `FETCH_HEAD` names the last one, which is the base branch. A GitLab
   or Bitbucket merge request with a base branch is scanned at the tip of that branch, and `ChangedFiles` is
   empty (`RepoCheckoutMergeRequest`). `ScansNamedCommit` says of these requests that HEAD is on the base branch, and
   of the same requests without a base branch that HEAD is the request as it is when it is fetched; of every other
   repository that HEAD is the commit the findings name.
5. `structValueToInterface` returns the `*structpb.Value` it is given. No conversion of `param.go` knows that type,
   so every accessor returns its fallback for a parameter the server sent, while `IsSet` says TRUE (`JobParams`).
   The tests build parameters from Go values and do not see it.

Remarks, without a run of their own:

- `ShutdownNow` after `Shutdown`, the only order the agent uses, does nothing, against `pool.go:117`; `run` ends
  none the less, since it cancels `drainCtx` first, and what is left runs under a cancelled context
  (`ReturnLeavesNoWork`).
- With jitter a pause of the retrier exceeds `MaxBackoff`, "the maximum wait time between retries" (`retry.go:21`),
  by up to a quarter, as the jitter is added after the cap (117): in the run `Retrier` a pause at the cap of 10 may
  last 12. `PausesFollowPolicy` states the bound that holds; the one of the comment holds only without jitter.
- `dispatch.go:15-16` promises that a job whose handler fails is reported as failed, so that the server can put it
  back. `agent_dispatch.go` only logs the error; `HandledOnce` says that the agent does nothing more about such a
  job unless it is told of it again.
- `job_resolve.go:20` looks for the merge base of a merge request if the server named no base commit, but then
  nothing was deepened and the clone connects no two commits: `BaselineShowsOwnChanges` says that none is found
  unless HEAD is the base branch itself. `ChangedFiles` then compares with the tip of the base branch, and shows
  what others have changed there.
- A merge request of GitLab or Bitbucket without a base branch that somebody pushes to is scanned as it is by then,
  and its findings are filed under the commit the server named: `importResult` is given only a commit that was
  resolved (`agent_execute.go:92-97`). `ScansNamedCommit` names this case.
- The deepening ends after 180 generations where the comments say 200 and 250 (`utils/git.go:91` and `108`).
- The URL of an artifact is requested with the job's Bearer (`OwnCredentials`), while `agent_execute.go:39-40` says
  the call falls back to X-Token.
- A line over 64 KiB is lost without an error, and all that follows it. If it ended the reader of stderr and git is
  killed, `Exec` does not wait for git's helper, and the directory is removed while the helper may still write into
  it (`DirectoryIsRemoved` names this case).
- A tar stream ends before the checksum of gzip is read, so a flipped bit in an unencrypted archive passes.
- The signature of `utils.Exec` at `README.md:448` is not the one in the code.

## 4. Proofs

Every safety property of a passing run is a theorem: `Spec => []P` for an invariant, the like for an action property
and for the pool's refinement. The bounds named in section 3 are constants here, and arbitrary. Each component has
one inductive invariant, a conjunction of named parts, proved first; the properties follow from it.

### The pool

TLAPS proves, for every finite set of jobs, every disjoint sets of callers of the two shutdowns and
every size and capacity passed to `NewPool`:

- `PoolInvariant`: `Spec => []PoolInv`, the inductive invariant;
- `PoolTypeCorrect`, `PoolBounded`, `PoolActiveCovers`, `PoolShutdownDrains`, `PoolReportedOnce`,
  `PoolGracefulNeverCancels`: the safety properties of `WorkerPool.cfg`;
- `PoolImplementsContract`: `Spec => ImplementsContract`.

Assumptions: `Jobs` is finite, `Graceful` and `Forced` are disjoint, the two arguments are integers.
TLC evaluates them in every run of the module.

The argument. None of the properties is inductive. That at most `PoolSize` jobs execute follows from what
the tokens in `sem` stand for, and that a shutdown finds the pool empty from what `wg` counts. `PoolInv`
therefore says

- `CountersExact`: each counter is the cardinality of the set of jobs in certain stages: `sem` from the
  acquire to the release, `active` from `go` to its decrement, `wg` from `Add` to `Done`;
- `OneWinner`, `CloseInv`, `CancelInv`: one caller wins the CAS, the queue is closed exactly when it has
  passed its close, and `ctx` is cancelled only by it, late for a graceful one;
- `SentInv`, `ReportsInv`, `QueueInv`: where a submitted job is, what it has been told, that the channel
  holds each queued job once and that the dispatcher holds at most one.

`CountMove` (the cardinality of `{x : P(x)}` when one element moves) and `StageMove` carry the arithmetic;
then each conjunct has a lemma with one case per action. `ShutdownDrains` is preserved because a
submitter past its check either still counts in `wg` or can only panic once the queue is closed. The
refinement has one lemma per action: the acquire, the three deferred steps and the callback-free steps of
a shutdown stutter, the others map to one contract step each. `DispatchSpawn` needs `CountersExact` for
the size bound, `StopWait` needs `ShutdownDrains`.

### The agent

`WorkerAgentProofs` takes the pool's proofs as an instance, with the drainer as the one graceful stopper, `run` as
the one forced one, `MaxConcurrency` slots and a queue of twice as many. For every finite set of jobs and every
`MaxConcurrency` in the naturals above 0:

- `AgentDrivesPool`: `Spec` implies the pool's `Spec`. Every step of the agent is a step of the pool or leaves
  the pool's variables alone. With it all theorems about the pool hold in the agent;
- `AgentInvariant`: the pool's invariant and the agent's own, in every reachable state;
- `AgentReturnsClean`, `AgentKeepsBeating`, `AgentStopMissesNothing`, `AgentTypeCorrect`: `ReturnLeavesNoWork`,
  `DrainKeepsBeating`, `StopMissesNothing`, `TypeOK`;
- `AgentSubmitAwaitsNoScan`: `SubmitAwaitsNoScan`, the safety part of `PollLoopExits`.

`AgentInv` says what ties the two together: before `run` has started nothing is polled or submitted
(`BeforeStart`), until `run` is forced only `Stop` cancels `drainCtx` (`BeforeForce`), `run` calls `ShutdownNow`
only after the timeout and passes its wait only when one of the two shutdowns has returned (`AfterWait`), a drainer
that lost the compare-and-swap lost it to `run` (`LoserHasWinner`), and a job that was submitted or is in the poll
loop's hand was given to the agent (`HeldIsGiven`). `ReturnLeavesNoWork` is not inductive: that an
unforced return finds the pool empty is the pool's `ShutdownDrains`, carried through `AfterWait`.

`SubmitAwaitsNoScan` follows from `RoomLeft`. The load (jobs queued, in the dispatcher's hand, or counted in
`active`) is at most 3 * `MaxConcurrency` while the loop polls or submits: it read fewer than `MaxConcurrency` in
`active`, the queue and the hand hold at most 2 * `MaxConcurrency` + 1 more, and from then on the load only shrinks
(`LoadNeverGrows`). A full queue with a job in the dispatcher's hand therefore leaves fewer than `MaxConcurrency` in
`active`, which counts whoever holds a slot.

### The retrier and the session

`RetrierProofs`, for every set of errors, any number of attempts, any backoff, multiplier and cap in the naturals
(`ErrorsAssumption` to `JitterAssumption`): `RetrierTypeCorrect`, `RetrierResultExplained`,
`RetrierPausesFollowPolicy`. The properties speak of the end of `Do`; `StillTrying` says what the loop knows on the
way: as many errors as attempts made, all of them retryable, a pause after each but, while it is due, the last. The
power in `BackoffDuration` is a recursive function, `Grown`, whose defining equation is proved from `NatRecursion`
(`GrownDef`), so the bound on the pauses covers a growth of any size; `PausesAsked` says which value of
`BackoffDuration` each pause is, `PauseEach` that there is one per retry, and `BackoffGrows` compares two in a row.

`SessionProofs`, for every set of callers and jobs and every retry policy the retrier takes:

- `SessionRunsTheRetrier`: in the registration's variables a session is a behaviour of the retrier's `Spec`,
  whichever goroutine registers. Hence `RegistrationExplained`;
- `SessionInvariant`, `SessionTypeCorrect`, `SessionOneShot`, `SessionHandledOnce`, `SessionBackoff`.

`OneShot` is `GuardHeld` (past the compare-and-swap means `running`, and there is one caller past it) with
`RegisteredOnce`: a second machine would need a second call after one that the server booked, and the registration
ends at its first error since every error is wrapped. `HandledOnce` needs `TurnsTaken`, which says whose turn it is
to touch the jobs, so that nobody else appends to `received` or `handled` between a delivery and its handling
(`HandledInTurn`). It assumes nothing of the server: a job may be delivered any number of times.
`BackoffInv` relates the variable `backoff` to the count of failures, by the doubling of `TwoTo`.

### Job execution

`JobExecutionProofs`, for every set of targets, scripts of any length over a pipe of any size, any number of
commands, and artifacts of any length whose entries lead anywhere: `JobTypeCorrect`, `JobReportsAreTrue`,
`JobHeartbeatBracketsScan`, `JobDirectoryIsRemoved`, `JobOutputComplete`, `JobScanSeesWholeArchive`. The assumptions
say of what kind the constants are, that a pipe holds a line, and that no more entries can be read than there are.

`JobInv` puts together three parts.

- `executeJob`: `ReportChosen` (no report before `Scan` is over, and each report belongs to one outcome), `BeatInv`,
  and `DirInv`, the life of the directory along `pc`. `CommandsInTurn` and `ArchiveInTurn` say when the two others run.
- `Exec`: `ReadersInv` says that a reader is done only when its stream is empty and its writers have gone, so that
  after `Wait` neither git nor, unless a long line ended the reader of stderr, a helper is left. This is what
  `DirectoryIsRemoved` needs, whose second half speaks of processes. `NothingLost` says that what a callback has
  got, followed by what is in the pipe, is what was written, in order; `OutputComplete` is its case of an empty
  pipe. `HeadMoves` and `NextLine` carry it along a read and a write.
- the archive: `UnpackedSoFar` says that the tree after n entries is `Contents(artifact, n)`. Its step is the work:
  the loop truncates, creates parents and fails on contradictions, `Contents` only says which entry counts for a path.
  That no name is ".." (`PlainTree`) is proved of `Clean`, by induction along the path.

### The repository

`RepoCheckoutProofs`, for every set of repositories, every fork point, topic branches of any length and any number of
pushes: `CheckoutTypeCorrect`, `CheckoutScansNamedCommit`, `CheckoutBaseline`, `CheckoutDeepens`. `OnlyCommits` gives
the commits their shape; `HeadIsFetched` says that HEAD is a fetched commit, the named one unless `FETCH_HEAD` is
checked out (a commit present in a clone of depth 1 is one fetched by name, `FetchedByName`), and that the clone has
kept its depth of 1 if the server named no base commit; `FetchedInOrder` says what `FETCH_HEAD` is while refs are still
to be fetched, so that at the checkout it is the ref fetched last; `DeepeningSoFar` counts
1, 11, 31, 81, 181 generations; `ResolvedFromClone` keeps what was resolved true of the clone, which later steps do
not change.

The facts about shallow history are `DeepEnough` (how deep a clone must be to connect two commits), `OneGeneration` (a
clone of depth 1 connects none) and `MergeBaseIsBest`: although the clone knows only part of the history, no commit
between what it takes for the merge base and HEAD is on the base branch. For if there were one, the clone would know
the way from HEAD to it (`ConnectedAbove`) and from the tip of the base branch to it, and it would be the better answer.

### Jobs side by side

`JobPlaneProofs`, for any set of jobs, any results (any number of items of each kind), any batch size above 0 and
any bounds: `PlaneTypeCorrect`, `PlaneOwnCredentials`, `PlaneImportsComplete`. `OwnCredentials` needs `TokensHeld`:
whoever may still make a call for a job, be it a log goroutine left over from before its end, holds a token, it is
the one minted for this job, and the server no longer accepts it once it has booked the terminal report. Without the
first half `RoundTrip` would fall back to X-Token and the request would name the agent. That the agent has a token
of its own is an assumption (`TokenAssumption`, which `NewAgent` enforces, `agent.go:59-62`). `ImportsOnTheWay` is
the invariant behind `ImportsComplete`: what the server has booked on a job, followed by what the job has yet to
send, holds nothing twice and nothing the handler did not emit, and is all of it as long as no import failed. A lost
answer keeps this, as the request is not sent again. That cutting into batches loses and repeats nothing
(`BatchesFacts`, `RequestsFacts`) is arithmetic on `BatchSize` and the rounded-up quotient; the rest is
concatenation (`FlattenCat`, `InjectiveCat`).

### Induction

The library's induction theorems take an operator, which no backend instantiates. Where a proof needs induction it is
stated with a set instead: a set of numbers that holds 0 and is closed under the successor holds every number
(`NatSetInduction`, from the well-foundedness of `<`), and likewise for sequences (`SeqSetInduction`).
`NatRecursionExists` gives a function to any first value and any steps, from which the defining equations of the
models' recursive functions and of the folds in the community modules follow. None of the modules with a theorem
reaches a `RECURSIVE` operator.

### Only model-checked

- The liveness properties `ShutdownReturns`, `QueuedJobsFinish`, `RunReturns`, `PollLoopExits`, `PolledJobsSettle`,
  `NothingOutlivesJob`, `UnreportedIsReclaimed`, `DoReturns` and `MethodsReturn`: they rest on fairness and so on
  ENABLED, which the prover does not handle.
- The five properties that the runs of the findings show violated, and `JobParams`, which has no other.


## 5. Not modelled

- `SetSize` of the pool: its package is internal and nothing in the SDK calls it, so there is no sequence of calls
  of the program in which to check it, and every proof about the pool would carry a step that never happens.
- `resolveParamsFromEnv`, the environment's side of parameters: nothing calls it.
- The parameter builders and their JSON schema (`param.go`), the accessors of `job.go`, `job_targets.go` and
  `job_repo_accessors.go` that copy a field, and the options of `option.go` that set one: no state, no order. The
  options that matter to a protocol are constants of the modules that use them (`Timeouts`, the pauses of
  `Retrier`, the sizes of the pool).
- `convert.go`, `result.go`, `severity.go`, `target_type.go`, `ptr.go`, `version.go`, `errors.go`,
  `utils/machine.go`, the scanner builder and the examples: data and plain conversions.
- The contents of RPCs, log lines and results, and changed bytes inside an archive. Time is the order of events;
  durations occur only where pauses are compared.
- A restart of the process: the SDK stores nothing, so that a restarted agent is a new one to every module here.

## 6. Plan

Every component that keeps state is modelled, and every safety property proved. What is left, in this order:

1. The safety core of the liveness properties, as invariants to prove: that a pool with work always has a goroutine
   that can take a step, that a job in `Exec` is either able to go on or in `Git!Hung`.
2. An abstract specification of one job as the server sees it, and the proof that `JobExecution` implements it.
3. That `executeJob` as `JobPlane` uses it, without directory and commands, is what `JobExecution` does with them.
