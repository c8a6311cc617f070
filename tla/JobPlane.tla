------------------------------ MODULE JobPlane ------------------------------
(***************************************************************************)
(* What jobs that run side by side on one agent send to the server, and    *)
(* under which credential: executeJob's RPCs, importResult                 *)
(* (agent_import.go), one goroutine per log record (job_logger.go), both   *)
(* heartbeats, and the header RoundTrip puts on each (transport/client.go).*)
(*                                                                         *)
(* The server is external: it mints a token for a job when asked to, books *)
(* a request on the job (or the agent) that the header names, refuses a    *)
(* job's request without a job token ("RequireJob server-side",            *)
(* agent_execute.go:20) and one with a token that it has already           *)
(* invalidated ("JobCompleted/JobFailed handlers delete the JTI",          *)
(* internal/auth/token.go:35-37). Any request or answer may be lost.       *)
(***************************************************************************)
EXTENDS Naturals, SequencesExt

CONSTANTS
    Jobs,       \* the jobs that execute at the same time
    Agent,      \* the agent itself
    AgentToken, \* the token it was created with
    Results,    \* the results a handler may emit (see Result)
    BatchSize,  \* agentMaxBatchSize
    MaxResults, \* bound: how many results a job emits
    MaxLogs     \* bound: how many log records of a job are under way

(* How many domains, services, web findings and SAST findings. *)
Result == [domains : Nat, services : Nat, web : Nat, sast : Nat]

ASSUME PrincipalsAssumption == Agent \notin Jobs
ASSUME TokenAssumption      == AgentToken # ""      \* NewAgent insists (agent.go:59-62)
ASSUME ResultsAssumption    == Results \subseteq Result
ASSUME BatchAssumption      == BatchSize \in Nat \ {0}
ASSUME BoundsAssumption     == MaxResults \in Nat /\ MaxLogs \in Nat

VARIABLES
    pc,         \* pc[j]: where executeJob is
    jobToken,   \* jobToken[j]: the job token jobCtx carries
    emitted,    \* emitted[j]: the results the handler has emitted
    todo,       \* todo[j]: the requests importResult has yet to make
    failed,     \* failed[j]: an import of j has been logged as failed
    logs,       \* logs[j]: j's log goroutines that have not made their call
    ctxDone,    \* drainCtx is cancelled
    minted,     \* server: whose token the n-th is that it has minted
    tokens,     \* server: the tokens it accepts
    received,   \* server: the imports booked on each job, in order
    ended,      \* server: the terminal report booked on each job
    reached     \* server: what requests have reached it (see Request)

work   == <<emitted, todo, failed, logs>>
client == <<pc, jobToken, work>>
server == <<minted, tokens, received, ended, reached>>
vars == <<client, ctxDone, server>>

Principals == Jobs \cup {Agent}
NoToken == 0    \* the empty token; the others are numbered as they are minted

(* Who made a request, whom its header names, and whether it was booked     *)
(* after the server had the terminal report of the job that made it.        *)
Request == [by : Principals, names : SUBSET Principals, late : BOOLEAN]

-----------------------------------------------------------------------------
(* importResult: what it sends for the i-th result of a job *)

Ceil(n) == (n + BatchSize - 1) \div BatchSize
Chunk(i, kind, k, n) ==
    [result |-> i, kind |-> kind,
     first |-> (k - 1) * BatchSize + 1, last |-> IF k * BatchSize < n THEN k * BatchSize ELSE n]

BatchesShort(i, kind, n) == \* mutant: the last, incomplete chunk is left out
    [k \in 1..(n \div BatchSize) |-> Chunk(i, kind, k, n)]

(* Items 1..n of a kind in chunks of at most BatchSize, in order. *)
Batches(i, kind, n) == [k \in 1..Ceil(n) |-> Chunk(i, kind, k, n)]

(* Findings go out in one request, however many there are. *)
Whole(i, kind, n) ==
    IF n = 0 THEN <<>> ELSE <<[result |-> i, kind |-> kind, first |-> 1, last |-> n]>>

Requests(i, res) ==
    Batches(i, "domains", res.domains) \o Batches(i, "services", res.services)
        \o Whole(i, "web", res.web) \o Whole(i, "sast", res.sast)

Batch == [result : Nat, kind : {"domains", "services", "web", "sast"}, first : Nat, last : Nat]

TypeOK ==
    /\ pc \in [Jobs -> {"mint", "detail", "start", "artifact", "scan", "completed", "failed",
                     "cleanup", "over"}]
    /\ emitted \in [Jobs -> Seq(Results)]
    /\ todo \in [Jobs -> Seq(Batch)] /\ \A j \in Jobs : todo[j] # <<>> => pc[j] = "scan"
    /\ failed \in [Jobs -> BOOLEAN]
    /\ logs \in [Jobs -> 0..MaxLogs]
    /\ ctxDone \in BOOLEAN
    /\ minted \in Seq(Jobs) /\ tokens \subseteq DOMAIN minted
    /\ jobToken \in [Jobs -> {NoToken} \cup DOMAIN minted]
    /\ received \in [Jobs -> Seq(Batch)]
    /\ ended \in [Jobs -> {"no", "completed", "failed"}]
    /\ reached \subseteq Request

Init ==
    /\ pc = [j \in Jobs |-> "mint"] /\ jobToken = [j \in Jobs |-> NoToken]
    /\ emitted = [j \in Jobs |-> <<>>] /\ todo = [j \in Jobs |-> <<>>]
    /\ failed = [j \in Jobs |-> FALSE]
    /\ logs = [j \in Jobs |-> 0]
    /\ ctxDone = FALSE
    /\ minted = <<>> /\ tokens = {}
    /\ received = [j \in Jobs |-> <<>>]
    /\ ended = [j \in Jobs |-> "no"]
    /\ reached = {}

-----------------------------------------------------------------------------
(* Credentials *)

(* RoundTrip: the job token of the request's context as a Bearer, else the  *)
(* agent's token as X-Token, else nothing.                                  *)
Header(jwt) == IF jwt # NoToken THEN [scheme |-> "Bearer", token |-> jwt]
               ELSE [scheme |-> IF AgentToken # "" THEN "X-Token" ELSE "none", token |-> NoToken]

Names(header) == CASE header.scheme = "Bearer"  -> {minted[header.token]}
                   [] header.scheme = "X-Token" -> {Agent}
                   [] OTHER                     -> {}

(* An RPC of the agent or of a job under a context that carries jwt: did    *)
(* the server process it, did the caller get the answer? It is not sent     *)
(* once the context is cancelled.                                           *)
Call(by, jwt, processed, answered) ==
    \E arrives \in BOOLEAN :
        LET header   == Header(jwt)
            accepted == IF header.scheme = "Bearer" THEN header.token \in tokens
                        ELSE header.scheme = "X-Token" /\ by = Agent
            late     == accepted /\ by \in Jobs /\ ended[by] # "no"
        IN /\ arrives => ~ctxDone
           /\ processed = (arrives /\ accepted)
           /\ answered => processed
           /\ reached' = reached \cup
                 IF arrives THEN {[by |-> by, names |-> Names(header), late |-> late]} ELSE {}

Goto(j, from, to) == pc[j] = from /\ pc' = [pc EXCEPT ![j] = to]

AsksForToken(j, how) ==
    \E processed, answered, empty \in BOOLEAN :
        /\ Call(Agent, NoToken, processed, answered)
        /\ minted' = IF processed /\ ~empty THEN Append(minted, j) ELSE minted
        /\ tokens' = tokens \cup (DOMAIN minted' \ DOMAIN minted)
        /\ how = IF ~answered THEN "error" ELSE IF empty THEN "empty" ELSE "token"
        /\ jobToken' = IF how = "token" THEN [jobToken EXCEPT ![j] = Len(minted')] ELSE jobToken
        /\ UNCHANGED <<work, ctxDone, received, ended>>

CreateJobTokenEmpty(j) ==   \* mutant: an answer without a token passes
    \E how \in {"error", "empty", "token"} :
        AsksForToken(j, how) /\ Goto(j, "mint", IF how # "error" THEN "detail" ELSE "over")

(* CreateJobToken, under the agent's context. Without an answer, or with    *)
(* one that has no token in it, the job is over. jobCtx carries the token.  *)
CreateJobToken(j) ==
    \E how \in {"error", "empty", "token"} :
        AsksForToken(j, how) /\ Goto(j, "mint", IF how = "token" THEN "detail" ELSE "over")

(* GetJobDetail: its failure ends the job with a JobFailed report. *)
GetJobDetail(j) ==
    \E processed, answered \in BOOLEAN :
        /\ Call(j, jobToken[j], processed, answered)
        /\ Goto(j, "detail", IF answered THEN "start" ELSE "failed")
        /\ UNCHANGED <<jobToken, work, ctxDone, minted, tokens, received, ended>>

(* JobStart, whose error is only logged. Then the job may have no           *)
(* repository, one that git prepares or fails to, or an artifact.           *)
JobStart(j) ==
    \E processed, answered \in BOOLEAN :
        /\ Call(j, jobToken[j], processed, answered)
        /\ \E next \in {"scan", "failed", "artifact"} : Goto(j, "start", next)
        /\ UNCHANGED <<jobToken, work, ctxDone, minted, tokens, received, ended>>

(* GetArtifactDownload, when the repository is prepared, is given jobCtx.   *)
(* That it fails, or the extraction after it, ends in a JobFailed report.   *)
GetArtifactDownload(j) ==
    \E processed, answered \in BOOLEAN :
        /\ Call(j, jobToken[j], processed, answered)
        /\ \/ answered /\ Goto(j, "artifact", "scan")
           \/ Goto(j, "artifact", "failed")
        /\ UNCHANGED <<jobToken, work, ctxDone, minted, tokens, received, ended>>

(* The handler emits a result; emit returns when the imports are done. *)
Emit(j, res) ==
    /\ pc[j] = "scan" /\ todo[j] = <<>>
    /\ Len(emitted[j]) < MaxResults
    /\ emitted' = [emitted EXCEPT ![j] = Append(@, res)]
    /\ todo' = [todo EXCEPT ![j] = Requests(Len(emitted'[j]), res)]
    /\ UNCHANGED <<pc, jobToken, failed, logs, ctxDone, server>>

(* PushAssets or PushFindings through the retrier. The transport wraps      *)
(* every error, so the retrier makes one attempt (see Retrier). An error is *)
(* only logged and the next request follows.                                *)
Push(j) ==
    /\ todo[j] # <<>>
    /\ \E processed, answered \in BOOLEAN :
        /\ Call(j, jobToken[j], processed, answered)
        /\ received' = IF processed
                       THEN [received EXCEPT ![minted[jobToken[j]]] = Append(@, Head(todo[j]))]
                       ELSE received
        /\ todo' = [todo EXCEPT ![j] = Tail(@)]
        /\ failed' = [failed EXCEPT ![j] = @ \/ ~answered]
    /\ UNCHANGED <<pc, jobToken, emitted, logs, ctxDone, minted, tokens, ended>>

(* jobHeartbeatLoop of a job that is scanning. *)
JobHeartbeat(j) ==
    /\ pc[j] = "scan"
    /\ \E processed, answered \in BOOLEAN : Call(j, jobToken[j], processed, answered)
    /\ UNCHANGED <<client, ctxDone, minted, tokens, received, ended>>

ScanReturnsEarly(j) ==      \* mutant: emit does not wait for the imports
    /\ \E how \in {"completed", "failed"} : Goto(j, "scan", how)
    /\ UNCHANGED <<jobToken, work, ctxDone, server>>

(* The handler returns, in whatever state the imports ended. *)
ScanReturns(j) ==
    /\ todo[j] = <<>>
    /\ \E how \in {"completed", "failed"} : Goto(j, "scan", how)
    /\ UNCHANGED <<jobToken, work, ctxDone, server>>

(* JobCompleted or JobFailed: an error is only logged. *)
Report(j) ==
    \E processed, answered \in BOOLEAN :
        /\ pc[j] \in {"completed", "failed"}
        /\ Call(j, jobToken[j], processed, answered)
        /\ ended' = IF processed THEN [ended EXCEPT ![minted[jobToken[j]]] = pc[j]] ELSE ended
        /\ tokens' = IF processed THEN tokens \ {jobToken[j]} ELSE tokens
        /\ pc' = [pc EXCEPT ![j] = "cleanup"]
        /\ UNCHANGED <<jobToken, work, ctxDone, minted, received>>

(* The deferred cleanup, after the report. *)
Cleanup(j) ==
    /\ Goto(j, "cleanup", "over")
    /\ UNCHANGED <<jobToken, work, ctxDone, server>>

(* jobLogHandler.Handle: a goroutine per record, which the handler (while   *)
(* it scans) or the cleanup starts and for which nobody waits.              *)
Log(j) ==
    /\ pc[j] \in {"scan", "cleanup"}
    /\ logs[j] < MaxLogs
    /\ logs' = [logs EXCEPT ![j] = @ + 1]
    /\ UNCHANGED <<pc, jobToken, emitted, todo, failed, ctxDone, server>>

(* The goroutine makes its call under jobCtx, at whatever time: also after  *)
(* the report.                                                              *)
LogSent(j) ==
    /\ logs[j] > 0
    /\ \E processed, answered \in BOOLEAN : Call(j, jobToken[j], processed, answered)
    /\ logs' = [logs EXCEPT ![j] = @ - 1]
    /\ UNCHANGED <<pc, jobToken, emitted, todo, failed, ctxDone, minted, tokens, received, ended>>

(* heartbeatLoop, pollLoop: under the agent's own context. *)
AgentCall ==
    /\ \E processed, answered \in BOOLEAN : Call(Agent, NoToken, processed, answered)
    /\ UNCHANGED <<client, ctxDone, minted, tokens, received, ended>>

CancelContext ==
    /\ ~ctxDone
    /\ ctxDone' = TRUE
    /\ UNCHANGED <<client, server>>

Step(j) ==
    \/ CreateJobToken(j) \/ GetJobDetail(j) \/ JobStart(j) \/ GetArtifactDownload(j)
    \/ Push(j) \/ JobHeartbeat(j) \/ ScanReturns(j) \/ Report(j) \/ Cleanup(j)
    \/ Log(j) \/ LogSent(j)
    \/ \E res \in Results : Emit(j, res)

Next == CancelContext \/ AgentCall \/ \E j \in Jobs : Step(j)

Spec == Init /\ [][Next]_vars

-----------------------------------------------------------------------------
(* Properties *)

(* Every request carries its maker's credential and no other: what an       *)
(* executeJob, its handler or one of its goroutines sends names the job     *)
(* whose token was minted for it ("distinct jobs cannot interfere",         *)
(* transport/client.go:24-27), whatever runs beside it and however late it  *)
(* is, and never falls back to the agent's X-Token; only what the agent     *)
(* itself sends does. And once the server has a job's terminal report it    *)
(* books nothing more on it: the log records that come late are refused.    *)
(* GetArtifactDownload is among the job's requests: agent_execute.go:39-40  *)
(* takes it for an "agent-plane call" and expects X-Token "via fallback",   *)
(* but jobCtx carries a token, and so RoundTrip never falls back.           *)
OwnCredentials == \A r \in reached : r.names = {r.by} /\ ~r.late

ItemsOf(i, kind, n) == [k \in 1..n |-> <<i, kind, k>>]

(* The items of the i-th result, in the order importResult takes them, and  *)
(* those of a request.                                                      *)
ItemsOfResult(i, res) ==
    ItemsOf(i, "domains", res.domains) \o ItemsOf(i, "services", res.services)
        \o ItemsOf(i, "web", res.web) \o ItemsOf(i, "sast", res.sast)
ItemsOfBatch(b) == [k \in 1..(b.last - b.first + 1) |-> <<b.result, b.kind, b.first + k - 1>>]

ItemsIn(batches) == FlattenSeq([i \in DOMAIN batches |-> ItemsOfBatch(batches[i])])

(* The items a job has emitted, and those the server has booked on it.      *)
ItemsEmitted(j)  == FlattenSeq([i \in DOMAIN emitted[j] |-> ItemsOfResult(i, emitted[j][i])])
ItemsReceived(j) == ItemsIn(received[j])

(* The server books no item of a job twice and none the handler did not     *)
(* emit, takes no more than BatchSize assets at once and, when the job is   *)
(* reported completed and no import was logged as failed, holds every item, *)
(* in the order of the handler's emits (agent_import.go:11-65).             *)
ImportsComplete == \A j \in Jobs :
    /\ IsInjective(ItemsReceived(j))
    /\ Range(ItemsReceived(j)) \subseteq Range(ItemsEmitted(j))
    /\ \A b \in Range(received[j]) :
        b.kind \in {"domains", "services"} => b.last - b.first < BatchSize
    /\ ended[j] = "completed" /\ ~failed[j] => ItemsReceived(j) = ItemsEmitted(j)

=============================================================================
