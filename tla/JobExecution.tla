---------------------------- MODULE JobExecution ----------------------------
(***************************************************************************)
(* executeJob (agent_execute.go) for one job, with the job's heartbeat     *)
(* goroutine, the working directory of job_repo.go and the two ways to     *)
(* fill it (the git commands of ExecCommand, the archive of                *)
(* ArchiveExtract), the context it runs under, and the server's view of    *)
(* the job. Which commands git is given is in RepoCheckout: here they are  *)
(* at most MaxCommands, of any script.                                     *)
(*                                                                         *)
(* Every RPC can be answered, can fail before it reached the server, or    *)
(* can fail after the server has processed it; under a cancelled context   *)
(* it is not sent. The server is external: it follows the reports it gets  *)
(* and takes a job back whose heartbeats have stopped ("Backend reclaims   *)
(* the job via heartbeat timeout", agent_execute.go:20-21).                *)
(***************************************************************************)
EXTENDS Naturals, Sequences

CONSTANTS
    Targets,    \* what jobs may have as their target: no repository, one that is
                \* cloned, or one that is downloaded as an archive
    MaxCommands,\* bound: how many git commands a job runs
    Scripts, PipeSize,  \* of ExecCommand
    Artifacts           \* of ArchiveExtract

ASSUME TargetsAssumption == Targets \subseteq {"none", "git", "archive"} /\ Targets # {}
ASSUME CommandsAssumption ==
    /\ MaxCommands \in Nat /\ PipeSize \in Nat \ {0}
    /\ Scripts \subseteq Seq({"out", "err", "longout", "longerr"})

VARIABLES
    pc,         \* where executeJob is
    scan,       \* what Scan returned: "none", "ok", "error" or "panic"
    ret,        \* what executeJob returned: "none", "nil", "error" or "panic"
    ctxDone,    \* the context of the job (drainCtx) is cancelled
    hb,         \* the jobHeartbeatLoop goroutine
    hbCancelled,\* hbCtx has been cancelled by cancelHB
    dir,        \* the temporary directory of the repository: "stuck" if it was to be
                \* removed and could not be
    server,     \* the job's state at the server
    log,        \* the terminal reports the server has received
    commands,   \* how many git commands have been started
    cmd, script, wrote, child, helper, pipe, reader, delivered,     \* of ExecCommand
    artifact, fetch, unpacked, tree                                 \* of ArchiveExtract

Git     == INSTANCE ExecCommand
Archive == INSTANCE ArchiveExtract

ASSUME ArtifactsAssumption ==
    \A a \in Artifacts : a \in Archive!Artifact /\ a.intact <= Len(a.entries)

gitVars     == <<cmd, script, wrote, child, helper, pipe, reader, delivered>>
archiveVars == <<artifact, fetch, unpacked, tree>>
repoVars    == <<commands, gitVars, archiveVars>>
vars == <<pc, scan, ret, ctxDone, hb, hbCancelled, dir, server, log, repoVars>>

Terminal == {"completed", "failed"}

TypeOK ==
    /\ pc \in {"token", "detail", "start", "git", "checkout", "resolve",
               "archive", "extract", "beat", "scan", "stopBeat", "complete", "fail", "cleanup", "over"}
    /\ scan \in {"none", "ok", "error", "panic"}
    /\ ret \in {"none", "nil", "error", "panic"}
    /\ ctxDone \in BOOLEAN
    /\ hb \in {"none", "beating", "exited"}
    /\ hbCancelled \in BOOLEAN
    /\ dir \in {"none", "filling", "ready", "removed", "stuck"}
    /\ server \in {"assigned", "running", "reclaimed"} \cup Terminal
    /\ log \in SUBSET Terminal
    /\ commands \in 0..MaxCommands
    /\ Git!TypeOK /\ Archive!TypeOK

Init ==
    /\ pc = "token"
    /\ scan = "none" /\ ret = "none"
    /\ ctxDone \in BOOLEAN
    /\ hb = "none" /\ hbCancelled = FALSE
    /\ dir = "none"
    /\ server = "assigned"
    /\ log = {}
    /\ commands = 0
    /\ Git!Init /\ Archive!Init

-----------------------------------------------------------------------------
(* How an RPC can end: was it processed, did the caller get the answer?     *)
Rpc(processed, answered) ==
    IF ctxDone THEN ~processed /\ ~answered ELSE answered => processed

(* The server still follows the job: it has not ended or been taken back.   *)
Live == server \in {"assigned", "running"}

Goto(from, to) == pc = from /\ pc' = to

(* CreateJobToken, with the agent's token: on an error nothing is reported. *)
CreateJobToken ==
    \E processed, answered \in BOOLEAN :
        /\ Rpc(processed, answered)
        /\ Goto("token", IF answered THEN "detail" ELSE "over")
        /\ ret' = IF answered THEN ret ELSE "error"
        /\ UNCHANGED <<scan, ctxDone, hb, hbCancelled, dir, server, log, repoVars>>

(* getJobDetail; its error is reported with JobFailed. *)
GetJobDetail ==
    \E processed, answered \in BOOLEAN :
        /\ Rpc(processed, answered)
        /\ Goto("detail", IF answered THEN "start" ELSE "fail")
        /\ UNCHANGED <<scan, ret, ctxDone, hb, hbCancelled, dir, server, log, repoVars>>

(* reportJobStarted: an error is only logged. *)
ReportStarted ==
    \E processed, answered \in BOOLEAN, target \in Targets :
        /\ Rpc(processed, answered)
        /\ Goto("start", IF target = "none" THEN "beat" ELSE target)
        /\ server' = IF processed /\ server = "assigned" THEN "running" ELSE server
        /\ UNCHANGED <<scan, ret, ctxDone, hb, hbCancelled, dir, log, repoVars>>

(* prepareRepository before the checkout: buildRepoURL and MkdirTemp. *)
PrepareDir ==
    /\ \/ Goto("git", "checkout") /\ dir' = "filling"
       \/ Goto("git", "fail") /\ UNCHANGED dir
    /\ UNCHANGED <<scan, ret, ctxDone, hb, hbCancelled, server, log, repoVars>>

(* os.RemoveAll, whose error is ignored or logged and never acted upon. *)
RemoveDir == dir' \in {"removed", "stuck"}

notGit == <<pc, scan, ret, ctxDone, hb, hbCancelled, dir, server, log, archiveVars>>

(* The next call of Exec: GitCheckout stops at the first error, while       *)
(* EnsureMergeBaseReachable and resolveCommitSHAs ignore them.              *)
RunCommand ==
    /\ \/ pc = "checkout" /\ cmd # "error"
       \/ pc = "resolve"
    /\ commands < MaxCommands
    /\ Git!Start \/ Git!StartFails
    /\ commands' = commands + 1
    /\ UNCHANGED notGit

AwaitCommand ==
    /\ Git!StreamsDone \/ Git!Wait
    /\ UNCHANGED <<commands, notGit>>

CheckoutFailsKeeping ==     \* mutant: os.RemoveAll is forgotten on an error
    /\ cmd = "error"
    /\ Goto("checkout", "fail")
    /\ UNCHANGED <<scan, ret, ctxDone, hb, hbCancelled, dir, server, log, repoVars>>

(* The directory is removed at once, for no cleanup is registered yet. *)
CheckoutFails ==
    /\ cmd = "error"
    /\ Goto("checkout", "fail")
    /\ RemoveDir
    /\ UNCHANGED <<scan, ret, ctxDone, hb, hbCancelled, server, log, repoVars>>

(* The directory becomes clonedRepoDir, whose cleanup is deferred. *)
CheckoutDone ==
    /\ cmd = "ok"
    /\ Goto("checkout", "resolve")
    /\ dir' = "ready"
    /\ UNCHANGED <<scan, ret, ctxDone, hb, hbCancelled, server, log, repoVars>>

Resolved ==
    /\ ~Git!InProgress
    /\ Goto("resolve", "beat")
    /\ UNCHANGED <<scan, ret, ctxDone, hb, hbCancelled, dir, server, log, repoVars>>

-----------------------------------------------------------------------------
(* prepareArchive: the same directory, filled from the artifact. *)
RequestURL ==
    /\ Archive!RequestURL
    /\ \/ fetch' = "url" /\ Goto("archive", "extract") /\ dir' = "filling"
       \/ fetch' = "failed" /\ Goto("archive", "fail") /\ UNCHANGED dir
    /\ UNCHANGED <<scan, ret, ctxDone, hb, hbCancelled, server, log, commands, gitVars>>

ExtractArchive ==
    /\ Archive!DownloadAndExtract
    /\ \/ fetch' = "unpacking" /\ UNCHANGED <<pc, dir>>
       \/ fetch' = "done" /\ Goto("extract", "beat") /\ dir' = "ready"
       \/ fetch' = "failed" /\ Goto("extract", "fail") /\ RemoveDir
    /\ UNCHANGED <<scan, ret, ctxDone, hb, hbCancelled, server, log, commands, gitVars>>

-----------------------------------------------------------------------------
StartHeartbeat ==
    /\ Goto("beat", "scan")
    /\ hb' = "beating"
    /\ UNCHANGED <<scan, ret, ctxDone, hbCancelled, dir, server, log, repoVars>>

(* Scan returns nil or an error, whatever became of the context. *)
ScanReturns ==
    /\ Goto("scan", "stopBeat")
    /\ scan' \in {"ok", "error"}
    /\ UNCHANGED <<ret, ctxDone, hb, hbCancelled, dir, server, log, repoVars>>

(* A panic unwinds to the worker's recover through the deferred cleanup:    *)
(* cancelHB, which is not deferred, and the reports are passed over.        *)
ScanPanics ==
    /\ Goto("scan", "cleanup")
    /\ scan' = "panic"
    /\ ret' = "panic"
    /\ UNCHANGED <<ctxDone, hb, hbCancelled, dir, server, log, repoVars>>

CancelHeartbeatForgotten == \* mutant: cancelHB is not called
    /\ Goto("stopBeat", IF scan = "ok" THEN "complete" ELSE "fail")
    /\ UNCHANGED <<scan, ret, ctxDone, hb, hbCancelled, dir, server, log, repoVars>>

ErrorIgnored ==             \* mutant: scanErr is logged but not acted upon
    /\ Goto("stopBeat", "complete")
    /\ hbCancelled' = TRUE
    /\ UNCHANGED <<scan, ret, ctxDone, hb, dir, server, log, repoVars>>

CancelHeartbeat ==
    /\ Goto("stopBeat", IF scan = "ok" THEN "complete" ELSE "fail")
    /\ hbCancelled' = TRUE
    /\ UNCHANGED <<scan, ret, ctxDone, hb, dir, server, log, repoVars>>

(* reportJobCompleted / reportJobFailed: an error is only logged. *)
Report(at, kind, value) ==
    \E processed, answered \in BOOLEAN :
        /\ Rpc(processed, answered)
        /\ Goto(at, "cleanup")
        /\ ret' = value
        /\ server' = IF processed /\ Live THEN kind ELSE server
        /\ log' = IF processed THEN log \cup {kind} ELSE log
        /\ UNCHANGED <<scan, ctxDone, hb, hbCancelled, dir, repoVars>>

ReportCompleted == Report("complete", "completed", "nil")
ReportUnknown   == Report("fail", "error", "error")     \* mutant: no such state
ReportFailed    == Report("fail", "failed", "error")

(* The deferred cleanupRepository, registered when the repository was       *)
(* prepared. Then executeJob is over.                                       *)
Cleanup ==
    /\ Goto("cleanup", "over")
    /\ IF dir = "ready" THEN RemoveDir ELSE UNCHANGED dir
    /\ UNCHANGED <<scan, ret, ctxDone, hb, hbCancelled, server, log, repoVars>>

-----------------------------------------------------------------------------
HeartbeatExitLate ==        \* mutant: the loop watches the job's context only
    /\ hb = "beating"
    /\ ctxDone
    /\ hb' = "exited"
    /\ UNCHANGED <<pc, scan, ret, ctxDone, hbCancelled, dir, server, log, repoVars>>

(* jobHeartbeatLoop ends when hbCtx or its parent is cancelled. *)
HeartbeatExit ==
    /\ hb = "beating"
    /\ hbCancelled \/ ctxDone
    /\ hb' = "exited"
    /\ UNCHANGED <<pc, scan, ret, ctxDone, hbCancelled, dir, server, log, repoVars>>

(* The server takes a job back from which no heartbeat comes. *)
Reclaim ==
    /\ Live
    /\ hb # "beating"
    /\ server' = "reclaimed"
    /\ UNCHANGED <<pc, scan, ret, ctxDone, hb, hbCancelled, dir, log, repoVars>>

(* The agent cancels drainCtx: shutdown timeout, Stop, or the end of Run. *)
CancelContext ==
    /\ ~ctxDone
    /\ ctxDone' = TRUE
    /\ UNCHANGED <<pc, scan, ret, hb, hbCancelled, dir, server, log, repoVars>>

(* The goroutines and processes of a git command. *)
StreamOutput(s) == Git!StreamOutput(s) /\ UNCHANGED <<commands, notGit>>
Child           == Git!Child /\ UNCHANGED <<commands, notGit>>
HelperEnds      == Git!HelperEnds /\ UNCHANGED <<commands, notGit>>
Kill            == Git!Kill /\ UNCHANGED <<commands, notGit>>

Execute ==
    \/ CreateJobToken \/ GetJobDetail \/ ReportStarted
    \/ PrepareDir \/ RunCommand \/ AwaitCommand \/ CheckoutFails \/ CheckoutDone \/ Resolved
    \/ RequestURL \/ ExtractArchive
    \/ StartHeartbeat \/ ScanReturns \/ ScanPanics \/ CancelHeartbeat
    \/ ReportCompleted \/ ReportFailed \/ Cleanup

Command == Child \/ HelperEnds \/ Kill \/ \E s \in Git!Streams : StreamOutput(s)

Next == Execute \/ Command \/ HeartbeatExit \/ Reclaim \/ CancelContext

Spec == Init /\ [][Next]_vars

(* The remote side has not answered and nobody has set it a limit: the      *)
(* helper through which git talks to it, or the GET of the archive, which   *)
(* goes through http.DefaultClient (job_repo.go:141). Only the context ends *)
(* it.                                                                      *)
Stalled == ~ctxDone /\ (fetch = "url" \/ (child = "running" /\ helper))

(* The goroutines run, an RPC ends (its client has a time limit), the scan  *)
(* returns, git itself gets on with its work, and the server does reclaim.  *)
(* Nothing makes a helper end or a download come to its end, and the        *)
(* context need not ever be cancelled.                                      *)
Fairness ==
    /\ WF_vars((fetch = "url" => ctxDone) /\ Execute)
    /\ WF_vars(HeartbeatExit) /\ WF_vars(Reclaim)
    /\ \A s \in Git!Streams : WF_vars(StreamOutput(s))
    /\ WF_vars(Child) /\ WF_vars(Kill)

FairSpec == Spec /\ Fairness

-----------------------------------------------------------------------------
(* What the server is told is what happened: completed only if Scan         *)
(* returned nil, failed only if it did not, and never both.                 *)
ReportsAreTrue ==
    /\ "completed" \in log => scan = "ok" /\ ret \in {"none", "nil"}
    /\ "failed" \in log => scan # "ok" /\ ret \in {"none", "error"}
    /\ log # Terminal

(* While the scan runs under a live context its heartbeat is running, and   *)
(* it has been cancelled before the server hears of the end of the job.     *)
HeartbeatBracketsScan ==
    /\ (pc = "scan" /\ ~ctxDone) => hb = "beating"
    /\ log # {} => (hb = "none" \/ hbCancelled)

(* Every path through executeJob, a panic of the handler included, has      *)
(* os.RemoveAll called for the repository's directory, so that what stays   *)
(* behind is only what it could not remove; and when it is called, git is   *)
(* gone, and its helper too unless the reader of stderr had given up on a   *)
(* long line: then Exec does not wait for it.                               *)
DirectoryIsRemoved ==
    /\ pc = "over" => dir \in {"none", "removed", "stuck"}
    /\ dir \in {"removed", "stuck"} =>
           child # "running" /\ (helper => reader["stderr"] = "choked")

(* When Exec has returned, whether git ended, failed or was killed, the     *)
(* callbacks have got every line that git wrote, in order. Only what        *)
(* follows a line longer than the scanner's buffer is lost.                 *)
OutputComplete ==
    cmd \in {"ok", "error"} =>
        \A s \in Git!Streams :
            reader[s] # "choked" => Git!InOrder(Git!Written(s), delivered[s])

(* The handler never scans part of an archive, or something else: a torn,   *)
(* undecipherable or contradictory one fails the job, of two entries with   *)
(* one path the later counts, and nothing is written outside.               *)
ScanSeesWholeArchive ==
    (pc = "scan" /\ fetch # "idle") =>
        /\ artifact.intact = Len(artifact.entries)
        /\ tree = Archive!Whole(artifact) /\ Archive!IsTree(tree)

(* executeJob comes to its end and, unless the handler panicked, the job's  *)
(* heartbeat goroutine with it. Else it hangs in Exec for ever as Git!Hung  *)
(* says, or waits, under a context nobody cancels, for a remote side that   *)
(* does not answer. Its own goroutines and pipes hold it in no other way.   *)
NothingOutlivesJob ==
    \/ <>[](pc = "over" /\ (hb = "beating" => ret = "panic"))
    \/ <>[]Git!Hung
    \/ <>[]Stalled

(* A job whose end was never reported (the report was lost, or its token    *)
(* could not be created) does not stay assigned for ever, unless the        *)
(* handler panicked.                                                        *)
UnreportedIsReclaimed == (pc = "over" /\ ret # "panic") ~> ~Live

(* agent_execute.go:20-21: "Backend reclaims the job via heartbeat          *)
(* timeout", a job that ended by a panic of the handler included.           *)
AbandonedIsReclaimed == (pc = "over") ~> ~Live
=============================================================================
