----------------------------- MODULE ExecCommand -----------------------------
(***************************************************************************)
(* utils.Exec (utils/exec.go): one command of exec.CommandContext with its *)
(* two pipes and the two goroutines that read them line by line. The       *)
(* module has no Next of its own: JobExecution, whose goroutine calls      *)
(* Exec, interleaves these steps with its own.                             *)
(*                                                                         *)
(* The child writes the lines of a script. git may start a helper          *)
(* (git-remote-https, index-pack) that inherits stderr and that git waits  *)
(* for, but that a kill of git leaves alone.                               *)
(***************************************************************************)
EXTENDS Naturals, Sequences

CONSTANTS
    Scripts,    \* what commands may write: sequences of "out" (a line on stdout), "err"
                \* (one on stderr), "longout" and "longerr" (one that bufio.Scanner refuses)
    PipeSize    \* how many lines a pipe holds

VARIABLES
    ctxDone,    \* the context of the command is cancelled
    cmd,        \* where the call Exec is, or what the last one returned
    script,     \* the lines the child is to write
    wrote,      \* how many of them it has written
    child,      \* the process
    helper,     \* a process of its own that holds stderr open
    pipe,       \* pipe[s]: the lines (their numbers) in the pipe of stream s
    reader,     \* reader[s]: the goroutine streamOutput of s
    delivered   \* delivered[s]: the lines its callback has got

Streams == {"stdout", "stderr"}
StreamOf(line) == IF line \in {"err", "longerr"} THEN "stderr" ELSE "stdout"
IsLong(line)   == line \in {"longout", "longerr"}

(* The lines the child has written to s so far. *)
Written(s) == {i \in 1..wrote : StreamOf(script[i]) = s}

(* Just these lines, each once, in the order they were written. *)
InOrder(lines, q) ==
    /\ lines = {q[i] : i \in 1..Len(q)}
    /\ \A i, k \in 1..Len(q) : i < k => q[i] < q[k]

(* Exec is running: the command was started and has not been waited for. *)
InProgress == cmd \in {"streaming", "waiting"}

Silent == [s \in Streams |-> <<>>]

TypeOK ==
    /\ cmd \in {"idle", "streaming", "waiting", "ok", "error"}
    /\ script \in Scripts \cup {<<>>} /\ wrote \in 0..Len(script)
    /\ child \in {"none", "running", "exited", "failed", "killed"}
    /\ helper \in BOOLEAN
    /\ pipe \in [Streams -> Seq(Nat)] /\ delivered \in [Streams -> Seq(Nat)]
    /\ \A s \in Streams : Len(pipe[s]) <= PipeSize /\ Len(delivered[s]) + Len(pipe[s]) <= wrote
    /\ reader \in [Streams -> {"none", "reading", "done", "choked"}]

Init ==
    /\ cmd = "idle"
    /\ script = <<>> /\ wrote = 0
    /\ child = "none" /\ helper = FALSE
    /\ pipe = Silent /\ delivered = Silent
    /\ reader = [s \in Streams |-> "none"]

-----------------------------------------------------------------------------
(* Exec up to the two go statements. No helper of an earlier command is left *)
(* then: only a kill leaves one behind, and the context is done ever after. *)
Start ==
    /\ ~InProgress /\ ~ctxDone
    /\ cmd' = "streaming"
    /\ script' \in Scripts /\ wrote' = 0
    /\ child' = "running" /\ helper' \in BOOLEAN
    /\ pipe' = Silent /\ delivered' = Silent
    /\ reader' = [s \in Streams |-> "reading"]

(* The pipes or the process cannot be made, or the context is done already. *)
StartFails ==
    /\ ~InProgress
    /\ cmd' = "error"
    /\ UNCHANGED <<script, wrote, child, helper, pipe, reader, delivered>>

StreamsDoneAtOnce ==        \* mutant: Exec goes straight to cmd.Wait
    /\ cmd = "streaming"
    /\ cmd' = "waiting"
    /\ UNCHANGED <<script, wrote, child, helper, pipe, reader, delivered>>

(* <-done, <-done *)
StreamsDone ==
    /\ cmd = "streaming"
    /\ \A s \in Streams : reader[s] # "reading"
    /\ cmd' = "waiting"
    /\ UNCHANGED <<script, wrote, child, helper, pipe, reader, delivered>>

(* cmd.Wait reaps the child and closes the pipes, which ends a reader that  *)
(* still reads. A kill that reached a child already gone is an error too.   *)
Wait ==
    /\ cmd = "waiting"
    /\ child \in {"exited", "failed", "killed"}
    /\ \/ child = "exited" /\ cmd' = "ok"
       \/ (child # "exited" \/ ctxDone) /\ cmd' = "error"
    /\ pipe' = Silent
    /\ reader' = [s \in Streams |-> IF reader[s] = "reading" THEN "done" ELSE reader[s]]
    /\ UNCHANGED <<script, wrote, child, helper, delivered>>

-----------------------------------------------------------------------------
(* streamOutput. A line that does not fit the scanner's buffer (64 KiB)     *)
(* ends the loop as the end of the stream does; what is in the pipe stays.  *)
Read(s) ==
    /\ reader[s] = "reading" /\ pipe[s] # <<>>
    /\ IF IsLong(script[Head(pipe[s])])
       THEN /\ reader' = [reader EXCEPT ![s] = "choked"]
            /\ UNCHANGED <<pipe, delivered>>
       ELSE /\ delivered' = [delivered EXCEPT ![s] = Append(@, Head(pipe[s]))]
            /\ pipe' = [pipe EXCEPT ![s] = Tail(@)]
            /\ UNCHANGED reader
    /\ UNCHANGED <<cmd, script, wrote, child, helper>>

(* The end of the stream: nobody holds the other end of the pipe any more.  *)
ReadEOF(s) ==
    /\ reader[s] = "reading" /\ pipe[s] = <<>>
    /\ child # "running" /\ (s = "stderr" => ~helper)
    /\ reader' = [reader EXCEPT ![s] = "done"]
    /\ UNCHANGED <<cmd, script, wrote, child, helper, pipe, delivered>>

StreamOutput(s) == Read(s) \/ ReadEOF(s)

-----------------------------------------------------------------------------
(* The child: a write blocks while the pipe is full. *)
WritesTo(s) == child = "running" /\ wrote < Len(script) /\ StreamOf(script[wrote + 1]) = s

ChildWrite ==
    /\ \E s \in Streams :
        /\ WritesTo(s) /\ Len(pipe[s]) < PipeSize
        /\ pipe' = [pipe EXCEPT ![s] = Append(@, wrote + 1)]
    /\ wrote' = wrote + 1
    /\ UNCHANGED <<cmd, script, child, helper, reader, delivered>>

(* It exits when it has written its script, with 0 or with another code.    *)
ChildExit ==
    /\ child = "running" /\ ~helper
    /\ wrote = Len(script)
    /\ child' \in {"exited", "failed"}
    /\ UNCHANGED <<cmd, script, wrote, helper, pipe, reader, delivered>>

HelperEnds ==
    /\ helper
    /\ helper' = FALSE
    /\ UNCHANGED <<cmd, script, wrote, child, pipe, reader, delivered>>

(* The goroutine of exec.CommandContext kills the process, and only that.   *)
Kill ==
    /\ child = "running" /\ ctxDone
    /\ child' = "killed"
    /\ UNCHANGED <<cmd, script, wrote, helper, pipe, reader, delivered>>

Child == ChildWrite \/ ChildExit

(* Exec waits for nothing that is still to come: git was killed and its     *)
(* helper keeps open the stderr that is read to its end, or the reader of   *)
(* one of the streams gave up on a long line, git is blocked on the full    *)
(* pipe of that stream, and nobody cancels the context.                     *)
Hung ==
    /\ InProgress
    /\ \/ child = "killed" /\ helper /\ reader["stderr"] = "reading"
       \/ ~ctxDone /\ \E s \in Streams :
              reader[s] = "choked" /\ WritesTo(s) /\ Len(pipe[s]) = PipeSize
=============================================================================
