-------------------------- MODULE JobExecutionProofs --------------------------
(* executeJob for every target, script of git, archive and failure of a      *)
(* call: what it tells the server, the heartbeat around the scan, the        *)
(* directory, the output of the commands and the tree the handler scans.    *)
EXTENDS JobExecution, NatRecursion

-----------------------------------------------------------------------------
(* The inductive invariant: executeJob *)

BeforeBeat == {"token", "detail", "start", "git", "checkout", "resolve",
               "archive", "extract", "beat"}

(* Until it returned, Scan has not; the report that follows is chosen by     *)
(* what it returned, and only then is anything in the server's log.         *)
ReportChosen ==
    /\ pc \in BeforeBeat \cup {"scan"} => scan = "none"
    /\ pc = "complete" => scan = "ok"
    /\ pc = "fail" => scan \in {"none", "error"}
    /\ pc = "stopBeat" => scan \in {"ok", "error"}
    /\ pc \notin {"cleanup", "over"} => log = {} /\ ret = "none"

(* The heartbeat is started after the preparations, and only a cancelled     *)
(* context ends it before cancelHB, which precedes every report.            *)
BeatInv ==
    /\ pc \in BeforeBeat => hb = "none"
    /\ pc \in BeforeBeat \cup {"scan", "stopBeat"} => ~hbCancelled
    /\ pc = "scan" /\ ~ctxDone => hb = "beating"
    /\ pc = "complete" => hbCancelled
    /\ pc = "fail" \/ log # {} => hb = "none" \/ hbCancelled

(* The directory along executeJob. *)
DirInv ==
    /\ pc \in {"token", "detail", "start", "git", "archive"} => dir = "none"
    /\ pc \in {"checkout", "extract"} => dir = "filling"
    /\ pc = "resolve" => dir = "ready"
    /\ pc \in {"beat", "scan", "stopBeat", "complete"} => dir \in {"none", "ready"}
    /\ pc \in {"fail", "cleanup"} => dir # "filling"
    /\ pc = "over" => dir \in {"none", "removed", "stuck"}

-----------------------------------------------------------------------------
(* The inductive invariant: Exec *)

(* A git command is running only while the job checks out or resolves. *)
CommandsInTurn == Git!InProgress => pc \in {"checkout", "resolve"}

(* The readers end before Exec waits, that of stderr only when nobody can    *)
(* write to it any more or when it gave up; a helper that is left after     *)
(* Exec returned means the latter.                                          *)
ReadersInv ==
    /\ \A s \in Git!Streams : /\ reader[s] = "reading" => cmd = "streaming"
                              /\ reader[s] = "none" => ~Git!InProgress
                              /\ reader[s] = "done" => pipe[s] = <<>> /\ child # "running"
    /\ reader["stderr"] = "done" => ~helper
    /\ ~Git!InProgress => /\ child # "running" /\ (helper => reader["stderr"] = "choked")
                          /\ \A s \in Git!Streams : pipe[s] = <<>>

(* What a callback got and what is in the pipe behind it are the lines the   *)
(* child wrote, in order, as long as the pipe is there; and still if its     *)
(* reader did not give up.                                                  *)
NothingLost ==
    \A s \in Git!Streams :
        Git!InProgress \/ reader[s] # "choked" =>
            Git!InOrder(Git!Written(s), delivered[s] \o pipe[s])

GitInv == Git!TypeOK /\ ReadersInv /\ NothingLost

-----------------------------------------------------------------------------
(* Sequences of lines *)

(* Moving the first line of the pipe to the callback keeps the whole.        *)
LEMMA HeadMoves ==
  ASSUME NEW d \in Seq(Nat), NEW q \in Seq(Nat), q # <<>>
  PROVE  /\ Head(q) \in Nat /\ Tail(q) \in Seq(Nat) /\ Len(Tail(q)) = Len(q) - 1
         /\ Append(d, Head(q)) \in Seq(Nat) /\ Len(Append(d, Head(q))) = Len(d) + 1
         /\ Append(d, Head(q)) \o Tail(q) = d \o q
<1> DEFINE a == Append(d, Head(q)) \o Tail(q)
           b == d \o q
<1>1. Head(q) \in Nat /\ Tail(q) \in Seq(Nat) /\ Len(Tail(q)) = Len(q) - 1 /\ Len(q) >= 1
  OBVIOUS
<1>2. Append(d, Head(q)) \in Seq(Nat) /\ Len(Append(d, Head(q))) = Len(d) + 1
  BY <1>1
<1>3. a \in Seq(Nat) /\ b \in Seq(Nat) /\ Len(a) = Len(d) + Len(q) /\ Len(b) = Len(d) + Len(q)
  BY <1>1, <1>2
<1>4. ASSUME NEW i \in 1..(Len(d) + Len(q)) PROVE a[i] = b[i]
  <2>1. CASE i <= Len(d)
    BY <1>1, <1>2, <2>1
  <2>2. CASE i = Len(d) + 1
    BY <1>1, <1>2, <2>2
  <2>3. CASE i > Len(d) + 1
    <3>1. i - (Len(d) + 1) \in 1..Len(Tail(q)) /\ i - Len(d) \in 1..Len(q)
      BY <1>1, <2>3
    <3>2. a[i] = Tail(q)[i - (Len(d) + 1)]
      BY <1>1, <1>2, <2>3
    <3>3. Tail(q)[i - (Len(d) + 1)] = q[i - Len(d)]
      BY <1>1, <3>1
    <3>4. b[i] = q[i - Len(d)]
      BY <2>3
    <3>5. QED
      BY <3>2, <3>3, <3>4
  <2>4. QED
    BY <2>1, <2>2, <2>3
<1> HIDE DEF a, b
<1>5. a = b
  BY <1>3, <1>4
<1>6. QED
  BY <1>1, <1>2, <1>5 DEF a, b

(* A line that was just written goes behind all others. *)
LEMMA NextLine ==
  ASSUME NEW lines \in SUBSET Nat, NEW d \in Seq(Nat), NEW q \in Seq(Nat), NEW n \in Nat,
         Git!InOrder(lines, d \o q), \A i \in lines : i < n
  PROVE  Git!InOrder(lines \cup {n}, d \o Append(q, n))
<1> DEFINE a == d \o q
           b == d \o Append(q, n)
<1>1. a \in Seq(Nat) /\ Len(a) = Len(d) + Len(q) /\ Len(a) \in Nat
  OBVIOUS
<1>2. b \in Seq(Nat) /\ Len(b) = Len(a) + 1 /\ b[Len(a) + 1] = n
  BY <1>1
<1>3. \A i \in 1..Len(a) : b[i] = a[i]
  <2>1. ASSUME NEW i \in 1..Len(a) PROVE b[i] = a[i]
    <3>1. CASE i <= Len(d)
      BY <1>1, <3>1
    <3>2. CASE i > Len(d)
      BY <1>1, <3>2
    <3>3. QED
      BY <3>1, <3>2
  <2>2. QED
    BY <2>1
<1>4. lines = {a[i] : i \in 1..Len(a)} /\ \A i, k \in 1..Len(a) : i < k => a[i] < a[k]
  BY DEF Git!InOrder
<1> HIDE DEF a, b
<1>0. /\ Len(a) + 1 \in 1..Len(b)
      /\ \A i \in 1..Len(b) : i \in 1..Len(a) \/ i = Len(a) + 1
  <2>1. \A k \in Nat : /\ k + 1 \in 1..(k + 1)
                      /\ \A i \in 1..(k + 1) : i \in 1..k \/ i = k + 1
    OBVIOUS
  <2>2. QED
    BY <1>1, <1>2, <2>1, Zenon
<1>5. lines \cup {n} = {b[i] : i \in 1..Len(b)}
  <2>1. \A i \in 1..Len(b) : b[i] \in lines \cup {n}
    BY <1>0, <1>2, <1>3, <1>4
  <2>2. \A x \in lines : \E i \in 1..Len(b) : x = b[i]
    BY <1>1, <1>2, <1>3, <1>4
  <2>3. \E i \in 1..Len(b) : n = b[i]
    BY <1>0, <1>2
  <2>4. QED
    BY <2>1, <2>2, <2>3
<1>6. \A i, k \in 1..Len(b) : i < k => b[i] < b[k]
  <2>1. ASSUME NEW i \in 1..Len(b), NEW k \in 1..Len(b), i < k PROVE b[i] < b[k]
    <3>0. i # Len(a) + 1
      <4> k <= Len(a) + 1 /\ i \in Int /\ k \in Int
        BY <1>1, <1>2, SMT
      <4> QED
        BY <1>1, <2>1, SMT
    <3>1. i \in 1..Len(a) /\ b[i] = a[i] /\ a[i] \in lines
      <4>1. i \in 1..Len(a)
        BY <1>0, <3>0, Zenon
      <4>2. QED
        BY <1>3, <1>4, <4>1, Zenon
    <3>2. CASE k \in 1..Len(a)
      BY <1>3, <1>4, <2>1, <3>1, <3>2
    <3>3. CASE k = Len(a) + 1
      BY <1>2, <3>1, <3>3
    <3>4. QED
      BY <1>0, <3>2, <3>3
  <2>2. QED
    BY <2>1
<1>7. QED
  BY <1>5, <1>6 DEF Git!InOrder, b

-----------------------------------------------------------------------------
(* Exec *)

LEMMA StreamsAre == Git!Streams = {"stdout", "stderr"}
  BY DEF Git!Streams

Lines == {"out", "err", "longout", "longerr"}

(* What a script, empty or not, and what empty pipes are. *)
LEMMA ScriptTypes ==
  \A sc \in Scripts \cup {<<>>} : sc \in Seq(Lines) /\ Len(sc) \in Nat
<1>1. <<>> \in Seq(Lines)
  OBVIOUS
<1>2. \A sc \in Scripts \cup {<<>>} : sc \in Seq(Lines)
  BY <1>1, CommandsAssumption DEF Lines
<1>3. QED
  BY <1>2

LEMMA SilentIs ==
  /\ Git!Silent \in [Git!Streams -> Seq(Nat)]
  /\ \A s \in Git!Streams : Git!Silent[s] = <<>> /\ Len(Git!Silent[s]) = 0
<1>1. <<>> \in Seq(Nat) /\ Len(<<>>) = 0
  OBVIOUS
<1>2. QED
  BY <1>1, Zenon DEF Git!Silent

LEMMA GitInit == Git!Init => GitInv
<1> SUFFICES ASSUME Git!Init PROVE GitInv
  OBVIOUS
<1>1. /\ pipe \in [Git!Streams -> Seq(Nat)] /\ delivered \in [Git!Streams -> Seq(Nat)]
      /\ \A s \in Git!Streams : pipe[s] = <<>> /\ delivered[s] = <<>>
  BY SilentIs DEF Git!Init
<1>2. Git!TypeOK
  <2>1. \A s \in Git!Streams : Len(pipe[s]) <= PipeSize /\ Len(delivered[s]) + Len(pipe[s]) <= wrote
    BY <1>1, CommandsAssumption DEF Git!Init
  <2>2. script \in Scripts \cup {<<>>} /\ wrote \in 0..Len(script)
    BY DEF Git!Init
  <2>3. QED
    BY <1>1, <2>1, <2>2 DEF Git!Init, Git!TypeOK
<1>3. ReadersInv
  BY <1>1, StreamsAre DEF Git!Init, ReadersInv, Git!InProgress
<1>4. NothingLost
  BY <1>1 DEF Git!Init, NothingLost, Git!Written, Git!InOrder
<1>5. QED
  BY <1>2, <1>3, <1>4 DEF GitInv

LEMMA GitStart ==
  ASSUME Git!Start
  PROVE  GitInv'
<1>1. /\ pipe' \in [Git!Streams -> Seq(Nat)] /\ delivered' \in [Git!Streams -> Seq(Nat)]
      /\ \A s \in Git!Streams : pipe'[s] = <<>> /\ delivered'[s] = <<>>
  BY SilentIs DEF Git!Start
<1>2. script' \in Scripts \cup {<<>>} /\ wrote' = 0 /\ 0 \in 0..Len(script')
  <2>1. script' \in Scripts \cup {<<>>} /\ wrote' = 0
    BY DEF Git!Start
  <2>2. QED
    BY <2>1, ScriptTypes
<1>3. Git!TypeOK'
  <2>1. \A s \in Git!Streams : Len(pipe'[s]) <= PipeSize /\ Len(delivered'[s]) + Len(pipe'[s]) <= wrote'
    BY <1>1, <1>2, CommandsAssumption
  <2>2. /\ cmd' \in {"idle", "streaming", "waiting", "ok", "error"} /\ helper' \in BOOLEAN
        /\ child' \in {"none", "running", "exited", "failed", "killed"}
        /\ reader' \in [Git!Streams -> {"none", "reading", "done", "choked"}]
    BY DEF Git!Start
  <2>3. QED
    BY <1>1, <1>2, <2>1, <2>2 DEF Git!TypeOK
<1>4. ReadersInv'
  BY <1>1, StreamsAre DEF Git!Start, ReadersInv, Git!InProgress
<1>5. NothingLost'
  BY <1>1, <1>2 DEF NothingLost, Git!Written, Git!InOrder
<1>6. QED
  BY <1>3, <1>4, <1>5 DEF GitInv

LEMMA GitStartFails ==
  ASSUME GitInv, Git!StartFails
  PROVE  GitInv'
<1> USE DEF GitInv
<1>1. /\ ~Git!InProgress /\ cmd' = "error"
      /\ UNCHANGED <<script, wrote, child, helper, pipe, reader, delivered>>
  BY DEF Git!StartFails
<1>2. Git!TypeOK'
  BY <1>1 DEF Git!TypeOK
<1>3. ReadersInv'
  BY <1>1 DEF ReadersInv, Git!InProgress
<1>4. NothingLost'
  BY <1>1 DEF NothingLost, Git!InProgress, Git!Written
<1>5. QED
  BY <1>2, <1>3, <1>4

LEMMA GitAwaited ==
  ASSUME GitInv, Git!StreamsDone \/ Git!Wait
  PROVE  GitInv' /\ child' = child /\ helper' = helper
<1> USE DEF GitInv
<1>1. CASE Git!StreamsDone
  <2>1. Git!TypeOK'
    BY <1>1 DEF Git!StreamsDone, Git!TypeOK
  <2>2. ReadersInv'
    BY <1>1, StreamsAre DEF Git!StreamsDone, ReadersInv, Git!InProgress, Git!TypeOK
  <2>3. NothingLost'
    BY <1>1 DEF Git!StreamsDone, NothingLost, Git!InProgress, Git!Written
  <2>4. QED
    BY <1>1, <2>1, <2>2, <2>3 DEF Git!StreamsDone
<1>2. CASE Git!Wait
  <2>1. /\ cmd = "waiting" /\ cmd' \in {"ok", "error"} /\ child # "running"
        /\ UNCHANGED <<script, wrote, child, helper, delivered>>
    BY <1>2 DEF Git!Wait
  <2>2. reader' = reader
    BY <1>2, <2>1 DEF Git!Wait, ReadersInv, Git!TypeOK
  <2>3. /\ pipe' \in [Git!Streams -> Seq(Nat)]
        /\ \A s \in Git!Streams : pipe'[s] = <<>> /\ Len(pipe'[s]) = 0
    BY <1>2 DEF Git!Wait, Git!Silent
  <2>4. Git!TypeOK'
    <3>1. \A s \in Git!Streams : Len(pipe'[s]) <= PipeSize /\ Len(delivered'[s]) + Len(pipe'[s]) <= wrote'
      BY <2>1, <2>3, CommandsAssumption DEF Git!TypeOK
    <3>2. QED
      BY <2>1, <2>2, <2>3, <3>1 DEF Git!TypeOK
  <2>5. ReadersInv'
    BY <2>1, <2>2, <2>3, StreamsAre DEF ReadersInv, Git!InProgress, Git!TypeOK
  <2>6. NothingLost'
    <3>1. ASSUME NEW s \in Git!Streams, reader[s] # "choked"
          PROVE  Git!InOrder(Git!Written(s), delivered[s] \o pipe'[s])
      <4>1. reader[s] = "done" /\ pipe[s] = <<>>
        BY <2>1, <3>1 DEF ReadersInv, Git!InProgress, Git!TypeOK
      <4>2. QED
        BY <2>3, <3>1, <4>1 DEF NothingLost
    <3>2. QED
      BY <2>1, <2>2, <3>1 DEF NothingLost, Git!InProgress, Git!Written
  <2>7. QED
    BY <2>1, <2>4, <2>5, <2>6
<1>3. QED
  BY <1>1, <1>2

LEMMA GitStream ==
  ASSUME GitInv, NEW s \in Git!Streams, Git!StreamOutput(s)
  PROVE  GitInv' /\ child' = child /\ helper' = helper /\ cmd' = cmd
<1> USE DEF GitInv
<1>1. /\ reader \in [Git!Streams -> {"none", "reading", "done", "choked"}]
      /\ pipe \in [Git!Streams -> Seq(Nat)] /\ delivered \in [Git!Streams -> Seq(Nat)]
      /\ wrote \in Nat
  BY ScriptTypes DEF Git!TypeOK
<1>2. /\ reader[s] = "reading" /\ cmd = "streaming"
      /\ UNCHANGED <<cmd, script, wrote, child, helper>>
  BY DEF Git!StreamOutput, Git!Read, Git!ReadEOF, ReadersInv
<1>3. Git!InOrder(Git!Written(s), delivered[s] \o pipe[s])
  BY <1>2 DEF NothingLost
<1>4. CASE Git!Read(s) /\ ~Git!IsLong(script[Head(pipe[s])])
  <2>1. /\ pipe[s] # <<>> /\ reader' = reader
        /\ delivered' = [delivered EXCEPT ![s] = Append(@, Head(pipe[s]))]
        /\ pipe' = [pipe EXCEPT ![s] = Tail(@)]
    BY <1>4 DEF Git!Read
  <2>2. /\ Head(pipe[s]) \in Nat /\ Tail(pipe[s]) \in Seq(Nat)
        /\ Len(Tail(pipe[s])) = Len(pipe[s]) - 1
        /\ Append(delivered[s], Head(pipe[s])) \in Seq(Nat)
        /\ Len(Append(delivered[s], Head(pipe[s]))) = Len(delivered[s]) + 1
        /\ Append(delivered[s], Head(pipe[s])) \o Tail(pipe[s]) = delivered[s] \o pipe[s]
    BY <1>1, <2>1, HeadMoves
  <2>3. /\ pipe' \in [Git!Streams -> Seq(Nat)] /\ delivered' \in [Git!Streams -> Seq(Nat)]
        /\ \A r \in Git!Streams :
              /\ delivered'[r] \o pipe'[r] = delivered[r] \o pipe[r]
              /\ Len(pipe'[r]) <= PipeSize /\ Len(delivered'[r]) + Len(pipe'[r]) <= wrote
    <3>1. pipe' \in [Git!Streams -> Seq(Nat)] /\ delivered' \in [Git!Streams -> Seq(Nat)]
      BY <1>1, <2>1, <2>2, Zenon
    <3>2. ASSUME NEW r \in Git!Streams
          PROVE  /\ delivered'[r] \o pipe'[r] = delivered[r] \o pipe[r]
                 /\ Len(pipe'[r]) <= PipeSize /\ Len(delivered'[r]) + Len(pipe'[r]) <= wrote
      <4>1. CASE r = s
        <5>1. delivered'[s] = Append(delivered[s], Head(pipe[s])) /\ pipe'[s] = Tail(pipe[s])
          BY <1>1, <2>1, Zenon
        <5>2. Len(pipe[s]) \in Nat /\ Len(delivered[s]) \in Nat
          BY <1>1
        <5>3. Len(pipe[s]) <= PipeSize /\ Len(delivered[s]) + Len(pipe[s]) <= wrote
          BY DEF Git!TypeOK
        <5>4. /\ Len(Tail(pipe[s])) <= PipeSize
              /\ Len(Append(delivered[s], Head(pipe[s]))) + Len(Tail(pipe[s])) <= wrote
          BY <1>1, <2>2, <5>2, <5>3, CommandsAssumption
        <5>5. QED
          BY <2>2, <4>1, <5>1, <5>4, Zenon
      <4>2. CASE r # s
        <5>1. delivered'[r] = delivered[r] /\ pipe'[r] = pipe[r]
          BY <1>1, <2>1, <4>2, Zenon
        <5>2. QED
          BY <5>1 DEF Git!TypeOK
      <4>3. QED
        BY <4>1, <4>2
    <3>3. QED
      BY <3>1, <3>2
  <2>4. Git!TypeOK'
    BY <1>2, <2>1, <2>3 DEF Git!TypeOK
  <2>5. ReadersInv'
    BY <1>1, <1>2, <2>1 DEF ReadersInv, Git!InProgress
  <2>6. NothingLost'
    BY <1>2, <2>1, <2>3 DEF NothingLost, Git!InProgress, Git!Written
  <2>7. QED
    BY <1>2, <2>4, <2>5, <2>6
<1>5. CASE Git!Read(s) /\ Git!IsLong(script[Head(pipe[s])])
  <2>1. pipe[s] # <<>> /\ reader' = [reader EXCEPT ![s] = "choked"] /\ UNCHANGED <<pipe, delivered>>
    BY <1>5 DEF Git!Read
  <2>2. Git!TypeOK'
    BY <1>2, <2>1 DEF Git!TypeOK
  <2>3. ReadersInv'
    BY <1>1, <1>2, <2>1, StreamsAre DEF ReadersInv, Git!InProgress
  <2>4. NothingLost'
    BY <1>1, <1>2, <2>1 DEF NothingLost, Git!InProgress, Git!Written
  <2>5. QED
    BY <1>2, <2>2, <2>3, <2>4
<1>6. CASE Git!ReadEOF(s)
  <2>1. /\ pipe[s] = <<>> /\ child # "running" /\ (s = "stderr" => ~helper)
        /\ reader' = [reader EXCEPT ![s] = "done"] /\ UNCHANGED <<pipe, delivered>>
    BY <1>6 DEF Git!ReadEOF
  <2>2. Git!TypeOK'
    BY <1>2, <2>1 DEF Git!TypeOK
  <2>3. ReadersInv'
    BY <1>1, <1>2, <2>1, StreamsAre DEF ReadersInv, Git!InProgress
  <2>4. NothingLost'
    BY <1>1, <1>2, <2>1 DEF NothingLost, Git!InProgress, Git!Written
  <2>5. QED
    BY <1>2, <2>2, <2>3, <2>4
<1>7. QED
  BY <1>4, <1>5, <1>6 DEF Git!StreamOutput

LEMMA GitProcesses ==
  ASSUME GitInv, Git!Child \/ Git!HelperEnds \/ Git!Kill
  PROVE  GitInv' /\ cmd' = cmd
<1> USE DEF GitInv
<1>1. CASE Git!ChildWrite
  <2>0. script \in Seq(Lines) /\ wrote \in Nat /\ wrote + 1 \in 1..Len(script)
    <3>1. script \in Seq(Lines)
      BY ScriptTypes DEF Git!TypeOK
    <3>2. QED
      BY <1>1, <3>1 DEF Git!TypeOK, Git!ChildWrite, Git!WritesTo
  <2>1. PICK to \in Git!Streams :
            /\ Git!WritesTo(to) /\ Len(pipe[to]) < PipeSize
            /\ pipe' = [pipe EXCEPT ![to] = Append(@, wrote + 1)]
    BY <1>1 DEF Git!ChildWrite
  <2>2. /\ pipe' = [pipe EXCEPT ![to] = Append(@, wrote + 1)]
        /\ Len(pipe[to]) < PipeSize /\ wrote' = wrote + 1 /\ child = "running"
        /\ UNCHANGED <<cmd, script, child, helper, reader, delivered>>
    BY <1>1, <2>1 DEF Git!ChildWrite, Git!WritesTo
  <2>3. pipe \in [Git!Streams -> Seq(Nat)] /\ delivered \in [Git!Streams -> Seq(Nat)]
    BY DEF Git!TypeOK
  <2>4. /\ Append(pipe[to], wrote + 1) \in Seq(Nat)
        /\ Len(Append(pipe[to], wrote + 1)) = Len(pipe[to]) + 1
    BY <2>0, <2>1, <2>3
  <2>5. Git!TypeOK'
    <3>1. pipe' \in [Git!Streams -> Seq(Nat)] /\ wrote' \in 0..Len(script')
      <4>1. wrote' \in 0..Len(script')
        BY <2>0, <2>2
      <4>2. QED
        BY <2>1, <2>2, <2>3, <2>4, <4>1, Zenon
    <3>2. \A s \in Git!Streams : Len(pipe'[s]) <= PipeSize /\ Len(delivered'[s]) + Len(pipe'[s]) <= wrote'
      BY <2>0, <2>1, <2>2, <2>3, <2>4, CommandsAssumption DEF Git!TypeOK
    <3>3. QED
      BY <2>2, <3>1, <3>2 DEF Git!TypeOK
  <2>6. Git!InProgress
    BY <2>2 DEF ReadersInv
  <2>7. ReadersInv'
    BY <2>2, <2>6 DEF ReadersInv, Git!InProgress
  <2>8. NothingLost'
    <3>1. ASSUME NEW s \in Git!Streams
          PROVE  Git!InOrder(Git!Written(s)', delivered'[s] \o pipe'[s])
      <4>1. Git!InOrder(Git!Written(s), delivered[s] \o pipe[s])
        BY <2>6 DEF NothingLost
      <4>2. CASE s = to
        <5>1. Git!Written(s)' = Git!Written(s) \cup {wrote + 1}
          BY <2>0, <2>1, <2>2, <4>2 DEF Git!Written, Git!WritesTo
        <5>2. Git!Written(s) \in SUBSET Nat /\ \A i \in Git!Written(s) : i < wrote + 1
          BY <2>0 DEF Git!Written
        <5>3. Git!InOrder(Git!Written(s) \cup {wrote + 1}, delivered[s] \o Append(pipe[s], wrote + 1))
          <6>1. delivered[s] \in Seq(Nat) /\ pipe[s] \in Seq(Nat) /\ wrote + 1 \in Nat
            BY <2>0, <2>3
          <6>2. QED
            BY <4>1, <5>2, <6>1, NextLine
        <5>4. QED
          BY <2>2, <2>3, <4>2, <5>1, <5>3
      <4>3. CASE s # to
        <5>1. Git!Written(s)' = Git!Written(s)
          BY <2>0, <2>1, <2>2, <4>3 DEF Git!Written, Git!WritesTo
        <5>2. QED
          BY <2>2, <2>3, <4>1, <4>3, <5>1
      <4>4. QED
        BY <4>2, <4>3
    <3>2. QED
      BY <3>1 DEF NothingLost
  <2>9. QED
    BY <2>2, <2>5, <2>7, <2>8
<1>2. CASE Git!ChildExit \/ Git!HelperEnds \/ Git!Kill
  <2>1. /\ child' = child \/ (child = "running" /\ child' \in {"exited", "failed", "killed"})
        /\ helper' = helper \/ helper' = FALSE
        /\ UNCHANGED <<cmd, script, wrote, pipe, reader, delivered>>
    BY <1>2 DEF Git!ChildExit, Git!HelperEnds, Git!Kill
  <2>2. Git!TypeOK'
    BY <2>1 DEF Git!TypeOK
  <2>3. ReadersInv'
    BY <2>1 DEF ReadersInv, Git!InProgress
  <2>4. NothingLost'
    BY <2>1 DEF NothingLost, Git!InProgress, Git!Written
  <2>5. QED
    BY <2>1, <2>2, <2>3, <2>4
<1>3. QED
  BY <1>1, <1>2 DEF Git!Child

LEMMA GitSame ==
  ASSUME GitInv, UNCHANGED gitVars
  PROVE  GitInv'
  BY DEF GitInv, gitVars, Git!TypeOK, ReadersInv, NothingLost, Git!InProgress, Git!Written

-----------------------------------------------------------------------------
(* Paths and trees *)

Plain == STRING \ {".."}

LEMMA EnterKeepsPlain ==
  \A p \in Seq(Plain), name \in STRING : Archive!Enter(p, name) \in Seq(Plain)
<1>1. ASSUME NEW p \in Seq(Plain), NEW name \in STRING
      PROVE  Archive!Enter(p, name) \in Seq(Plain)
  <2>1. CASE name # ".."
    BY <2>1 DEF Archive!Enter, Plain
  <2>2. CASE name = ".." /\ p # <<>>
    <3>1. Len(p) - 1 \in 0..Len(p)
      BY <2>2
    <3>2. SubSeq(p, 1, Len(p) - 1) \in Seq(Plain)
      BY <3>1
    <3>3. QED
      BY <2>2, <3>2 DEF Archive!Enter, Archive!Front
  <2>3. QED
    BY <2>1, <2>2 DEF Archive!Enter
<1>2. QED
  BY <1>1

(* However a name is spelt, its cleaned form leads nowhere else. *)
LEMMA CleanIsPlain ==
  \A path \in Seq(STRING) : Archive!Clean(path) \in Seq(Plain)
<1> SUFFICES ASSUME NEW path \in Seq(STRING) PROVE Archive!Clean(path) \in Seq(Plain)
  OBVIOUS
<1> DEFINE Solves(g) == g = [k \in 0..Len(path) |->
                               IF k = 0 THEN <<>> ELSE Archive!Enter(g[k - 1], path[k])]
           upto == CHOOSE g : Solves(g)
           step == [n \in Nat |-> [p \in Seq(Plain) |->
                      IF n + 1 \in 1..Len(path) THEN Archive!Enter(p, path[n + 1]) ELSE p]]
<1>1. step \in [Nat -> [Seq(Plain) -> Seq(Plain)]]
  <2>1. ASSUME NEW n \in Nat, NEW p \in Seq(Plain)
        PROVE  (IF n + 1 \in 1..Len(path) THEN Archive!Enter(p, path[n + 1]) ELSE p) \in Seq(Plain)
    <3>1. CASE n + 1 \in 1..Len(path)
      <4>1. path[n + 1] \in STRING
        BY <3>1
      <4>2. QED
        BY <3>1, <4>1, EnterKeepsPlain
    <3>2. QED
      BY <3>1
  <2>2. QED
    BY <2>1
<1>2. <<>> \in Seq(Plain) /\ Len(path) \in Nat
  OBVIOUS
<1>3. PICK f \in [Nat -> Seq(Plain)] : Iterates(f, <<>>, step)
  <2> HIDE DEF step
  <2>1. QED
    BY <1>1, <1>2, NatRecursionExists, Zenon
<1>4. /\ f[0] = <<>>
      /\ \A k \in 1..Len(path) : f[k] = Archive!Enter(f[k - 1], path[k])
  <2>1. ASSUME NEW k \in 1..Len(path) PROVE f[k] = Archive!Enter(f[k - 1], path[k])
    <3>1. k - 1 \in Nat /\ (k - 1) + 1 = k
      OBVIOUS
    <3>2. f[k] = step[k - 1][f[k - 1]]
      BY <1>3, <3>1 DEF Iterates
    <3>3. QED
      BY <3>1, <3>2
  <2>2. QED
    BY <1>3, <2>1 DEF Iterates
<1>5. Solves([k \in 0..Len(path) |-> f[k]])
  <2> DEFINE g == [k \in 0..Len(path) |-> f[k]]
  <2>1. ASSUME NEW k \in 0..Len(path)
        PROVE  g[k] = IF k = 0 THEN <<>> ELSE Archive!Enter(g[k - 1], path[k])
    <3>1. CASE k = 0
      BY <1>4, <3>1
    <3>2. CASE k # 0
      <4>1. k \in 1..Len(path) /\ k - 1 \in 0..Len(path)
        BY <1>2, <3>2
      <4>2. QED
        BY <1>4, <3>2, <4>1
    <3>3. QED
      BY <3>1, <3>2
  <2>2. QED
    BY <2>1
<1>6. Solves(upto)
  <2> HIDE DEF Solves
  <2>1. QED
    BY <1>5
<1>7. \A k \in Nat : k \in 0..Len(path) => upto[k] \in Seq(Plain)
  <2> DEFINE S == {k \in Nat : k \in 0..Len(path) => upto[k] \in Seq(Plain)}
  <2>0. /\ upto[0] = <<>>
        /\ \A k \in 0..Len(path) : k # 0 => upto[k] = Archive!Enter(upto[k - 1], path[k])
    <3> HIDE DEF upto
    <3>1. \A k \in 0..Len(path) :
             upto[k] = IF k = 0 THEN <<>> ELSE Archive!Enter(upto[k - 1], path[k])
      BY <1>6
    <3>2. 0 \in 0..Len(path)
      BY <1>2
    <3>3. QED
      BY <3>1, <3>2
  <2> HIDE DEF upto, Solves
  <2>1. 0 \in S
    BY <1>2, <2>0
  <2>2. ASSUME NEW k \in Nat, k \in S PROVE k + 1 \in S
    <3>1. CASE k + 1 \in 0..Len(path)
      <4>1. k \in 0..Len(path) /\ k + 1 # 0 /\ (k + 1) - 1 = k /\ path[k + 1] \in STRING
        BY <1>2, <3>1
      <4>2. upto[k + 1] = Archive!Enter(upto[k], path[k + 1])
        BY <2>0, <3>1, <4>1
      <4>3. upto[k] \in Seq(Plain)
        BY <2>2, <4>1
      <4>4. upto[k + 1] \in Seq(Plain)
        BY <4>1, <4>2, <4>3, EnterKeepsPlain
      <4>5. QED
        BY <4>4
    <3>2. QED
      BY <3>1
  <2> HIDE DEF S
  <2>3. \A k \in Nat : k \in S
    BY <2>1, <2>2, NatSetInduction
  <2>4. QED
    BY <2>3 DEF S
<1>8. Archive!Clean(path) = upto[Len(path)]
  BY DEF Archive!Clean
<1> HIDE DEF upto
<1>9. QED
  BY <1>2, <1>7, <1>8

(* The directories from the root to p. *)
LEMMA UptoFacts ==
  ASSUME NEW p \in Seq(Plain)
  PROVE  /\ p \in Archive!Upto(p) /\ <<>> \in Archive!Upto(p)
         /\ \A q \in Archive!Upto(p) : q \in Seq(Plain) /\ Archive!Upto(q) \subseteq Archive!Upto(p)
<1>1. \A k \in 0..Len(p) : SubSeq(p, 1, k) \in Seq(Plain) /\ Len(SubSeq(p, 1, k)) = k
  OBVIOUS
<1>2. SubSeq(p, 1, Len(p)) = p /\ SubSeq(p, 1, 0) = <<>>
  OBVIOUS
<1>3. p \in Archive!Upto(p) /\ <<>> \in Archive!Upto(p)
  <2>1. 0 \in 0..Len(p) /\ Len(p) \in 0..Len(p)
    OBVIOUS
  <2>2. QED
    BY <1>2, <2>1, Zenon DEF Archive!Upto
<1>4. ASSUME NEW k \in 0..Len(p), NEW j \in 0..k
      PROVE  SubSeq(SubSeq(p, 1, k), 1, j) = SubSeq(p, 1, j)
  <2> DEFINE a == SubSeq(SubSeq(p, 1, k), 1, j)
             b == SubSeq(p, 1, j)
  <2>1. a \in Seq(Plain) /\ b \in Seq(Plain) /\ Len(a) = j /\ Len(b) = j
    BY <1>1
  <2>2. \A i \in 1..j : a[i] = b[i]
    BY <1>1
  <2> HIDE DEF a, b
  <2>3. a = b
    BY <2>1, <2>2
  <2>4. QED
    BY <2>3 DEF a, b
<1>5. ASSUME NEW q \in Archive!Upto(p)
      PROVE  q \in Seq(Plain) /\ Archive!Upto(q) \subseteq Archive!Upto(p)
  <2>1. PICK k \in 0..Len(p) : q = SubSeq(p, 1, k)
    BY DEF Archive!Upto
  <2>2. \A j \in 0..k : SubSeq(q, 1, j) = SubSeq(p, 1, j) /\ j \in 0..Len(p)
    BY <1>4, <2>1
  <2>3. Len(q) = k
    BY <1>1, <2>1
  <2>4. QED
    BY <1>1, <2>1, <2>2, <2>3 DEF Archive!Upto
<1>6. QED
  BY <1>3, <1>5

(* A path has the directories of its parent above it. *)
LEMMA UptoFront ==
  ASSUME NEW p \in Seq(Plain), p # <<>>
  PROVE  /\ Archive!Front(p) \in Seq(Plain)
         /\ Archive!Upto(p) = Archive!Upto(Archive!Front(p)) \cup {p}
<1>1. Len(p) - 1 \in 0..Len(p) /\ Len(p) \in Nat /\ Len(p) # 0
  OBVIOUS
<1>2. Archive!Front(p) = SubSeq(p, 1, Len(p) - 1)
  BY DEF Archive!Front
<1>3. Archive!Front(p) \in Seq(Plain) /\ Len(Archive!Front(p)) = Len(p) - 1
  <2>1. \A k \in 0..Len(p) : SubSeq(p, 1, k) \in Seq(Plain) /\ Len(SubSeq(p, 1, k)) = k
    OBVIOUS
  <2>2. QED
    BY <1>1, <1>2, <2>1, Zenon
<1>4. SubSeq(p, 1, Len(p)) = p
  OBVIOUS
<1>5. Archive!Front(p) \in Archive!Upto(p)
  BY <1>1, <1>2 DEF Archive!Upto
<1>6. ASSUME NEW k \in 0..(Len(p) - 1) PROVE SubSeq(Archive!Front(p), 1, k) = SubSeq(p, 1, k)
  <2> DEFINE a == SubSeq(Archive!Front(p), 1, k)
             b == SubSeq(p, 1, k)
  <2>1. a \in Seq(Plain) /\ b \in Seq(Plain) /\ Len(a) = k /\ Len(b) = k
    BY <1>1, <1>3
  <2>2. \A i \in 1..k : a[i] = b[i]
    BY <1>1, <1>2, <1>3
  <2> HIDE DEF a, b
  <2>3. a = b
    BY <2>1, <2>2
  <2>4. QED
    BY <2>3 DEF a, b
<1>7. \A k \in 0..Len(p) : k \in 0..(Len(p) - 1) \/ k = Len(p)
  BY <1>1
<1>8. 0..(Len(p) - 1) \subseteq 0..Len(p) /\ Len(p) \in 0..Len(p)
  BY <1>1
<1>9. QED
  BY <1>3, <1>4, <1>6, <1>7, <1>8, Zenon DEF Archive!Upto

LEMMA FrontBelow ==
  ASSUME NEW p \in Seq(Plain), p # <<>>
  PROVE  p \notin Archive!Upto(Archive!Front(p))
<1>1. Len(p) - 1 \in 0..Len(p) /\ Len(p) \in Nat
  OBVIOUS
<1>2. \A k \in 0..Len(p) : SubSeq(p, 1, k) \in Seq(Plain) /\ Len(SubSeq(p, 1, k)) = k
  OBVIOUS
<1>3. Archive!Front(p) \in Seq(Plain) /\ Len(Archive!Front(p)) = Len(p) - 1
  BY <1>1, <1>2 DEF Archive!Front
<1>4. \A k \in 0..(Len(p) - 1) : Len(SubSeq(Archive!Front(p), 1, k)) = k
  BY <1>1, <1>3
<1>5. \A k \in 0..(Len(p) - 1) : k # Len(p)
  BY <1>1
<1>6. QED
  BY <1>3, <1>4, <1>5 DEF Archive!Upto

-----------------------------------------------------------------------------
(* Unpacking *)

LEMMA ArtifactTypes ==
  ASSUME NEW a \in Artifacts \cup {Archive!Unknown}
  PROVE  /\ a.entries \in Seq([path : Seq(STRING), type : Archive!Types])
         /\ a.intact \in Nat /\ Len(a.entries) \in Nat /\ a.intact <= Len(a.entries)
         /\ \A i \in 1..Len(a.entries) : a.entries[i].path \in Seq(STRING)
<1> DEFINE E == [path : Seq(STRING), type : Archive!Types]
<1>0. \A s \in Seq(E) : Len(s) \in Nat /\ \A i \in 1..Len(s) : s[i].path \in Seq(STRING)
  <2>1. \A e \in E : e.path \in Seq(STRING)
    OBVIOUS
  <2> HIDE DEF E
  <2>2. \A s \in Seq(E) : Len(s) \in Nat /\ \A i \in 1..Len(s) : s[i] \in E
    OBVIOUS
  <2>3. QED
    BY <2>1, <2>2
<1>1. CASE a \in Artifacts
  <2>1. a.entries \in Seq(E) /\ a.intact \in Nat /\ a.intact <= Len(a.entries)
    BY <1>1, ArtifactsAssumption DEF Archive!Artifact
  <2>2. QED
    BY <1>0, <2>1
<1>2. CASE a = Archive!Unknown
  <2>1. a.entries = <<>> /\ a.intact = 0
    BY <1>2 DEF Archive!Unknown
  <2>2. <<>> \in Seq(E) /\ Len(<<>>) = 0 /\ 0 \in Nat /\ 0 <= 0
    OBVIOUS
  <2> HIDE DEF E
  <2>3. a.entries \in Seq(E) /\ Len(a.entries) = 0 /\ a.intact = 0
    BY <2>1, <2>2, Zenon
  <2>4. QED
    BY <1>0, <2>3 DEF E
<1>3. QED
  BY <1>1, <1>2

(* A tree whose paths are cleaned paths. *)
PlainTree(t) == Archive!IsTree(t) /\ \A p \in DOMAIN t : p \in Seq(Plain)

(* Everything below an entry with a path is below that path's root, and what *)
(* is a file has its entry's directories with it.                           *)
LEMMA FilesArePaths ==
  ASSUME NEW a \in Artifacts \cup {Archive!Unknown}, NEW n \in 0..Len(a.entries), NEW p,
         Archive!Files(a, n, p) # {}
  PROVE  p \in Archive!Paths(a, n)
<1>1. PICK i \in 1..n : a.entries[i].type = "reg" /\ Archive!Clean(a.entries[i].path) = p
  BY DEF Archive!Files
<1>2. a.entries[i].path \in Seq(STRING)
  BY ArtifactTypes
<1>3. p \in Archive!Upto(p)
  BY <1>1, <1>2, CleanIsPlain, UptoFacts
<1>4. QED
  BY <1>1, <1>3 DEF Archive!Paths

(* What one more entry adds to what the archive holds. *)
LEMMA OneMoreEntry ==
  ASSUME NEW a \in Artifacts \cup {Archive!Unknown}, NEW n \in 0..Len(a.entries),
         n < Len(a.entries)
  PROVE  LET e == a.entries[n + 1]
             p == Archive!Clean(e.path)
         IN  /\ n + 1 \in 0..Len(a.entries) /\ p \in Seq(Plain)
             /\ Archive!Paths(a, n + 1) =
                    Archive!Paths(a, n) \cup (IF e.type = "link" THEN {} ELSE Archive!Upto(p))
             /\ \A q : Archive!Files(a, n + 1, q) =
                    Archive!Files(a, n, q) \cup (IF e.type = "reg" /\ p = q THEN {n + 1} ELSE {})
<1> DEFINE e == a.entries[n + 1]
           p == Archive!Clean(e.path)
           N == {k \in 1..n : a.entries[k].type # "link"}
           N1 == {k \in 1..(n + 1) : a.entries[k].type # "link"}
<1>1. n \in Nat /\ n + 1 \in 1..Len(a.entries) /\ n + 1 \in 0..Len(a.entries)
  BY ArtifactTypes
<1>2. p \in Seq(Plain)
  <2>1. a.entries[n + 1].path \in Seq(STRING)
    BY <1>1, ArtifactTypes
  <2>2. QED
    BY <2>1, CleanIsPlain
<1>3. \A k : k \in 1..(n + 1) <=> (k \in 1..n \/ k = n + 1)
  BY <1>1
<1>4. N1 = N \cup (IF e.type = "link" THEN {} ELSE {n + 1})
  BY <1>3
<1>5. Archive!Paths(a, n + 1) =
          Archive!Paths(a, n) \cup (IF e.type = "link" THEN {} ELSE Archive!Upto(p))
  <2> DEFINE U(i) == Archive!Upto(Archive!Clean(a.entries[i].path))
  <2>1. Archive!Paths(a, n) = {<<>>} \cup UNION {U(i) : i \in N}
    BY DEF Archive!Paths
  <2>2. Archive!Paths(a, n + 1) = {<<>>} \cup UNION {U(i) : i \in N1}
    BY DEF Archive!Paths
  <2>3. U(n + 1) = Archive!Upto(p)
    OBVIOUS
  <2> HIDE DEF U, N, N1, e, p
  <2>4. QED
    BY <1>4, <2>1, <2>2, <2>3
<1>6. \A q : Archive!Files(a, n + 1, q) =
          Archive!Files(a, n, q) \cup (IF e.type = "reg" /\ p = q THEN {n + 1} ELSE {})
  BY <1>3 DEF Archive!Files
<1>7. QED
  BY <1>1, <1>2, <1>5, <1>6

(* MkdirAll makes a tree of a tree, and adds directories only. *)
LEMMA MkdirAllTree ==
  ASSUME NEW t, PlainTree(t), NEW p \in Seq(Plain), Archive!CanMkdirAll(t, p)
  PROVE  PlainTree(Archive!MkdirAll(t, p))
<1> DEFINE u == Archive!MkdirAll(t, p)
<1>1. /\ DOMAIN u = DOMAIN t \cup Archive!Upto(p)
      /\ \A q \in DOMAIN t : u[q] = t[q]
      /\ \A q \in Archive!Upto(p) : u[q] = Archive!Dir
  BY DEF Archive!MkdirAll, Archive!CanMkdirAll, Archive!IsFile
<1>2. \A q \in DOMAIN u : q \in Seq(Plain)
  BY <1>1, UptoFacts DEF PlainTree
<1> HIDE DEF u
<1>3. ASSUME NEW q \in DOMAIN u, NEW r \in Archive!Upto(q) \ {q} PROVE Archive!IsDir(u, r)
  <2>1. CASE q \in DOMAIN t
    BY <1>1, <1>3, <2>1 DEF PlainTree, Archive!IsTree, Archive!IsDir
  <2>2. CASE q \in Archive!Upto(p)
    <3>1. r \in Archive!Upto(p)
      BY <1>3, <2>2, UptoFacts
    <3>2. QED
      BY <1>1, <3>1 DEF Archive!IsDir
  <2>3. QED
    BY <1>1, <2>1, <2>2
<1>4. ASSUME NEW q \in DOMAIN u, NEW k \in 1..Len(q) PROVE q[k] # ".."
  <2>1. q \in Seq(Plain)
    BY <1>2
  <2>2. QED
    BY <1>4, <2>1 DEF Plain
<1>5. QED
  BY <1>2, <1>3, <1>4 DEF PlainTree, Archive!IsTree, u

(* So does a file where no directory is, below one that is there. *)
LEMMA WriteFileTree ==
  ASSUME NEW t, PlainTree(t), NEW p \in Seq(Plain), NEW n, ~Archive!IsDir(t, p),
         \A q \in Archive!Upto(p) \ {p} : Archive!IsDir(t, q)
  PROVE  PlainTree(Archive!WriteFile(t, p, n))
<1> DEFINE u == Archive!WriteFile(t, p, n)
<1>1. DOMAIN u = DOMAIN t \cup {p} /\ \A q \in DOMAIN t : q # p => u[q] = t[q]
  BY DEF Archive!WriteFile
<1>2. \A q \in DOMAIN u : q \in Seq(Plain)
  BY <1>1 DEF PlainTree
<1> HIDE DEF u
<1>3. ASSUME NEW q \in DOMAIN u, NEW r \in Archive!Upto(q) \ {q} PROVE Archive!IsDir(u, r)
  <2>1. Archive!IsDir(t, r)
    BY <1>1, <1>3 DEF PlainTree, Archive!IsTree
  <2>2. r # p
    BY <2>1
  <2>3. QED
    BY <1>1, <2>1, <2>2 DEF Archive!IsDir
<1>4. ASSUME NEW q \in DOMAIN u, NEW k \in 1..Len(q) PROVE q[k] # ".."
  <2>1. q \in Seq(Plain)
    BY <1>2
  <2>2. QED
    BY <1>4, <2>1 DEF Plain
<1>5. QED
  BY <1>2, <1>3, <1>4 DEF PlainTree, Archive!IsTree, u

(* What has been unpacked so far is what the entries passed so far hold. *)
UnpackedSoFar ==
    /\ unpacked <= artifact.intact
    /\ tree = Archive!Contents(artifact, unpacked)
    /\ PlainTree(tree)
    /\ fetch = "done" => unpacked = Len(artifact.entries)
    /\ fetch \in {"idle", "url"} => unpacked = 0

ArchiveInv == Archive!TypeOK /\ UnpackedSoFar

(* With no entry passed there is the root only. *)
LEMMA NothingUnpacked ==
  ASSUME NEW a \in Artifacts \cup {Archive!Unknown}
  PROVE  /\ Archive!Contents(a, 0) = Archive!Empty /\ PlainTree(Archive!Empty)
         /\ 0 \in 0..Len(a.entries) /\ 0 <= a.intact
         /\ \A p \in DOMAIN Archive!Empty : Archive!Empty[p] \in 0..0
<1>1. Len(a.entries) \in Nat /\ a.intact \in Nat
  BY ArtifactTypes
<1>2. Archive!Paths(a, 0) = {<<>>} /\ \A p : Archive!Files(a, 0, p) = {}
  BY DEF Archive!Paths, Archive!Files
<1>3. Archive!Contents(a, 0) = Archive!Empty
  BY <1>2 DEF Archive!Contents, Archive!Empty
<1>4. DOMAIN Archive!Empty = {<<>>} /\ Archive!Empty[<<>>] = 0
  BY DEF Archive!Empty, Archive!Dir
<1>5. PlainTree(Archive!Empty)
  <2>1. <<>> \in Seq(Plain) /\ Len(<<>>) = 0
    OBVIOUS
  <2>2. Archive!Upto(<<>>) = {<<>>}
    <3>1. SubSeq(<<>>, 1, 0) = <<>> /\ 0..0 = {0}
      BY <2>1
    <3>2. QED
      BY <2>1, <3>1 DEF Archive!Upto
  <2>3. QED
    BY <1>4, <2>1, <2>2 DEF PlainTree, Archive!IsTree
<1>6. QED
  BY <1>1, <1>3, <1>4, <1>5

LEMMA ArchiveInit == Archive!Init => ArchiveInv
<1> SUFFICES ASSUME Archive!Init PROVE ArchiveInv
  OBVIOUS
<1>1. artifact = Archive!Unknown /\ fetch = "idle" /\ unpacked = 0 /\ tree = Archive!Empty
  BY DEF Archive!Init
<1>2. QED
  BY <1>1, NothingUnpacked DEF ArchiveInv, Archive!TypeOK, UnpackedSoFar

(* One turn of the loop makes what n entries hold to what n + 1 hold. *)
LEMMA ExtractStep ==
  ASSUME ArchiveInv, Archive!Extract
  PROVE  ArchiveInv'
<1> DEFINE a == artifact
           n == unpacked
           e == a.entries[n + 1]
           p == Archive!Clean(e.path)
<1>1. /\ a \in Artifacts \cup {Archive!Unknown} /\ n \in 0..Len(a.entries) /\ n < Len(a.entries)
      /\ n < a.intact /\ fetch = "unpacking" /\ tree = Archive!Contents(a, n) /\ PlainTree(tree)
      /\ n \in Nat /\ a.intact \in Nat /\ \A q \in DOMAIN tree : tree[q] \in 0..n
  BY ArtifactTypes DEF ArchiveInv, Archive!TypeOK, UnpackedSoFar, Archive!Extract, Archive!More
<1>2. /\ artifact' = a /\ fetch' = fetch /\ unpacked' = n + 1
      /\ Archive!ExtractDir(p) \/ Archive!ExtractFile(p) \/ Archive!SkipEntry
  BY DEF Archive!Extract, Archive!Entry
<1>3. /\ n + 1 \in 0..Len(a.entries) /\ p \in Seq(Plain)
      /\ Archive!Paths(a, n + 1) =
             Archive!Paths(a, n) \cup (IF e.type = "link" THEN {} ELSE Archive!Upto(p))
      /\ \A q : Archive!Files(a, n + 1, q) =
             Archive!Files(a, n, q) \cup (IF e.type = "reg" /\ p = q THEN {n + 1} ELSE {})
  BY <1>1, OneMoreEntry, Zenon
<1>4. /\ DOMAIN tree = Archive!Paths(a, n)
      /\ \A q \in Archive!Paths(a, n) :
             tree[q] = IF Archive!Files(a, n, q) = {} THEN Archive!Dir
                       ELSE Archive!Max(Archive!Files(a, n, q))
  BY <1>1 DEF Archive!Contents
<1>5. \A q : q \notin Archive!Paths(a, n) => Archive!Files(a, n, q) = {}
  BY <1>1, FilesArePaths
<1> SUFFICES /\ tree' = Archive!Contents(a, n + 1)
             /\ PlainTree(tree')
             /\ \A q \in DOMAIN tree' : tree'[q] \in 0..(n + 1)
  BY <1>1, <1>2, <1>3 DEF ArchiveInv, Archive!TypeOK, UnpackedSoFar
<1> HIDE DEF e, p
<1>6. CASE Archive!ExtractDir(p)
  <2>1. e.type = "dir" /\ Archive!CanMkdirAll(tree, p) /\ tree' = Archive!MkdirAll(tree, p)
    BY <1>6 DEF Archive!ExtractDir, Archive!Entry, e
  <2>2. PlainTree(tree')
    BY <1>1, <1>3, <2>1, MkdirAllTree
  <2>3. /\ DOMAIN tree' = DOMAIN tree \cup Archive!Upto(p)
        /\ \A q \in DOMAIN tree' : tree'[q] = IF q \in DOMAIN tree THEN tree[q] ELSE Archive!Dir
    BY <2>1 DEF Archive!MkdirAll
  <2>4. /\ Archive!Paths(a, n + 1) = DOMAIN tree'
        /\ \A q : Archive!Files(a, n + 1, q) = Archive!Files(a, n, q)
    BY <1>3, <1>4, <2>1, <2>3
  <2>5. tree' = Archive!Contents(a, n + 1)
    <3>1. tree' = [q \in DOMAIN tree' |-> tree'[q]]
      BY <2>1 DEF Archive!MkdirAll
    <3>2. \A q \in DOMAIN tree' :
             tree'[q] = IF Archive!Files(a, n + 1, q) = {} THEN Archive!Dir
                        ELSE Archive!Max(Archive!Files(a, n + 1, q))
      BY <1>4, <1>5, <2>3, <2>4
    <3>3. QED
      BY <2>4, <3>1, <3>2 DEF Archive!Contents
  <2>6. \A q \in DOMAIN tree' : tree'[q] \in 0..(n + 1)
    BY <1>1, <2>3 DEF Archive!Dir
  <2>7. QED
    BY <2>2, <2>5, <2>6
<1>7. CASE Archive!ExtractFile(p)
  <2> DEFINE t == Archive!MkdirAll(tree, Archive!Front(p))
  <2>1. /\ e.type = "reg" /\ p # <<>> /\ Archive!CanMkdirAll(tree, Archive!Front(p))
        /\ ~Archive!IsDir(tree, p) /\ tree' = Archive!WriteFile(t, p, n + 1)
    BY <1>7 DEF Archive!ExtractFile, Archive!Entry, e
  <2>2. Archive!Front(p) \in Seq(Plain) /\ Archive!Upto(p) = Archive!Upto(Archive!Front(p)) \cup {p}
    BY <1>3, <2>1, UptoFront
  <2>3. /\ DOMAIN t = DOMAIN tree \cup Archive!Upto(Archive!Front(p))
        /\ \A q \in DOMAIN t : t[q] = IF q \in DOMAIN tree THEN tree[q] ELSE Archive!Dir
    BY DEF Archive!MkdirAll
  <2>4. PlainTree(t)
    BY <1>1, <2>1, <2>2, MkdirAllTree
  <2>5. \A q \in Archive!Upto(Archive!Front(p)) : Archive!IsDir(t, q)
    BY <2>1, <2>3 DEF Archive!CanMkdirAll, Archive!IsFile, Archive!IsDir
  <2>6. p \notin Archive!Upto(Archive!Front(p))
    BY <1>3, <2>1, FrontBelow
  <2>7. ~Archive!IsDir(t, p)
    BY <2>1, <2>3, <2>6 DEF Archive!IsDir
  <2> HIDE DEF t
  <2>8. PlainTree(tree')
    BY <1>3, <2>1, <2>2, <2>4, <2>5, <2>7, WriteFileTree
  <2>9. /\ DOMAIN tree' = DOMAIN t \cup {p} /\ tree'[p] = n + 1
        /\ \A q \in DOMAIN t : q # p => tree'[q] = t[q]
    BY <2>1 DEF Archive!WriteFile
  <2>10. /\ Archive!Paths(a, n + 1) = DOMAIN tree'
         /\ \A q : q # p => Archive!Files(a, n + 1, q) = Archive!Files(a, n, q)
         /\ Archive!Files(a, n + 1, p) = Archive!Files(a, n, p) \cup {n + 1}
    BY <1>3, <1>4, <2>1, <2>2, <2>3, <2>9
  <2>11. Archive!Max(Archive!Files(a, n + 1, p)) = n + 1
    <3>1. \A i \in Archive!Files(a, n, p) : i \in 1..n
      BY DEF Archive!Files
    <3>2. /\ n + 1 \in Archive!Files(a, n + 1, p)
          /\ \A i \in Archive!Files(a, n + 1, p) : i \in Int /\ n + 1 >= i
      BY <1>1, <2>10, <3>1
    <3>3. \A m \in Archive!Files(a, n + 1, p) :
              (\A i \in Archive!Files(a, n + 1, p) : m >= i) => m = n + 1
      BY <1>1, <3>2
    <3>4. QED
      BY <3>2, <3>3 DEF Archive!Max
  <2>12. tree' = Archive!Contents(a, n + 1)
    <3>1. tree' = [q \in DOMAIN tree' |-> tree'[q]]
      BY <2>1 DEF Archive!WriteFile
    <3>2. ASSUME NEW q \in DOMAIN tree'
          PROVE  tree'[q] = IF Archive!Files(a, n + 1, q) = {} THEN Archive!Dir
                            ELSE Archive!Max(Archive!Files(a, n + 1, q))
      <4>1. CASE q = p
        BY <2>9, <2>10, <2>11, <4>1
      <4>2. CASE q # p
        BY <1>4, <1>5, <2>3, <2>9, <2>10, <4>2
      <4>3. QED
        BY <4>1, <4>2
    <3>3. QED
      BY <2>10, <3>1, <3>2 DEF Archive!Contents
  <2>13. \A q \in DOMAIN tree' : tree'[q] \in 0..(n + 1)
    BY <1>1, <2>3, <2>9 DEF Archive!Dir
  <2>14. QED
    BY <2>8, <2>12, <2>13
<1>8. CASE Archive!SkipEntry
  <2>1. e.type = "link" /\ tree' = tree
    BY <1>8 DEF Archive!SkipEntry, Archive!Entry, e
  <2>2. /\ Archive!Paths(a, n + 1) = Archive!Paths(a, n)
        /\ \A q : Archive!Files(a, n + 1, q) = Archive!Files(a, n, q)
    BY <1>3, <2>1
  <2>3. Archive!Contents(a, n + 1) = Archive!Contents(a, n)
    BY <2>2 DEF Archive!Contents
  <2>4. QED
    BY <1>1, <2>1, <2>3
<1>9. QED
  BY <1>2, <1>6, <1>7, <1>8

LEMMA ArchiveStep ==
  ASSUME ArchiveInv, Archive!RequestURL \/ Archive!DownloadAndExtract
  PROVE  ArchiveInv'
<1> USE DEF ArchiveInv
<1>1. CASE Archive!RequestURL
  <2>1. /\ artifact' \in Artifacts \cup {Archive!Unknown} /\ unpacked = 0 /\ unpacked' = 0
        /\ tree' = tree /\ fetch' \in {"url", "failed"} /\ artifact \in Artifacts \cup {Archive!Unknown}
    BY <1>1 DEF Archive!RequestURL, UnpackedSoFar, Archive!TypeOK
  <2>2. tree = Archive!Empty
    BY <2>1, NothingUnpacked DEF UnpackedSoFar
  <2>3. QED
    BY <2>1, <2>2, NothingUnpacked DEF Archive!TypeOK, UnpackedSoFar
<1>2. CASE Archive!Extract
  BY <1>2, ExtractStep
<1>3. CASE Archive!Download \/ Archive!ExtractFails \/ Archive!Finish
  <2>1. UNCHANGED <<artifact, unpacked, tree>> /\ fetch' \in {"unpacking", "done", "failed"}
    BY <1>3 DEF Archive!Download, Archive!ExtractFails, Archive!Finish
  <2>2. fetch' = "done" => unpacked = Len(artifact.entries)
    <3>1. Len(artifact.entries) \in Nat
      BY ArtifactTypes DEF Archive!TypeOK
    <3>2. QED
      BY <1>3, <3>1 DEF Archive!Download, Archive!ExtractFails, Archive!Finish, Archive!More, Archive!TypeOK
  <2>3. QED
    BY <2>1, <2>2 DEF Archive!TypeOK, UnpackedSoFar
<1>4. QED
  BY <1>1, <1>2, <1>3 DEF Archive!DownloadAndExtract

LEMMA ArchiveSame ==
  ASSUME ArchiveInv, UNCHANGED archiveVars
  PROVE  ArchiveInv'
  BY DEF ArchiveInv, archiveVars, Archive!TypeOK, UnpackedSoFar

-----------------------------------------------------------------------------
(* executeJob *)

(* Where the archive is unpacked, and that the scan follows the last entry.  *)
ArchiveInTurn ==
    /\ pc \in {"token", "detail", "start", "git", "checkout", "resolve", "archive"} => fetch = "idle"
    /\ pc = "extract" <=> fetch \in {"url", "unpacking"}
    /\ pc \in {"beat", "scan"} => fetch \in {"idle", "done"}

JobInv ==
    /\ TypeOK /\ GitInv /\ ArchiveInv
    /\ ReportChosen /\ ReportsAreTrue /\ BeatInv /\ DirInv /\ CommandsInTurn /\ ArchiveInTurn

LEMMA JobInvInit == Init => JobInv
<1> SUFFICES ASSUME Init PROVE JobInv
  OBVIOUS
<1>1. GitInv /\ ArchiveInv
  BY GitInit, ArchiveInit DEF Init
<1>2. TypeOK
  <2>1. Git!TypeOK /\ Archive!TypeOK
    BY <1>1 DEF GitInv, ArchiveInv
  <2>2. ctxDone \in BOOLEAN /\ hbCancelled \in BOOLEAN
    BY Zenon DEF Init
  <2>3. commands \in 0..MaxCommands
    BY CommandsAssumption DEF Init
  <2>4. QED
    BY <2>1, <2>2, <2>3 DEF Init, TypeOK
<1>3. ReportChosen /\ ReportsAreTrue /\ BeatInv /\ DirInv
  BY DEF Init, ReportChosen, ReportsAreTrue, BeatInv, DirInv, BeforeBeat, Terminal
<1>4. CommandsInTurn /\ ArchiveInTurn
  BY DEF Init, CommandsInTurn, ArchiveInTurn, Git!Init, Git!InProgress, Archive!Init
<1>5. QED
  BY <1>1, <1>2, <1>3, <1>4 DEF JobInv

(* The steps of executeJob and around it that are no part of Exec or of the  *)
(* download.                                                                *)
Plainly ==
    \/ CreateJobToken \/ GetJobDetail \/ ReportStarted \/ PrepareDir
    \/ CheckoutFails \/ CheckoutDone \/ Resolved
    \/ StartHeartbeat \/ ScanReturns \/ ScanPanics \/ CancelHeartbeat
    \/ ReportCompleted \/ ReportFailed \/ Cleanup
    \/ HeartbeatExit \/ Reclaim \/ CancelContext \/ UNCHANGED vars

LEMMA StepKinds ==
  ASSUME [Next]_vars
  PROVE  \/ Plainly \/ RunCommand \/ AwaitCommand \/ Command \/ RequestURL \/ ExtractArchive
  BY DEF Next, Execute, Plainly

LEMMA PlainlyLeaves == Plainly => UNCHANGED repoVars
  BY DEF Plainly, CreateJobToken, GetJobDetail, ReportStarted, PrepareDir, CheckoutFails,
     CheckoutDone, Resolved, StartHeartbeat, ScanReturns, ScanPanics, CancelHeartbeat,
     ReportCompleted, ReportFailed, Report, Cleanup, HeartbeatExit, Reclaim, CancelContext, vars

LEMMA GitStep ==
  ASSUME GitInv, [Next]_vars
  PROVE  GitInv'
<1>1. CASE Plainly
  BY <1>1, PlainlyLeaves, GitSame DEF repoVars
<1>2. CASE RunCommand
  BY <1>2, GitStart, GitStartFails DEF RunCommand
<1>3. CASE AwaitCommand
  BY <1>3, GitAwaited DEF AwaitCommand
<1>4. CASE Command
  BY <1>4, GitStream, GitProcesses DEF Command, StreamOutput, Child, HelperEnds, Kill
<1>5. CASE RequestURL \/ ExtractArchive
  BY <1>5, GitSame DEF RequestURL, ExtractArchive
<1>6. QED
  BY <1>1, <1>2, <1>3, <1>4, <1>5, StepKinds

LEMMA ArchiveNext ==
  ASSUME ArchiveInv, [Next]_vars
  PROVE  ArchiveInv'
<1>1. CASE Plainly
  BY <1>1, PlainlyLeaves, ArchiveSame DEF repoVars
<1>2. CASE RunCommand \/ AwaitCommand \/ Command
  BY <1>2, ArchiveSame DEF RunCommand, AwaitCommand, Command, StreamOutput, Child, HelperEnds,
     Kill, notGit
<1>3. CASE RequestURL \/ ExtractArchive
  BY <1>3, ArchiveStep DEF RequestURL, ExtractArchive
<1>4. QED
  BY <1>1, <1>2, <1>3, StepKinds

LEMMA CommandLeaves ==
  RunCommand \/ AwaitCommand \/ Command =>
      UNCHANGED <<pc, scan, ret, ctxDone, hb, hbCancelled, dir, server, log, fetch>>
  BY DEF RunCommand, AwaitCommand, Command, StreamOutput, Child, HelperEnds, Kill, notGit, archiveVars

LEMMA TypeStep ==
  ASSUME JobInv, [Next]_vars, Git!TypeOK', Archive!TypeOK'
  PROVE  TypeOK'
<1> USE DEF JobInv, TypeOK, Goto
<1>1. CASE \/ CreateJobToken \/ GetJobDetail \/ PrepareDir \/ CheckoutFails \/ CheckoutDone
           \/ Resolved \/ StartHeartbeat \/ ScanReturns \/ ScanPanics \/ CancelHeartbeat \/ Cleanup
  BY <1>1 DEF CreateJobToken, GetJobDetail, PrepareDir, CheckoutFails, CheckoutDone, Resolved,
     StartHeartbeat, ScanReturns, ScanPanics, CancelHeartbeat, Cleanup, RemoveDir, repoVars
<1>2. CASE ReportStarted
  BY <1>2, TargetsAssumption DEF ReportStarted, repoVars
<1>3. CASE ReportCompleted \/ ReportFailed
  <2>1. /\ pc' = "cleanup" /\ ret' \in {"nil", "error"}
        /\ server' \in {server, "completed", "failed"}
        /\ log' \in {log, log \cup {"completed"}, log \cup {"failed"}}
        /\ UNCHANGED <<scan, ctxDone, hb, hbCancelled, dir, commands>>
    BY <1>3 DEF ReportCompleted, ReportFailed, Report, repoVars
  <2>2. log' \in SUBSET Terminal /\ server' \in {"assigned", "running", "reclaimed"} \cup Terminal
    BY <2>1 DEF Terminal
  <2>3. QED
    BY <2>1, <2>2
<1>4. CASE HeartbeatExit \/ Reclaim \/ CancelContext \/ UNCHANGED vars
  BY <1>4 DEF HeartbeatExit, Reclaim, CancelContext, vars, repoVars
<1>5. CASE RunCommand
  BY <1>5, CommandsAssumption DEF RunCommand, notGit
<1>6. CASE AwaitCommand \/ Command
  BY <1>6 DEF AwaitCommand, Command, StreamOutput, Child, HelperEnds, Kill, notGit
<1>7. CASE RequestURL \/ ExtractArchive
  BY <1>7 DEF RequestURL, ExtractArchive, RemoveDir
<1>8. QED
  BY <1>1, <1>2, <1>3, <1>4, <1>5, <1>6, <1>7, StepKinds DEF Plainly

(* The reports, the heartbeat and the directory. *)
LEMMA ExecuteStep ==
  ASSUME JobInv, [Next]_vars
  PROVE  ReportChosen' /\ ReportsAreTrue' /\ BeatInv' /\ DirInv'
<1> USE DEF JobInv, ReportChosen, ReportsAreTrue, BeatInv, DirInv, BeforeBeat, Terminal, Goto
<1>1. CASE CreateJobToken \/ GetJobDetail \/ PrepareDir
  BY <1>1 DEF CreateJobToken, GetJobDetail, PrepareDir
<1>2. CASE ReportStarted
  BY <1>2, TargetsAssumption DEF ReportStarted
<1>3. CASE CheckoutFails \/ CheckoutDone \/ Resolved
  BY <1>3 DEF CheckoutFails, CheckoutDone, Resolved, RemoveDir
<1>4. CASE StartHeartbeat \/ ScanReturns \/ ScanPanics \/ CancelHeartbeat
  BY <1>4 DEF StartHeartbeat, ScanReturns, ScanPanics, CancelHeartbeat
<1>5. CASE ReportCompleted
  BY <1>5 DEF ReportCompleted, Report
<1>6. CASE ReportFailed
  BY <1>6 DEF ReportFailed, Report
<1>7. CASE Cleanup
  <2>1. dir \in {"none", "filling", "ready", "removed", "stuck"}
    BY DEF TypeOK
  <2>2. QED
    BY <1>7, <2>1 DEF Cleanup, RemoveDir
<1>8. CASE HeartbeatExit \/ Reclaim \/ CancelContext \/ UNCHANGED vars
  <2>1. CASE HeartbeatExit
    BY <2>1 DEF HeartbeatExit
  <2>2. CASE Reclaim
    BY <2>2 DEF Reclaim
  <2>3. CASE CancelContext
    BY <2>3 DEF CancelContext
  <2>4. CASE UNCHANGED vars
    BY <2>4 DEF vars
  <2>5. QED
    BY <1>8, <2>1, <2>2, <2>3, <2>4
<1>9. CASE RunCommand \/ AwaitCommand \/ Command
  BY <1>9, CommandLeaves
<1>10. CASE RequestURL \/ ExtractArchive
  BY <1>10 DEF RequestURL, ExtractArchive, RemoveDir
<1>11. QED
  BY <1>1, <1>2, <1>3, <1>4, <1>5, <1>6, <1>7, <1>8, <1>9, <1>10, StepKinds DEF Plainly

LEMMA TurnsStep ==
  ASSUME JobInv, [Next]_vars
  PROVE  CommandsInTurn' /\ ArchiveInTurn'
<1> USE DEF JobInv, CommandsInTurn, ArchiveInTurn, Goto, Git!InProgress
<1>1. CASE Plainly
  <2>1. cmd' = cmd /\ fetch' = fetch
    BY <1>1, PlainlyLeaves DEF repoVars, gitVars, archiveVars
  <2>2. CASE CreateJobToken \/ GetJobDetail \/ PrepareDir \/ CheckoutFails \/ CheckoutDone \/ Resolved
    BY <2>1, <2>2 DEF CreateJobToken, GetJobDetail, PrepareDir, CheckoutFails, CheckoutDone, Resolved
  <2>3. CASE ReportStarted
    BY <2>1, <2>3, TargetsAssumption DEF ReportStarted
  <2>4. CASE StartHeartbeat \/ ScanReturns \/ ScanPanics \/ CancelHeartbeat \/ Cleanup
    BY <2>1, <2>4 DEF StartHeartbeat, ScanReturns, ScanPanics, CancelHeartbeat, Cleanup
  <2>5. CASE ReportCompleted \/ ReportFailed
    BY <2>1, <2>5 DEF ReportCompleted, ReportFailed, Report
  <2>6. CASE HeartbeatExit \/ Reclaim \/ CancelContext \/ UNCHANGED vars
    BY <2>1, <2>6 DEF HeartbeatExit, Reclaim, CancelContext, vars
  <2>7. QED
    BY <1>1, <2>2, <2>3, <2>4, <2>5, <2>6 DEF Plainly
<1>2. CASE RunCommand
  BY <1>2, CommandLeaves DEF RunCommand
<1>3. CASE AwaitCommand
  <2>1. cmd \in {"streaming", "waiting"}
    BY <1>3 DEF AwaitCommand, Git!StreamsDone, Git!Wait
  <2>2. QED
    BY <1>3, <2>1, CommandLeaves
<1>4. CASE Command
  <2>1. cmd' = cmd
    BY <1>4, GitStream, GitProcesses DEF Command, StreamOutput, Child, HelperEnds, Kill
  <2>2. QED
    BY <1>4, <2>1, CommandLeaves
<1>5. CASE RequestURL \/ ExtractArchive
  <2>1. cmd' = cmd
    BY <1>5 DEF RequestURL, ExtractArchive, gitVars
  <2>2. CASE RequestURL
    BY <2>1, <2>2 DEF RequestURL, Archive!RequestURL
  <2>3. CASE ExtractArchive
    <3>1. pc = "extract"
      BY <2>3 DEF ExtractArchive, Archive!DownloadAndExtract, Archive!Download, Archive!Extract,
         Archive!ExtractFails, Archive!Finish
    <3>2. QED
      BY <2>1, <2>3, <3>1 DEF ExtractArchive
  <2>4. QED
    BY <1>5, <2>2, <2>3
<1>6. QED
  BY <1>1, <1>2, <1>3, <1>4, <1>5, StepKinds

LEMMA JobInvStep == JobInv /\ [Next]_vars => JobInv'
<1> SUFFICES ASSUME JobInv, [Next]_vars PROVE JobInv'
  OBVIOUS
<1>1. GitInv' /\ ArchiveInv'
  BY GitStep, ArchiveNext DEF JobInv
<1>2. TypeOK'
  BY <1>1, TypeStep DEF GitInv, ArchiveInv
<1>3. QED
  BY <1>1, <1>2, ExecuteStep, TurnsStep DEF JobInv

-----------------------------------------------------------------------------
(* The theorems *)

(* What the theorems below rest on holds in every reachable state. *)
THEOREM JobInvariant == Spec => []JobInv
  BY JobInvInit, JobInvStep, PTL DEF Spec

(* Every variable keeps its type; no pipe holds more than it can, and the    *)
(* commands stay within their bound.                                        *)
THEOREM JobTypeCorrect == Spec => []TypeOK
<1>1. JobInv => TypeOK
  BY DEF JobInv
<1>2. QED
  BY <1>1, JobInvariant, PTL

(* The server is told of a completion only after Scan returned nil and of a  *)
(* failure only if it did not, for whatever calls are lost                  *)
(* (agent_execute.go:13-114).                                               *)
THEOREM JobReportsAreTrue == Spec => []ReportsAreTrue
<1>1. JobInv => ReportsAreTrue
  BY DEF JobInv
<1>2. QED
  BY <1>1, JobInvariant, PTL

(* Under a live context a heartbeat accompanies the scan, and none goes on   *)
(* when the server hears of the end (agent_execute.go:79-101).              *)
THEOREM JobHeartbeatBracketsScan == Spec => []HeartbeatBracketsScan
<1>1. JobInv => HeartbeatBracketsScan
  BY DEF JobInv, BeatInv, HeartbeatBracketsScan
<1>2. QED
  BY <1>1, JobInvariant, PTL

(* Whichever call fails, os.RemoveAll included: when executeJob is over the  *)
(* directory was removed or could not be; and when os.RemoveAll was called  *)
(* git was gone, and its helper too unless stderr had a line that is too    *)
(* long (job_repo.go:51-54, 69-82, 121-124; utils/exec.go:71-87).           *)
THEOREM JobDirectoryIsRemoved == Spec => []DirectoryIsRemoved
<1>1. JobInv => DirectoryIsRemoved
  <2> SUFFICES ASSUME JobInv PROVE DirectoryIsRemoved
    OBVIOUS
  <2>1. dir \in {"removed", "stuck"} => ~Git!InProgress
    BY DEF JobInv, DirInv, CommandsInTurn
  <2>2. QED
    BY <2>1 DEF JobInv, DirInv, GitInv, ReadersInv, DirectoryIsRemoved
<1>2. QED
  BY <1>1, JobInvariant, PTL

(* When Exec has returned, the callbacks have had all the output, in order,  *)
(* for every script, pipe and way the process can end (utils/exec.go).      *)
THEOREM JobOutputComplete == Spec => []OutputComplete
<1>1. JobInv => OutputComplete
  <2> SUFFICES ASSUME JobInv, cmd \in {"ok", "error"}, NEW s \in Git!Streams, reader[s] # "choked"
               PROVE  Git!InOrder(Git!Written(s), delivered[s])
    BY DEF OutputComplete
  <2>1. pipe[s] = <<>> /\ delivered[s] \in Seq(Nat)
    BY DEF JobInv, GitInv, ReadersInv, Git!InProgress, Git!TypeOK
  <2>2. delivered[s] \o <<>> = delivered[s]
    BY <2>1
  <2>3. Git!InOrder(Git!Written(s), delivered[s] \o pipe[s])
    BY DEF JobInv, GitInv, NothingLost
  <2>4. QED
    BY <2>1, <2>2, <2>3
<1>2. QED
  BY <1>1, JobInvariant, PTL

(* Whatever is stored as the artifact, the handler scans the tree of all its *)
(* entries and of nothing else (job_repo.go:134-203).                       *)
THEOREM JobScanSeesWholeArchive == Spec => []ScanSeesWholeArchive
<1>1. JobInv => ScanSeesWholeArchive
  <2> SUFFICES ASSUME JobInv, pc = "scan", fetch # "idle"
               PROVE  /\ artifact.intact = Len(artifact.entries)
                      /\ tree = Archive!Whole(artifact) /\ Archive!IsTree(tree)
    BY DEF ScanSeesWholeArchive
  <2>1. fetch = "done"
    BY DEF JobInv, ArchiveInTurn
  <2>2. /\ unpacked = Len(artifact.entries) /\ unpacked <= artifact.intact
        /\ tree = Archive!Contents(artifact, unpacked) /\ Archive!IsTree(tree)
    BY <2>1 DEF JobInv, ArchiveInv, UnpackedSoFar, PlainTree
  <2>3. /\ artifact.intact \in Nat /\ Len(artifact.entries) \in Nat
        /\ artifact.intact <= Len(artifact.entries)
    BY ArtifactTypes DEF JobInv, ArchiveInv, Archive!TypeOK
  <2>4. QED
    BY <2>2, <2>3 DEF Archive!Whole
<1>2. QED
  BY <1>1, JobInvariant, PTL
=============================================================================
