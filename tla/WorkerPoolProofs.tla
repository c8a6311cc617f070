--------------------------- MODULE WorkerPoolProofs ---------------------------
(* Proofs about WorkerPool, for any finite set of jobs, any set of callers  *)
(* of Shutdown and ShutdownNow, and any size and queue capacity.            *)
EXTENDS WorkerPool, FiniteSetTheorems, SequenceTheorems, TLAPS

(* NewPool's normalisation leaves a positive size and capacity. *)
LEMMA SizesPositive == PoolSize \in Nat \ {0} /\ QueueCap \in Nat \ {0}
  BY SizeAssumption DEF PoolSize, QueueCap, AtLeastOne

(* The types a step preserves by itself: that no counter goes below zero or  *)
(* the semaphore over its capacity follows from what the counters count.    *)
Typed ==
    /\ sub \in [Jobs -> SubState]
    /\ stage \in [Jobs -> Stage]
    /\ stop \in [Stoppers -> StopState]
    /\ taskQueue \in Seq(Jobs)
    /\ closed \in BOOLEAN
    /\ sem \in Int
    /\ active \in Int
    /\ wg \in Int
    /\ running \in BOOLEAN
    /\ cancelled \in BOOLEAN
    /\ reports \in [Jobs -> Nat]
    /\ crashed \in BOOLEAN

(* How many jobs the stage function f has in the stages S, and what one      *)
(* stage contributes to that number.                                        *)
Number(f, S) == Cardinality({i \in Jobs : f[i] \in S})
Bit(b, S)    == IF b \in S THEN 1 ELSE 0

LEMMA BitType == \A b, S : Bit(b, S) \in Int
  BY DEF Bit

(* Moving one job from stage f[j] to b changes the number of jobs in S by    *)
(* what that job contributes.                                               *)
LEMMA CountMove ==
  ASSUME NEW f \in [Jobs -> Stage], NEW j \in Jobs, NEW b \in Stage, NEW S
  PROVE  /\ Number(f, S) \in Nat
         /\ Number([f EXCEPT ![j] = b], S) = Number(f, S) + Bit(b, S) - Bit(f[j], S)
<1> DEFINE g == [f EXCEPT ![j] = b]
           before == {i \in Jobs : f[i] \in S}
           after  == {i \in Jobs : g[i] \in S}
<1>1. IsFiniteSet(before) /\ IsFiniteSet(after)
  BY JobsAssumption, FS_Subset
<1>2. Cardinality(before) \in Nat /\ Cardinality(after) \in Nat
  BY <1>1, FS_CardinalityType
<1>3. (f[j] \in S <=> b \in S) => after = before
  OBVIOUS
<1>4. f[j] \notin S /\ b \in S => after = before \cup {j} /\ j \notin before
  OBVIOUS
<1>5. f[j] \in S /\ b \notin S => after = before \ {j} /\ j \in before
  OBVIOUS
<1>6. Cardinality(after) = Cardinality(before) + Bit(b, S) - Bit(f[j], S)
  BY <1>1, <1>2, <1>3, <1>4, <1>5, FS_AddElement, FS_RemoveElement DEF Bit
<1>7. QED
  BY <1>2, <1>6 DEF Number

(* The same for the two groups of stages the counters stand for, when job j  *)
(* moves to stage b.                                                        *)
Moved(j, b) ==
    \A S \in {HoldsToken, IsActive} :
        /\ Number(stage, S) \in Nat
        /\ Number(stage', S) = Number(stage, S) + Bit(b, S) - Bit(stage[j], S)

LEMMA StageMove ==
  ASSUME Typed, NEW j \in Jobs, NEW b \in Stage, stage' = [stage EXCEPT ![j] = b]
  PROVE  Moved(j, b)
<1>1. stage \in [Jobs -> Stage]
  BY DEF Typed
<1>2. QED
  BY <1>1, CountMove DEF Moved

(* Typed and exact counters are the type invariant of the specification. *)
LEMMA TypeFromCounters == Typed /\ CountersExact <=> TypeOK /\ CountersExact
<1>1. ASSUME NEW S PROVE Cardinality(In(S)) \in Nat
  BY JobsAssumption, FS_Subset, FS_CardinalityType DEF In
<1>2. Cardinality(Counted) \in Nat
  BY JobsAssumption, FS_Subset, FS_CardinalityType DEF Counted
<1>3. CountersExact => sem \in Nat /\ sem <= PoolSize /\ active \in Nat /\ wg \in Nat
  BY <1>1, <1>2 DEF CountersExact
<1>4. QED
  BY <1>3, SizesPositive DEF Typed, TypeOK

(* Every variable keeps its type along every step. *)
LEMMA TypeInvariance == Typed /\ [Next]_vars => Typed'
<1> SUFFICES ASSUME Typed, [Next]_vars PROVE Typed'
  OBVIOUS
<1> USE DEF Typed, SubState, Stage, StopState
<1>1. ASSUME NEW j \in Jobs, SubmitCheck(j) PROVE Typed'
  BY <1>1 DEF SubmitCheck, channel
<1>2. ASSUME NEW j \in Jobs, SubmitAdd(j) PROVE Typed'
  BY <1>2 DEF SubmitAdd, channel
<1>3. ASSUME NEW j \in Jobs, SubmitSend(j) PROVE Typed'
  BY <1>3 DEF SubmitSend, channel
<1>4. ASSUME NEW j \in Jobs, SubmitPanic(j) PROVE Typed'
  BY <1>4 DEF SubmitPanic, channel
<1>5. ASSUME NEW j \in Jobs, SubmitReturn(j) PROVE Typed'
  BY <1>5 DEF SubmitReturn, channel
<1>6. ASSUME NEW j \in Jobs, DispatchAcquire(j) PROVE Typed'
  BY <1>6 DEF DispatchAcquire, channel
<1>7. ASSUME NEW j \in Jobs, DispatchSpawn(j) PROVE Typed'
  BY <1>7 DEF DispatchSpawn, channel
<1>8. ASSUME NEW j \in Jobs, WorkerFinish(j) PROVE Typed'
  BY <1>8 DEF WorkerFinish, channel
<1>9. ASSUME NEW j \in Jobs, WorkerReport(j) PROVE Typed'
  BY <1>9 DEF WorkerReport, channel
<1>10. ASSUME NEW j \in Jobs, WorkerRelease(j) PROVE Typed'
  BY <1>10 DEF WorkerRelease, channel
<1>11. ASSUME NEW j \in Jobs, WorkerUncount(j) PROVE Typed'
  BY <1>11 DEF WorkerUncount, channel
<1>12. ASSUME NEW j \in Jobs, WorkerDone(j) PROVE Typed'
  BY <1>12 DEF WorkerDone, channel
<1>13. ASSUME DispatchReceive PROVE Typed'
  BY <1>13 DEF DispatchReceive, channel
<1>14. ASSUME NEW s \in Stoppers, StopCAS(s) PROVE Typed'
  BY <1>14 DEF StopCAS, channel
<1>15. ASSUME NEW s \in Stoppers, StopCancelFirst(s) PROVE Typed'
  BY <1>15 DEF StopCancelFirst, channel
<1>16. ASSUME NEW s \in Stoppers, StopClose(s) PROVE Typed'
  BY <1>16 DEF StopClose, channel
<1>17. ASSUME NEW s \in Stoppers, StopWait(s) PROVE Typed'
  BY <1>17 DEF StopWait, channel
<1>18. ASSUME NEW s \in Stoppers, StopCancelLast(s) PROVE Typed'
  BY <1>18 DEF StopCancelLast, channel
<1>19. ASSUME UNCHANGED vars PROVE Typed'
  BY <1>19 DEF vars, channel
<1> HIDE DEF Typed, SubState, Stage, StopState
<1>20. QED
  BY <1>1, <1>2, <1>3, <1>4, <1>5, <1>6, <1>7, <1>8, <1>9, <1>10, <1>11, <1>12, <1>13, <1>14, <1>15, <1>16, <1>17, <1>18, <1>19 DEF Next, Step, SubmitStep, DispatchStep, WorkerStep, StopStep

(* The initial state is well-typed. *)
LEMMA PoolTypeInit == Init => Typed
<1> SUFFICES ASSUME Init PROVE Typed
  OBVIOUS
<1>1. taskQueue \in Seq(Jobs)
  BY DEF Init
<1>2. sub \in [Jobs -> SubState]
  BY DEF Init, SubState
<1>3. stage \in [Jobs -> Stage]
  BY DEF Init, Stage
<1>4. stop \in [Stoppers -> StopState]
  BY DEF Init, StopState
<1>5. sem \in Int /\ active \in Int /\ wg \in Int /\ reports \in [Jobs -> Nat]
  BY DEF Init
<1>6. closed \in BOOLEAN /\ running \in BOOLEAN /\ cancelled \in BOOLEAN /\ crashed \in BOOLEAN
  BY DEF Init
<1>7. QED
  BY <1>1, <1>2, <1>3, <1>4, <1>5, <1>6 DEF Typed

-----------------------------------------------------------------------------
(* The inductive invariant, one lemma per part *)

(* One caller wins the CAS; the queue is closed and p.ctx cancelled exactly  *)
(* when the winner has got that far.                                        *)
LEMMA WinnerInvariance ==
  ASSUME Typed, OneWinner, CloseInv, CancelInv, [Next]_vars
  PROVE  OneWinner' /\ CloseInv' /\ CancelInv'
<1> DEFINE Goal == OneWinner' /\ CloseInv' /\ CancelInv'
<1> USE DEF Typed, OneWinner, CloseInv, CancelInv, Won
<1>1. ASSUME NEW j \in Jobs, SubmitCheck(j) PROVE Goal
  BY <1>1 DEF SubmitCheck, channel
<1>2. ASSUME NEW j \in Jobs, SubmitAdd(j) PROVE Goal
  BY <1>2 DEF SubmitAdd, channel
<1>3. ASSUME NEW j \in Jobs, SubmitSend(j) PROVE Goal
  BY <1>3 DEF SubmitSend, channel
<1>4. ASSUME NEW j \in Jobs, SubmitPanic(j) PROVE Goal
  BY <1>4 DEF SubmitPanic, channel
<1>5. ASSUME NEW j \in Jobs, SubmitReturn(j) PROVE Goal
  BY <1>5 DEF SubmitReturn, channel
<1>6. ASSUME NEW j \in Jobs, DispatchAcquire(j) PROVE Goal
  BY <1>6 DEF DispatchAcquire, channel
<1>7. ASSUME NEW j \in Jobs, DispatchSpawn(j) PROVE Goal
  BY <1>7 DEF DispatchSpawn, channel
<1>8. ASSUME NEW j \in Jobs, WorkerFinish(j) PROVE Goal
  BY <1>8 DEF WorkerFinish, channel
<1>9. ASSUME NEW j \in Jobs, WorkerReport(j) PROVE Goal
  BY <1>9 DEF WorkerReport, channel
<1>10. ASSUME NEW j \in Jobs, WorkerRelease(j) PROVE Goal
  BY <1>10 DEF WorkerRelease, channel
<1>11. ASSUME NEW j \in Jobs, WorkerUncount(j) PROVE Goal
  BY <1>11 DEF WorkerUncount, channel
<1>12. ASSUME NEW j \in Jobs, WorkerDone(j) PROVE Goal
  BY <1>12 DEF WorkerDone, channel
<1>13. ASSUME DispatchReceive PROVE Goal
  BY <1>13 DEF DispatchReceive, channel
<1>14. ASSUME NEW s \in Stoppers, StopCAS(s) PROVE Goal
  BY <1>14 DEF StopCAS, channel
<1>15. ASSUME NEW s \in Stoppers, StopCancelFirst(s) PROVE Goal
  BY <1>15 DEF StopCancelFirst, channel
<1>16. ASSUME NEW s \in Stoppers, StopClose(s) PROVE Goal
  BY <1>16 DEF StopClose, channel
<1>17. ASSUME NEW s \in Stoppers, StopWait(s) PROVE Goal
  BY <1>17 DEF StopWait, channel
<1>18. ASSUME NEW s \in Stoppers, StopCancelLast(s) PROVE Goal
  BY <1>18 DEF StopCancelLast, channel
<1>19. ASSUME UNCHANGED vars PROVE Goal
  BY <1>19 DEF vars, channel
<1> HIDE DEF Typed, OneWinner, CloseInv, CancelInv, Won
<1>20. QED
  BY <1>1, <1>2, <1>3, <1>4, <1>5, <1>6, <1>7, <1>8, <1>9, <1>10, <1>11, <1>12, <1>13, <1>14, <1>15, <1>16, <1>17, <1>18, <1>19 DEF Next, Step, SubmitStep, DispatchStep, WorkerStep, StopStep

(* A job is in the pool exactly when its send happened, and is reported      *)
(* exactly when it was refused or its worker has passed the report.         *)
LEMMA SentInvariance ==
  ASSUME Typed, SentInv, ReportsInv, QueueInv, [Next]_vars
  PROVE  SentInv' /\ ReportsInv'
<1> DEFINE Goal == SentInv' /\ ReportsInv'
<1> USE DEF Typed, SentInv, ReportsInv
<1>1. ASSUME NEW j \in Jobs, SubmitCheck(j) PROVE Goal
  <2>1. CASE running
    BY <1>1, <2>1 DEF SubmitCheck, channel
  <2>2. CASE ~running
    <3>1. reports[j] = 0 /\ stage[j] = "none"
      BY <1>1 DEF SubmitCheck
    <3>2. sub' = [sub EXCEPT ![j] = "refused"] /\ reports' = [reports EXCEPT ![j] = @ + 1]
          /\ stage' = stage
      BY <1>1, <2>2 DEF SubmitCheck
    <3>3. QED
      BY <3>1, <3>2
  <2>3. QED
    BY <2>1, <2>2
<1>2. ASSUME NEW j \in Jobs, SubmitAdd(j) PROVE Goal
  BY <1>2 DEF SubmitAdd, channel
<1>3. ASSUME NEW j \in Jobs, SubmitSend(j) PROVE Goal
  BY <1>3 DEF SubmitSend, channel
<1>4. ASSUME NEW j \in Jobs, SubmitPanic(j) PROVE Goal
  BY <1>4 DEF SubmitPanic, channel
<1>5. ASSUME NEW j \in Jobs, SubmitReturn(j) PROVE Goal
  BY <1>5 DEF SubmitReturn, channel
<1>6. ASSUME NEW j \in Jobs, DispatchAcquire(j) PROVE Goal
  BY <1>6 DEF DispatchAcquire, channel
<1>7. ASSUME NEW j \in Jobs, DispatchSpawn(j) PROVE Goal
  BY <1>7 DEF DispatchSpawn, channel
<1>8. ASSUME NEW j \in Jobs, WorkerFinish(j) PROVE Goal
  BY <1>8 DEF WorkerFinish, channel
<1>9. ASSUME NEW j \in Jobs, WorkerReport(j) PROVE Goal
  BY <1>9 DEF WorkerReport, channel
<1>10. ASSUME NEW j \in Jobs, WorkerRelease(j) PROVE Goal
  BY <1>10 DEF WorkerRelease, channel
<1>11. ASSUME NEW j \in Jobs, WorkerUncount(j) PROVE Goal
  BY <1>11 DEF WorkerUncount, channel
<1>12. ASSUME NEW j \in Jobs, WorkerDone(j) PROVE Goal
  BY <1>12 DEF WorkerDone, channel
<1>13. ASSUME DispatchReceive PROVE Goal
  <2>1. Head(taskQueue) \in Jobs /\ stage[Head(taskQueue)] = "queued"
    BY <1>13 DEF DispatchReceive, QueueInv
  <2>2. QED
    BY <1>13, <2>1 DEF DispatchReceive, channel
<1>14. ASSUME NEW s \in Stoppers, StopCAS(s) PROVE Goal
  BY <1>14 DEF StopCAS, channel
<1>15. ASSUME NEW s \in Stoppers, StopCancelFirst(s) PROVE Goal
  BY <1>15 DEF StopCancelFirst, channel
<1>16. ASSUME NEW s \in Stoppers, StopClose(s) PROVE Goal
  BY <1>16 DEF StopClose, channel
<1>17. ASSUME NEW s \in Stoppers, StopWait(s) PROVE Goal
  BY <1>17 DEF StopWait, channel
<1>18. ASSUME NEW s \in Stoppers, StopCancelLast(s) PROVE Goal
  BY <1>18 DEF StopCancelLast, channel
<1>19. ASSUME UNCHANGED vars PROVE Goal
  BY <1>19 DEF vars, channel
<1> HIDE DEF Typed, SentInv, ReportsInv
<1>20. QED
  BY <1>1, <1>2, <1>3, <1>4, <1>5, <1>6, <1>7, <1>8, <1>9, <1>10, <1>11, <1>12, <1>13, <1>14, <1>15, <1>16, <1>17, <1>18, <1>19 DEF Next, Step, SubmitStep, DispatchStep, WorkerStep, StopStep

(* The channel holds exactly the queued jobs, each once, within its          *)
(* capacity, and the dispatcher holds at most one job.                      *)
LEMMA QueueInvariance ==
  ASSUME Typed, SentInv, QueueInv, [Next]_vars
  PROVE  QueueInv'
<1> DEFINE Goal == QueueInv'
<1> USE DEF Typed, QueueInv
<1>1. ASSUME NEW j \in Jobs, SubmitCheck(j) PROVE Goal
  <2>1. taskQueue' = taskQueue /\ \A i \in Jobs : stage'[i] = "queued" <=> stage[i] = "queued"
    BY <1>1 DEF SubmitCheck, channel
  <2>2. \A i \in 1..Len(taskQueue) : taskQueue[i] \in Jobs
    OBVIOUS
  <2>3. Dispatching' \subseteq Dispatching
    BY <1>1 DEF SubmitCheck, Dispatching, In, channel
  <2>4. QED
    BY <2>1, <2>2, <2>3
<1>2. ASSUME NEW j \in Jobs, SubmitAdd(j) PROVE Goal
  <2>1. taskQueue' = taskQueue /\ \A i \in Jobs : stage'[i] = "queued" <=> stage[i] = "queued"
    BY <1>2 DEF SubmitAdd, channel
  <2>2. \A i \in 1..Len(taskQueue) : taskQueue[i] \in Jobs
    OBVIOUS
  <2>3. Dispatching' \subseteq Dispatching
    BY <1>2 DEF SubmitAdd, Dispatching, In, channel
  <2>4. QED
    BY <2>1, <2>2, <2>3
<1>3. ASSUME NEW j \in Jobs, SubmitSend(j) PROVE Goal
  <2> DEFINE q == taskQueue
             n == Len(taskQueue)
  <2>1. /\ q \in Seq(Jobs) /\ n \in Nat /\ n < QueueCap /\ QueueCap \in Nat
        /\ taskQueue' = Append(q, j) /\ stage' = [stage EXCEPT ![j] = "queued"]
    BY <1>3, SizesPositive DEF SubmitSend
  <2>2. Len(taskQueue') = n + 1 /\ taskQueue'[n + 1] = j /\ \A i \in 1..n : taskQueue'[i] = q[i]
    BY <2>1
  <2>3. stage[j] = "none"
    BY <1>3 DEF SubmitSend, SentInv
  <2>4. \A i \in 1..n : q[i] \in Jobs /\ q[i] # j
    BY <2>1, <2>3
  <2>5. \A i \in 1..Len(taskQueue') : stage'[taskQueue'[i]] = "queued"
    BY <2>1, <2>2, <2>4
  <2>6. \A i, k \in 1..Len(taskQueue') : taskQueue'[i] = taskQueue'[k] => i = k
    BY <2>1, <2>2, <2>4
  <2>7. \A x \in Jobs : stage'[x] = "queued" => \E i \in 1..Len(taskQueue') : taskQueue'[i] = x
    <3> TAKE x \in Jobs
    <3> HAVE stage'[x] = "queued"
    <3>1. CASE x = j
      BY <3>1, <2>1, <2>2
    <3>2. CASE x # j
      <4>1. PICK i \in 1..n : q[i] = x
        BY <3>2, <2>1
      <4>2. QED
        BY <4>1, <2>1, <2>2
    <3>3. QED
      BY <3>1, <3>2
  <2>8. Len(taskQueue') <= QueueCap
    BY <2>1, <2>2
  <2>9. \A i, k \in Dispatching' : i = k
    BY <2>1 DEF Dispatching, In
  <2>10. QED
    BY <2>5, <2>6, <2>7, <2>8, <2>9
<1>4. ASSUME NEW j \in Jobs, SubmitPanic(j) PROVE Goal
  <2>1. taskQueue' = taskQueue /\ \A i \in Jobs : stage'[i] = "queued" <=> stage[i] = "queued"
    BY <1>4 DEF SubmitPanic, channel
  <2>2. \A i \in 1..Len(taskQueue) : taskQueue[i] \in Jobs
    OBVIOUS
  <2>3. Dispatching' \subseteq Dispatching
    BY <1>4 DEF SubmitPanic, Dispatching, In, channel
  <2>4. QED
    BY <2>1, <2>2, <2>3
<1>5. ASSUME NEW j \in Jobs, SubmitReturn(j) PROVE Goal
  <2>1. taskQueue' = taskQueue /\ \A i \in Jobs : stage'[i] = "queued" <=> stage[i] = "queued"
    BY <1>5 DEF SubmitReturn, channel
  <2>2. \A i \in 1..Len(taskQueue) : taskQueue[i] \in Jobs
    OBVIOUS
  <2>3. Dispatching' \subseteq Dispatching
    BY <1>5 DEF SubmitReturn, Dispatching, In, channel
  <2>4. QED
    BY <2>1, <2>2, <2>3
<1>6. ASSUME NEW j \in Jobs, DispatchAcquire(j) PROVE Goal
  <2>1. taskQueue' = taskQueue /\ \A i \in Jobs : stage'[i] = "queued" <=> stage[i] = "queued"
    BY <1>6 DEF DispatchAcquire, channel
  <2>2. \A i \in 1..Len(taskQueue) : taskQueue[i] \in Jobs
    OBVIOUS
  <2>3. Dispatching' \subseteq Dispatching
    BY <1>6 DEF DispatchAcquire, Dispatching, In, channel
  <2>4. QED
    BY <2>1, <2>2, <2>3
<1>7. ASSUME NEW j \in Jobs, DispatchSpawn(j) PROVE Goal
  <2>1. taskQueue' = taskQueue /\ \A i \in Jobs : stage'[i] = "queued" <=> stage[i] = "queued"
    BY <1>7 DEF DispatchSpawn, channel
  <2>2. \A i \in 1..Len(taskQueue) : taskQueue[i] \in Jobs
    OBVIOUS
  <2>3. Dispatching' \subseteq Dispatching
    BY <1>7 DEF DispatchSpawn, Dispatching, In, channel
  <2>4. QED
    BY <2>1, <2>2, <2>3
<1>8. ASSUME NEW j \in Jobs, WorkerFinish(j) PROVE Goal
  <2>1. taskQueue' = taskQueue /\ \A i \in Jobs : stage'[i] = "queued" <=> stage[i] = "queued"
    BY <1>8 DEF WorkerFinish, channel
  <2>2. \A i \in 1..Len(taskQueue) : taskQueue[i] \in Jobs
    OBVIOUS
  <2>3. Dispatching' \subseteq Dispatching
    BY <1>8 DEF WorkerFinish, Dispatching, In, channel
  <2>4. QED
    BY <2>1, <2>2, <2>3
<1>9. ASSUME NEW j \in Jobs, WorkerReport(j) PROVE Goal
  <2>1. taskQueue' = taskQueue /\ \A i \in Jobs : stage'[i] = "queued" <=> stage[i] = "queued"
    BY <1>9 DEF WorkerReport, channel
  <2>2. \A i \in 1..Len(taskQueue) : taskQueue[i] \in Jobs
    OBVIOUS
  <2>3. Dispatching' \subseteq Dispatching
    BY <1>9 DEF WorkerReport, Dispatching, In, channel
  <2>4. QED
    BY <2>1, <2>2, <2>3
<1>10. ASSUME NEW j \in Jobs, WorkerRelease(j) PROVE Goal
  <2>1. taskQueue' = taskQueue /\ \A i \in Jobs : stage'[i] = "queued" <=> stage[i] = "queued"
    BY <1>10 DEF WorkerRelease, channel
  <2>2. \A i \in 1..Len(taskQueue) : taskQueue[i] \in Jobs
    OBVIOUS
  <2>3. Dispatching' \subseteq Dispatching
    BY <1>10 DEF WorkerRelease, Dispatching, In, channel
  <2>4. QED
    BY <2>1, <2>2, <2>3
<1>11. ASSUME NEW j \in Jobs, WorkerUncount(j) PROVE Goal
  <2>1. taskQueue' = taskQueue /\ \A i \in Jobs : stage'[i] = "queued" <=> stage[i] = "queued"
    BY <1>11 DEF WorkerUncount, channel
  <2>2. \A i \in 1..Len(taskQueue) : taskQueue[i] \in Jobs
    OBVIOUS
  <2>3. Dispatching' \subseteq Dispatching
    BY <1>11 DEF WorkerUncount, Dispatching, In, channel
  <2>4. QED
    BY <2>1, <2>2, <2>3
<1>12. ASSUME NEW j \in Jobs, WorkerDone(j) PROVE Goal
  <2>1. taskQueue' = taskQueue /\ \A i \in Jobs : stage'[i] = "queued" <=> stage[i] = "queued"
    BY <1>12 DEF WorkerDone, channel
  <2>2. \A i \in 1..Len(taskQueue) : taskQueue[i] \in Jobs
    OBVIOUS
  <2>3. Dispatching' \subseteq Dispatching
    BY <1>12 DEF WorkerDone, Dispatching, In, channel
  <2>4. QED
    BY <2>1, <2>2, <2>3
<1>13. ASSUME DispatchReceive PROVE Goal
  <2> DEFINE q == taskQueue
             h == Head(taskQueue)
             n == Len(taskQueue)
  <2>1. /\ q \in Seq(Jobs) /\ q # <<>> /\ n \in Nat \ {0} /\ h = q[1] /\ h \in Jobs
        /\ taskQueue' = Tail(q) /\ stage' = [stage EXCEPT ![h] = "held"]
        /\ Dispatching = {} /\ QueueCap \in Nat
    BY <1>13, SizesPositive DEF DispatchReceive
  <2>2. Len(taskQueue') = n - 1 /\ \A i \in 1..(n - 1) : taskQueue'[i] = q[i + 1]
    BY <2>1
  <2>3. \A i \in 1..(n - 1) : q[i + 1] # h /\ q[i + 1] \in Jobs
    BY <2>1
  <2>4. \A i \in 1..Len(taskQueue') : stage'[taskQueue'[i]] = "queued"
    BY <2>1, <2>2, <2>3
  <2>5. \A i, k \in 1..Len(taskQueue') : taskQueue'[i] = taskQueue'[k] => i = k
    BY <2>1, <2>2
  <2>6. \A x \in Jobs : stage'[x] = "queued" => \E i \in 1..Len(taskQueue') : taskQueue'[i] = x
    <3> TAKE x \in Jobs
    <3> HAVE stage'[x] = "queued"
    <3>1. x # h /\ stage[x] = "queued"
      BY <2>1
    <3>2. PICK i \in 1..n : q[i] = x
      BY <3>1
    <3>3. i - 1 \in 1..(n - 1)
      BY <3>1, <3>2, <2>1
    <3>4. taskQueue'[i - 1] = x
      BY <3>2, <3>3, <2>1, <2>2
    <3>5. QED
      BY <3>3, <3>4, <2>1, <2>2
  <2>7. Len(taskQueue') <= QueueCap
    BY <2>1, <2>2
  <2>8. \A i, k \in Dispatching' : i = k
    BY <2>1 DEF Dispatching, In
  <2>9. QED
    BY <2>4, <2>5, <2>6, <2>7, <2>8
<1>14. ASSUME NEW s \in Stoppers, StopCAS(s) PROVE Goal
  <2>1. taskQueue' = taskQueue /\ \A i \in Jobs : stage'[i] = "queued" <=> stage[i] = "queued"
    BY <1>14 DEF StopCAS, channel
  <2>2. \A i \in 1..Len(taskQueue) : taskQueue[i] \in Jobs
    OBVIOUS
  <2>3. Dispatching' \subseteq Dispatching
    BY <1>14 DEF StopCAS, Dispatching, In, channel
  <2>4. QED
    BY <2>1, <2>2, <2>3
<1>15. ASSUME NEW s \in Stoppers, StopCancelFirst(s) PROVE Goal
  <2>1. taskQueue' = taskQueue /\ \A i \in Jobs : stage'[i] = "queued" <=> stage[i] = "queued"
    BY <1>15 DEF StopCancelFirst, channel
  <2>2. \A i \in 1..Len(taskQueue) : taskQueue[i] \in Jobs
    OBVIOUS
  <2>3. Dispatching' \subseteq Dispatching
    BY <1>15 DEF StopCancelFirst, Dispatching, In, channel
  <2>4. QED
    BY <2>1, <2>2, <2>3
<1>16. ASSUME NEW s \in Stoppers, StopClose(s) PROVE Goal
  <2>1. taskQueue' = taskQueue /\ \A i \in Jobs : stage'[i] = "queued" <=> stage[i] = "queued"
    BY <1>16 DEF StopClose, channel
  <2>2. \A i \in 1..Len(taskQueue) : taskQueue[i] \in Jobs
    OBVIOUS
  <2>3. Dispatching' \subseteq Dispatching
    BY <1>16 DEF StopClose, Dispatching, In, channel
  <2>4. QED
    BY <2>1, <2>2, <2>3
<1>17. ASSUME NEW s \in Stoppers, StopWait(s) PROVE Goal
  <2>1. taskQueue' = taskQueue /\ \A i \in Jobs : stage'[i] = "queued" <=> stage[i] = "queued"
    BY <1>17 DEF StopWait, channel
  <2>2. \A i \in 1..Len(taskQueue) : taskQueue[i] \in Jobs
    OBVIOUS
  <2>3. Dispatching' \subseteq Dispatching
    BY <1>17 DEF StopWait, Dispatching, In, channel
  <2>4. QED
    BY <2>1, <2>2, <2>3
<1>18. ASSUME NEW s \in Stoppers, StopCancelLast(s) PROVE Goal
  <2>1. taskQueue' = taskQueue /\ \A i \in Jobs : stage'[i] = "queued" <=> stage[i] = "queued"
    BY <1>18 DEF StopCancelLast, channel
  <2>2. \A i \in 1..Len(taskQueue) : taskQueue[i] \in Jobs
    OBVIOUS
  <2>3. Dispatching' \subseteq Dispatching
    BY <1>18 DEF StopCancelLast, Dispatching, In, channel
  <2>4. QED
    BY <2>1, <2>2, <2>3
<1>19. ASSUME UNCHANGED vars PROVE Goal
  <2>1. taskQueue' = taskQueue /\ \A i \in Jobs : stage'[i] = "queued" <=> stage[i] = "queued"
    BY <1>19 DEF vars, channel
  <2>2. \A i \in 1..Len(taskQueue) : taskQueue[i] \in Jobs
    OBVIOUS
  <2>3. Dispatching' \subseteq Dispatching
    BY <1>19 DEF vars, Dispatching, In, channel
  <2>4. QED
    BY <2>1, <2>2, <2>3
<1> HIDE DEF Typed, QueueInv
<1>20. QED
  BY <1>1, <1>2, <1>3, <1>4, <1>5, <1>6, <1>7, <1>8, <1>9, <1>10, <1>11, <1>12, <1>13, <1>14, <1>15, <1>16, <1>17, <1>18, <1>19 DEF Next, Step, SubmitStep, DispatchStep, WorkerStep, StopStep

(* The wait group lets the winner through only when no job is inside the     *)
(* pool, and the closed queue lets no job in afterwards.                    *)
LEMMA DrainInvariance ==
  ASSUME Typed, CloseInv, CountersExact, QueueInv, ShutdownDrains, [Next]_vars
  PROVE  ShutdownDrains'
<1> DEFINE Quiet == \A j \in Jobs : stage[j] \in {"none", "done"}
           Over  == \E s \in Stoppers : stop[s] \in {"cancelLast", "returned"}
           Goal  == Over' => Quiet'
<1> USE DEF Typed
<1>a. Over => Quiet
  BY DEF ShutdownDrains, In
<1>1. ASSUME NEW j \in Jobs, SubmitCheck(j) PROVE Goal
  <2>1. stop' = stop /\ \A i \in Jobs : stage[i] \in {"none", "done"} => stage'[i] = stage[i]
    BY <1>1 DEF SubmitCheck, channel
  <2>2. QED
    BY <2>1, <1>a
<1>2. ASSUME NEW j \in Jobs, SubmitAdd(j) PROVE Goal
  <2>1. stop' = stop /\ \A i \in Jobs : stage[i] \in {"none", "done"} => stage'[i] = stage[i]
    BY <1>2 DEF SubmitAdd, channel
  <2>2. QED
    BY <2>1, <1>a
<1>3. ASSUME NEW j \in Jobs, SubmitSend(j) PROVE Goal
  <2>1. ~\E s \in Stoppers : stop[s] \in {"cancelLast", "returned"}
    BY <1>3 DEF SubmitSend, CloseInv
  <2>2. QED
    BY <1>3, <2>1, <1>a DEF SubmitSend
<1>4. ASSUME NEW j \in Jobs, SubmitPanic(j) PROVE Goal
  <2>1. stop' = stop /\ \A i \in Jobs : stage[i] \in {"none", "done"} => stage'[i] = stage[i]
    BY <1>4 DEF SubmitPanic, channel
  <2>2. QED
    BY <2>1, <1>a
<1>5. ASSUME NEW j \in Jobs, SubmitReturn(j) PROVE Goal
  <2>1. stop' = stop /\ \A i \in Jobs : stage[i] \in {"none", "done"} => stage'[i] = stage[i]
    BY <1>5 DEF SubmitReturn, channel
  <2>2. QED
    BY <2>1, <1>a
<1>6. ASSUME NEW j \in Jobs, DispatchAcquire(j) PROVE Goal
  <2>1. stop' = stop /\ \A i \in Jobs : stage[i] \in {"none", "done"} => stage'[i] = stage[i]
    BY <1>6 DEF DispatchAcquire, channel
  <2>2. QED
    BY <2>1, <1>a
<1>7. ASSUME NEW j \in Jobs, DispatchSpawn(j) PROVE Goal
  <2>1. stop' = stop /\ \A i \in Jobs : stage[i] \in {"none", "done"} => stage'[i] = stage[i]
    BY <1>7 DEF DispatchSpawn, channel
  <2>2. QED
    BY <2>1, <1>a
<1>8. ASSUME NEW j \in Jobs, WorkerFinish(j) PROVE Goal
  <2>1. stop' = stop /\ \A i \in Jobs : stage[i] \in {"none", "done"} => stage'[i] = stage[i]
    BY <1>8 DEF WorkerFinish, channel
  <2>2. QED
    BY <2>1, <1>a
<1>9. ASSUME NEW j \in Jobs, WorkerReport(j) PROVE Goal
  <2>1. stop' = stop /\ \A i \in Jobs : stage[i] \in {"none", "done"} => stage'[i] = stage[i]
    BY <1>9 DEF WorkerReport, channel
  <2>2. QED
    BY <2>1, <1>a
<1>10. ASSUME NEW j \in Jobs, WorkerRelease(j) PROVE Goal
  <2>1. stop' = stop /\ \A i \in Jobs : stage[i] \in {"none", "done"} => stage'[i] = stage[i]
    BY <1>10 DEF WorkerRelease, channel
  <2>2. QED
    BY <2>1, <1>a
<1>11. ASSUME NEW j \in Jobs, WorkerUncount(j) PROVE Goal
  <2>1. stop' = stop /\ \A i \in Jobs : stage[i] \in {"none", "done"} => stage'[i] = stage[i]
    BY <1>11 DEF WorkerUncount, channel
  <2>2. QED
    BY <2>1, <1>a
<1>12. ASSUME NEW j \in Jobs, WorkerDone(j) PROVE Goal
  <2>1. stop' = stop /\ \A i \in Jobs : stage[i] \in {"none", "done"} => stage'[i] = stage[i]
    BY <1>12 DEF WorkerDone, channel
  <2>2. QED
    BY <2>1, <1>a
<1>13. ASSUME DispatchReceive PROVE Goal
  <2>1. Head(taskQueue) \in Jobs /\ stage[Head(taskQueue)] = "queued"
    BY <1>13 DEF DispatchReceive, QueueInv
  <2>2. QED
    BY <1>13, <2>1, <1>a DEF DispatchReceive
<1>14. ASSUME NEW s \in Stoppers, StopCAS(s) PROVE Goal
  <2>1. stage' = stage /\ \A t \in Stoppers : stop'[t] \in {"cancelLast", "returned"} => stop[t] \in {"cancelLast", "returned"}
    BY <1>14 DEF StopCAS, channel
  <2>2. QED
    BY <2>1, <1>a
<1>15. ASSUME NEW s \in Stoppers, StopCancelFirst(s) PROVE Goal
  <2>1. stage' = stage /\ \A t \in Stoppers : stop'[t] \in {"cancelLast", "returned"} => stop[t] \in {"cancelLast", "returned"}
    BY <1>15 DEF StopCancelFirst, channel
  <2>2. QED
    BY <2>1, <1>a
<1>16. ASSUME NEW s \in Stoppers, StopClose(s) PROVE Goal
  <2>1. stage' = stage /\ \A t \in Stoppers : stop'[t] \in {"cancelLast", "returned"} => stop[t] \in {"cancelLast", "returned"}
    BY <1>16 DEF StopClose, channel
  <2>2. QED
    BY <2>1, <1>a
<1>17. ASSUME NEW s \in Stoppers, StopWait(s) PROVE Goal
  <2>1. Cardinality(Counted) = 0
    BY <1>17 DEF StopWait, CountersExact
  <2>2. IsFiniteSet(Counted)
    BY JobsAssumption, FS_Subset DEF Counted
  <2>3. Counted = {}
    BY <2>1, <2>2, FS_EmptySet
  <2>4. \A i \in Jobs : stage[i] \in {"none", "done"}
    BY <2>3 DEF Counted
  <2>5. QED
    BY <1>17, <2>4 DEF StopWait
<1>18. ASSUME NEW s \in Stoppers, StopCancelLast(s) PROVE Goal
  <2>1. stage' = stage /\ \A t \in Stoppers : stop'[t] \in {"cancelLast", "returned"} => stop[t] \in {"cancelLast", "returned"}
    BY <1>18 DEF StopCancelLast, channel
  <2>2. QED
    BY <2>1, <1>a
<1>19. ASSUME UNCHANGED vars PROVE Goal
  <2>1. stop' = stop /\ \A i \in Jobs : stage[i] \in {"none", "done"} => stage'[i] = stage[i]
    BY <1>19 DEF vars, channel
  <2>2. QED
    BY <2>1, <1>a
<1>20. Goal => ShutdownDrains'
  BY DEF ShutdownDrains, In
<1> HIDE DEF Typed, Goal
<1>21. QED
  BY <1>1, <1>2, <1>3, <1>4, <1>5, <1>6, <1>7, <1>8, <1>9, <1>10, <1>11, <1>12, <1>13, <1>14, <1>15, <1>16, <1>17, <1>18, <1>19, <1>20 DEF Next, Step, SubmitStep, DispatchStep, WorkerStep, StopStep

(* p.sem, p.active and p.wg count what they are meant to count, and the      *)
(* semaphore is never over its capacity.                                    *)
LEMMA CounterInvariance ==
  ASSUME Typed, SentInv, QueueInv, CountersExact, [Next]_vars
  PROVE  CountersExact'
<1> DEFINE Goal == /\ sem' = Number(stage', HoldsToken) /\ sem' <= PoolSize
                   /\ active' = Number(stage', IsActive)
                   /\ wg' = Cardinality(Counted')
<1>t. /\ sem \in Int /\ active \in Int /\ wg \in Int /\ taskQueue \in Seq(Jobs)
      /\ sub \in [Jobs -> SubState] /\ stage \in [Jobs -> Stage]
  BY DEF Typed
<1> USE <1>t
<1>a. IsFiniteSet(Counted) /\ wg = Cardinality(Counted)
  BY JobsAssumption, FS_Subset DEF Counted, CountersExact
<1>b. /\ sem = Number(stage, HoldsToken) /\ sem <= PoolSize
      /\ active = Number(stage, IsActive)
  BY DEF CountersExact, Number, In
<1>1. ASSUME NEW j \in Jobs, SubmitCheck(j) PROVE Goal
  <2>1. stage' = stage /\ sem' = sem /\ active' = active /\ wg' = wg
    BY <1>1 DEF SubmitCheck, channel
  <2>2. Counted' = Counted
    BY <1>1 DEF SubmitCheck, Counted, channel
  <2>3. QED
    BY <1>a, <1>b, <2>1, <2>2
<1>2. ASSUME NEW j \in Jobs, SubmitAdd(j) PROVE Goal
  <2>1. Counted' = Counted \cup {j} /\ j \notin Counted
    BY <1>2 DEF SubmitAdd, Counted, SentInv
  <2>2. wg' = Cardinality(Counted')
    BY <1>2, <2>1, <1>a, FS_AddElement DEF SubmitAdd
  <2>3. stage' = stage /\ sem' = sem /\ active' = active
    BY <1>2 DEF SubmitAdd
  <2>4. QED
    BY <1>b, <2>2, <2>3
<1>3. ASSUME NEW j \in Jobs, SubmitSend(j) PROVE Goal
  <2>1. j \in Jobs /\ stage[j] = "none" /\ stage' = [stage EXCEPT ![j] = "queued"]
    BY <1>3 DEF SubmitSend, SentInv
  <2>2. "queued" \in Stage
    BY DEF Stage
  <2>a. /\ Bit("queued", HoldsToken) - Bit(stage[j], HoldsToken) = 0
        /\ Bit("queued", IsActive) - Bit(stage[j], IsActive) = 0
    BY <2>1 DEF Bit, HoldsToken, IsActive
  <2>b. Moved(j, "queued")
    BY <2>1, <2>2, StageMove, Zenon
  <2>3. Number(stage', HoldsToken) = Number(stage, HoldsToken) /\ Number(stage', IsActive) = Number(stage, IsActive)
    BY <2>a, <2>b, BitType DEF Moved
  <2>4. sem' = sem /\ active' = active /\ sem' <= PoolSize
    BY <1>3, <1>b, SizesPositive DEF SubmitSend
  <2>5. Counted' = Counted
    BY <1>3, <2>1 DEF SubmitSend, Counted, SentInv
  <2>6. wg' = Cardinality(Counted')
    BY <1>3, <2>5, <1>a, FS_RemoveElement DEF SubmitSend
  <2>7. QED
    BY <1>b, <2>2, <2>3, <2>4, <2>6
<1>4. ASSUME NEW j \in Jobs, SubmitPanic(j) PROVE Goal
  <2>1. stage' = stage /\ sem' = sem /\ active' = active /\ wg' = wg
    BY <1>4 DEF SubmitPanic, channel
  <2>2. Counted' = Counted
    BY <1>4 DEF SubmitPanic, Counted, channel
  <2>3. QED
    BY <1>a, <1>b, <2>1, <2>2
<1>5. ASSUME NEW j \in Jobs, SubmitReturn(j) PROVE Goal
  <2>1. stage' = stage /\ sem' = sem /\ active' = active /\ wg' = wg
    BY <1>5 DEF SubmitReturn, channel
  <2>2. Counted' = Counted
    BY <1>5 DEF SubmitReturn, Counted, channel
  <2>3. QED
    BY <1>a, <1>b, <2>1, <2>2
<1>6. ASSUME NEW j \in Jobs, DispatchAcquire(j) PROVE Goal
  <2>1. j \in Jobs /\ stage[j] = "held" /\ stage' = [stage EXCEPT ![j] = "slotted"]
    BY <1>6 DEF DispatchAcquire
  <2>2. "slotted" \in Stage
    BY DEF Stage
  <2>a. /\ Bit("slotted", HoldsToken) - Bit(stage[j], HoldsToken) = 1
        /\ Bit("slotted", IsActive) - Bit(stage[j], IsActive) = 0
    BY <2>1 DEF Bit, HoldsToken, IsActive
  <2>b. Moved(j, "slotted")
    BY <2>1, <2>2, StageMove, Zenon
  <2>3. Number(stage', HoldsToken) = Number(stage, HoldsToken) + 1 /\ Number(stage', IsActive) = Number(stage, IsActive)
    BY <2>a, <2>b, BitType DEF Moved
  <2>4. sem' = sem + 1 /\ active' = active /\ sem' <= PoolSize
    BY <1>6, <1>b, SizesPositive DEF DispatchAcquire
  <2>5. Counted' = Counted
    BY <1>6, <2>1 DEF DispatchAcquire, Counted, SentInv
  <2>6. wg' = Cardinality(Counted')
    BY <1>6, <2>5, <1>a, FS_RemoveElement DEF DispatchAcquire
  <2>7. QED
    BY <1>b, <2>2, <2>3, <2>4, <2>6
<1>7. ASSUME NEW j \in Jobs, DispatchSpawn(j) PROVE Goal
  <2>1. j \in Jobs /\ stage[j] = "slotted" /\ stage' = [stage EXCEPT ![j] = "executing"]
    BY <1>7 DEF DispatchSpawn
  <2>2. "executing" \in Stage
    BY DEF Stage
  <2>a. /\ Bit("executing", HoldsToken) - Bit(stage[j], HoldsToken) = 0
        /\ Bit("executing", IsActive) - Bit(stage[j], IsActive) = 1
    BY <2>1 DEF Bit, HoldsToken, IsActive
  <2>b. Moved(j, "executing")
    BY <2>1, <2>2, StageMove, Zenon
  <2>3. Number(stage', HoldsToken) = Number(stage, HoldsToken) /\ Number(stage', IsActive) = Number(stage, IsActive) + 1
    BY <2>a, <2>b, BitType DEF Moved
  <2>4. sem' = sem /\ active' = active + 1 /\ sem' <= PoolSize
    BY <1>7, <1>b, SizesPositive DEF DispatchSpawn
  <2>5. Counted' = Counted
    BY <1>7, <2>1 DEF DispatchSpawn, Counted, SentInv
  <2>6. wg' = Cardinality(Counted')
    BY <1>7, <2>5, <1>a, FS_RemoveElement DEF DispatchSpawn
  <2>7. QED
    BY <1>b, <2>2, <2>3, <2>4, <2>6
<1>8. ASSUME NEW j \in Jobs, WorkerFinish(j) PROVE Goal
  <2>1. PICK b \in {"ok", "bad"} : stage' = [stage EXCEPT ![j] = b]
    BY <1>8 DEF WorkerFinish
  <2>2. stage[j] = "executing"
    BY <1>8 DEF WorkerFinish
  <2>3. b \in Stage
    BY DEF Stage
  <2>a. /\ Bit(b, HoldsToken) - Bit(stage[j], HoldsToken) = 0
        /\ Bit(b, IsActive) - Bit(stage[j], IsActive) = 0
    BY <2>2 DEF Bit, HoldsToken, IsActive
  <2>4. Number(stage', HoldsToken) = Number(stage, HoldsToken)
        /\ Number(stage', IsActive) = Number(stage, IsActive)
    <3>1. Moved(j, b)
      BY <2>1, <2>3, StageMove, Zenon
    <3>2. QED
      BY <2>a, <3>1, BitType DEF Moved
  <2>5. Counted' = Counted
    BY <1>8, <2>1, <2>2 DEF WorkerFinish, Counted
  <2>6. sem' = sem /\ active' = active /\ wg' = wg
    BY <1>8 DEF WorkerFinish
  <2>7. QED
    BY <1>a, <1>b, <2>3, <2>4, <2>5, <2>6
<1>9. ASSUME NEW j \in Jobs, WorkerReport(j) PROVE Goal
  <2>1. j \in Jobs /\ stage[j] \in {"ok", "bad"} /\ stage' = [stage EXCEPT ![j] = "leaving"]
    BY <1>9 DEF WorkerReport
  <2>2. "leaving" \in Stage
    BY DEF Stage
  <2>a. /\ Bit("leaving", HoldsToken) - Bit(stage[j], HoldsToken) = 0
        /\ Bit("leaving", IsActive) - Bit(stage[j], IsActive) = 0
    BY <2>1 DEF Bit, HoldsToken, IsActive
  <2>b. Moved(j, "leaving")
    BY <2>1, <2>2, StageMove, Zenon
  <2>3. Number(stage', HoldsToken) = Number(stage, HoldsToken) /\ Number(stage', IsActive) = Number(stage, IsActive)
    BY <2>a, <2>b, BitType DEF Moved
  <2>4. sem' = sem /\ active' = active /\ sem' <= PoolSize
    BY <1>9, <1>b, SizesPositive DEF WorkerReport
  <2>5. Counted' = Counted
    BY <1>9, <2>1 DEF WorkerReport, Counted, SentInv
  <2>6. wg' = Cardinality(Counted')
    BY <1>9, <2>5, <1>a, FS_RemoveElement DEF WorkerReport
  <2>7. QED
    BY <1>b, <2>2, <2>3, <2>4, <2>6
<1>10. ASSUME NEW j \in Jobs, WorkerRelease(j) PROVE Goal
  <2>1. j \in Jobs /\ stage[j] = "leaving" /\ stage' = [stage EXCEPT ![j] = "released"]
    BY <1>10 DEF WorkerRelease
  <2>2. "released" \in Stage
    BY DEF Stage
  <2>a. /\ Bit("released", HoldsToken) - Bit(stage[j], HoldsToken) = -1
        /\ Bit("released", IsActive) - Bit(stage[j], IsActive) = 0
    BY <2>1 DEF Bit, HoldsToken, IsActive
  <2>b. Moved(j, "released")
    BY <2>1, <2>2, StageMove, Zenon
  <2>3. Number(stage', HoldsToken) = Number(stage, HoldsToken) - 1 /\ Number(stage', IsActive) = Number(stage, IsActive)
    BY <2>a, <2>b, BitType DEF Moved
  <2>4. sem' = sem - 1 /\ active' = active /\ sem' <= PoolSize
    BY <1>10, <1>b, SizesPositive DEF WorkerRelease
  <2>5. Counted' = Counted
    BY <1>10, <2>1 DEF WorkerRelease, Counted, SentInv
  <2>6. wg' = Cardinality(Counted')
    BY <1>10, <2>5, <1>a, FS_RemoveElement DEF WorkerRelease
  <2>7. QED
    BY <1>b, <2>2, <2>3, <2>4, <2>6
<1>11. ASSUME NEW j \in Jobs, WorkerUncount(j) PROVE Goal
  <2>1. j \in Jobs /\ stage[j] = "released" /\ stage' = [stage EXCEPT ![j] = "uncounted"]
    BY <1>11 DEF WorkerUncount
  <2>2. "uncounted" \in Stage
    BY DEF Stage
  <2>a. /\ Bit("uncounted", HoldsToken) - Bit(stage[j], HoldsToken) = 0
        /\ Bit("uncounted", IsActive) - Bit(stage[j], IsActive) = -1
    BY <2>1 DEF Bit, HoldsToken, IsActive
  <2>b. Moved(j, "uncounted")
    BY <2>1, <2>2, StageMove, Zenon
  <2>3. Number(stage', HoldsToken) = Number(stage, HoldsToken) /\ Number(stage', IsActive) = Number(stage, IsActive) - 1
    BY <2>a, <2>b, BitType DEF Moved
  <2>4. sem' = sem /\ active' = active - 1 /\ sem' <= PoolSize
    BY <1>11, <1>b, SizesPositive DEF WorkerUncount
  <2>5. Counted' = Counted
    BY <1>11, <2>1 DEF WorkerUncount, Counted, SentInv
  <2>6. wg' = Cardinality(Counted')
    BY <1>11, <2>5, <1>a, FS_RemoveElement DEF WorkerUncount
  <2>7. QED
    BY <1>b, <2>2, <2>3, <2>4, <2>6
<1>12. ASSUME NEW j \in Jobs, WorkerDone(j) PROVE Goal
  <2>1. j \in Jobs /\ stage[j] = "uncounted" /\ stage' = [stage EXCEPT ![j] = "done"]
    BY <1>12 DEF WorkerDone
  <2>2. "done" \in Stage
    BY DEF Stage
  <2>a. /\ Bit("done", HoldsToken) - Bit(stage[j], HoldsToken) = 0
        /\ Bit("done", IsActive) - Bit(stage[j], IsActive) = 0
    BY <2>1 DEF Bit, HoldsToken, IsActive
  <2>b. Moved(j, "done")
    BY <2>1, <2>2, StageMove, Zenon
  <2>3. Number(stage', HoldsToken) = Number(stage, HoldsToken) /\ Number(stage', IsActive) = Number(stage, IsActive)
    BY <2>a, <2>b, BitType DEF Moved
  <2>4. sem' = sem /\ active' = active /\ sem' <= PoolSize
    BY <1>12, <1>b, SizesPositive DEF WorkerDone
  <2>5. Counted' = Counted \ {j} /\ j \in Counted
    BY <1>12, <2>1 DEF WorkerDone, Counted, SentInv
  <2>6. wg' = Cardinality(Counted')
    BY <1>12, <2>5, <1>a, FS_RemoveElement DEF WorkerDone
  <2>7. QED
    BY <1>b, <2>2, <2>3, <2>4, <2>6
<1>13. ASSUME DispatchReceive PROVE Goal
  <2>1. Head(taskQueue) \in Jobs /\ stage[Head(taskQueue)] = "queued" /\ stage' = [stage EXCEPT ![Head(taskQueue)] = "held"]
    BY <1>13 DEF DispatchReceive, QueueInv
  <2>2. "held" \in Stage
    BY DEF Stage
  <2>a. /\ Bit("held", HoldsToken) - Bit(stage[Head(taskQueue)], HoldsToken) = 0
        /\ Bit("held", IsActive) - Bit(stage[Head(taskQueue)], IsActive) = 0
    BY <2>1 DEF Bit, HoldsToken, IsActive
  <2>b. Moved(Head(taskQueue), "held")
    BY <2>1, <2>2, StageMove, Zenon
  <2>3. Number(stage', HoldsToken) = Number(stage, HoldsToken) /\ Number(stage', IsActive) = Number(stage, IsActive)
    BY <2>a, <2>b, BitType DEF Moved
  <2>4. sem' = sem /\ active' = active /\ sem' <= PoolSize
    BY <1>13, <1>b, SizesPositive DEF DispatchReceive
  <2>5. Counted' = Counted
    BY <1>13, <2>1 DEF DispatchReceive, Counted, SentInv
  <2>6. wg' = Cardinality(Counted')
    BY <1>13, <2>5, <1>a, FS_RemoveElement DEF DispatchReceive
  <2>7. QED
    BY <1>b, <2>2, <2>3, <2>4, <2>6
<1>14. ASSUME NEW s \in Stoppers, StopCAS(s) PROVE Goal
  <2>1. stage' = stage /\ sem' = sem /\ active' = active /\ wg' = wg
    BY <1>14 DEF StopCAS, channel
  <2>2. Counted' = Counted
    BY <1>14 DEF StopCAS, Counted, channel
  <2>3. QED
    BY <1>a, <1>b, <2>1, <2>2
<1>15. ASSUME NEW s \in Stoppers, StopCancelFirst(s) PROVE Goal
  <2>1. stage' = stage /\ sem' = sem /\ active' = active /\ wg' = wg
    BY <1>15 DEF StopCancelFirst, channel
  <2>2. Counted' = Counted
    BY <1>15 DEF StopCancelFirst, Counted, channel
  <2>3. QED
    BY <1>a, <1>b, <2>1, <2>2
<1>16. ASSUME NEW s \in Stoppers, StopClose(s) PROVE Goal
  <2>1. stage' = stage /\ sem' = sem /\ active' = active /\ wg' = wg
    BY <1>16 DEF StopClose, channel
  <2>2. Counted' = Counted
    BY <1>16 DEF StopClose, Counted, channel
  <2>3. QED
    BY <1>a, <1>b, <2>1, <2>2
<1>17. ASSUME NEW s \in Stoppers, StopWait(s) PROVE Goal
  <2>1. stage' = stage /\ sem' = sem /\ active' = active /\ wg' = wg
    BY <1>17 DEF StopWait, channel
  <2>2. Counted' = Counted
    BY <1>17 DEF StopWait, Counted, channel
  <2>3. QED
    BY <1>a, <1>b, <2>1, <2>2
<1>18. ASSUME NEW s \in Stoppers, StopCancelLast(s) PROVE Goal
  <2>1. stage' = stage /\ sem' = sem /\ active' = active /\ wg' = wg
    BY <1>18 DEF StopCancelLast, channel
  <2>2. Counted' = Counted
    BY <1>18 DEF StopCancelLast, Counted, channel
  <2>3. QED
    BY <1>a, <1>b, <2>1, <2>2
<1>19. ASSUME UNCHANGED vars PROVE Goal
  <2>1. stage' = stage /\ sem' = sem /\ active' = active /\ wg' = wg
    BY <1>19 DEF vars, channel
  <2>2. Counted' = Counted
    BY <1>19 DEF vars, Counted, channel
  <2>3. QED
    BY <1>a, <1>b, <2>1, <2>2
<1>20. Goal => CountersExact'
  BY DEF CountersExact, Number, In
<1> HIDE DEF Typed, Goal
<1>21. QED
  BY <1>1, <1>2, <1>3, <1>4, <1>5, <1>6, <1>7, <1>8, <1>9, <1>10, <1>11, <1>12, <1>13, <1>14, <1>15, <1>16, <1>17, <1>18, <1>19, <1>20 DEF Next, Step, SubmitStep, DispatchStep, WorkerStep, StopStep
-----------------------------------------------------------------------------
(* The safety properties *)

(* The initial state has nothing to count and nobody who has won. *)
LEMMA PoolInvInit == Init => PoolInv
<1> SUFFICES ASSUME Init PROVE PoolInv
  OBVIOUS
<1>1. Typed
  BY PoolTypeInit
<1>2. CountersExact
  <2>1. In(HoldsToken) = {} /\ In(IsActive) = {} /\ Counted = {}
    BY DEF Init, In, HoldsToken, IsActive, Counted
  <2>2. sem = 0 /\ active = 0 /\ wg = 0
    BY DEF Init
  <2>3. Cardinality({}) = 0
    BY FS_EmptySet
  <2>4. QED
    BY <2>1, <2>2, <2>3, SizesPositive DEF CountersExact
<1>3. OneWinner /\ CloseInv /\ CancelInv
  BY DEF Init, OneWinner, CloseInv, CancelInv, Won
<1>4. SentInv /\ ReportsInv
  BY DEF Init, SentInv, ReportsInv
<1>5. QueueInv
  <2>1. taskQueue = <<>> /\ Len(taskQueue) = 0 /\ Dispatching = {}
    BY DEF Init, Dispatching, In
  <2>2. \A j \in Jobs : stage[j] # "queued"
    BY DEF Init
  <2>3. QED
    BY <2>1, <2>2, SizesPositive DEF QueueInv
<1>6. ShutdownDrains
  BY DEF Init, ShutdownDrains
<1>7. TypeOK
  BY <1>1, <1>2, TypeFromCounters
<1>8. QED
  BY <1>2, <1>3, <1>4, <1>5, <1>6, <1>7 DEF PoolInv

(* Every step keeps the invariant. *)
LEMMA PoolInvStep == PoolInv /\ [Next]_vars => PoolInv'
<1> SUFFICES ASSUME PoolInv, [Next]_vars PROVE PoolInv'
  OBVIOUS
<1> USE DEF PoolInv
<1>0. Typed
  BY TypeFromCounters
<1>1. Typed'
  BY <1>0, TypeInvariance
<1>2. OneWinner' /\ CloseInv' /\ CancelInv'
  BY <1>0, WinnerInvariance
<1>3. SentInv' /\ ReportsInv'
  BY <1>0, SentInvariance
<1>4. QueueInv'
  BY <1>0, QueueInvariance
<1>5. CountersExact'
  BY <1>0, CounterInvariance
<1>6. ShutdownDrains'
  BY <1>0, DrainInvariance
<1>7. TypeOK'
  BY <1>1, <1>5, TypeFromCounters, PTL
<1>8. QED
  BY <1>2, <1>3, <1>4, <1>5, <1>6, <1>7

(* Every slot that is taken belongs to an active job, but for the one the    *)
(* dispatcher is just handing over.                                         *)
LEMMA HoldersAreActive ==
  ASSUME PoolInv, In({"slotted"}) = {}
  PROVE  sem <= active
<1>1. In(HoldsToken) \subseteq In(IsActive)
  BY DEF In, HoldsToken, IsActive
<1>2. IsFiniteSet(In(IsActive))
  BY JobsAssumption, FS_Subset DEF In
<1>3. Cardinality(In(HoldsToken)) <= Cardinality(In(IsActive))
  BY <1>1, <1>2, FS_Subset
<1>4. QED
  BY <1>3 DEF PoolInv, CountersExact

(* The inductive invariant holds in every reachable state. *)
THEOREM PoolInvariant == Spec => []PoolInv
  BY PoolInvInit, PoolInvStep, PTL DEF Spec

(* Type correctness of the pool: no counter ever goes below zero, and the    *)
(* semaphore never over its capacity.                                       *)
THEOREM PoolTypeCorrect == Spec => []TypeOK
<1>1. PoolInv => TypeOK
  BY DEF PoolInv
<1>2. QED
  BY <1>1, PoolInvariant, PTL

(* No interleaving puts more jobs inside Execute than the pool has slots. *)
THEOREM PoolBounded == Spec => []ExecutingWithinSize
<1>1. PoolInv => ExecutingWithinSize
  <2> SUFFICES ASSUME PoolInv PROVE ExecutingWithinSize
    OBVIOUS
  <2>1. IsFiniteSet(In(HoldsToken)) /\ Executing \subseteq In(HoldsToken)
    BY JobsAssumption, FS_Subset DEF In, Executing, HoldsToken
  <2>2. Cardinality(Executing) <= Cardinality(In(HoldsToken))
    BY <2>1, FS_Subset
  <2>3. Cardinality(Executing) \in Nat /\ Cardinality(In(HoldsToken)) \in Nat
    BY <2>1, FS_Subset, FS_CardinalityType
  <2>4. QED
    BY <2>2, <2>3, SizesPositive DEF ExecutingWithinSize, PoolInv, CountersExact
<1>2. QED
  BY <1>1, PoolInvariant, PTL

(* ActiveWorkers never under-reports: the poll loop's back-pressure is never *)
(* computed from fewer jobs than are executing.                             *)
THEOREM PoolActiveCovers == Spec => []ActiveCoversExecuting
<1>1. PoolInv => ActiveCoversExecuting
  <2> SUFFICES ASSUME PoolInv PROVE ActiveCoversExecuting
    OBVIOUS
  <2>1. IsFiniteSet(In(IsActive)) /\ Executing \subseteq In(IsActive)
    BY JobsAssumption, FS_Subset DEF In, Executing, IsActive
  <2>2. Cardinality(Executing) <= Cardinality(In(IsActive))
    BY <2>1, FS_Subset
  <2>3. QED
    BY <2>2 DEF ActiveCoversExecuting, PoolInv, CountersExact
<1>2. QED
  BY <1>1, PoolInvariant, PTL

(* The shutdown that won the CAS returns only when nothing is left in the    *)
(* pool, and nothing enters it afterwards.                                  *)
THEOREM PoolShutdownDrains == Spec => []ShutdownDrains
<1>1. PoolInv => ShutdownDrains
  BY DEF PoolInv
<1>2. QED
  BY <1>1, PoolInvariant, PTL

(* Exactly one OnError or OnCompleted per job. *)
THEOREM PoolReportedOnce == Spec => []ReportedOnce
<1>1. PoolInv => ReportedOnce
  BY DEF PoolInv, ReportsInv, ReportedOnce
<1>2. QED
  BY <1>1, PoolInvariant, PTL

(* Only a winning ShutdownNow cancels the context of an executing job. *)
THEOREM PoolGracefulNeverCancels == Spec => []GracefulNeverCancels
<1>1. PoolInv => GracefulNeverCancels
  <2> SUFFICES ASSUME PoolInv, cancelled, Executing # {}
               PROVE  \E s \in Forced : stop[s] \in {"closing", "waiting"}
    BY DEF GracefulNeverCancels
  <2>1. PICK s \in Stoppers : \/ stop[s] = "returned"
                              \/ s \in Forced /\ stop[s] \in {"closing", "waiting"}
    BY DEF PoolInv, CancelInv
  <2>2. PICK j \in Jobs : stage[j] = "executing"
    BY DEF Executing, In
  <2>3. j \in In(Stage \ {"none", "done"})
    BY <2>2 DEF In, Stage
  <2>4. stop[s] # "returned"
    BY <2>3 DEF PoolInv, ShutdownDrains
  <2>5. QED
    BY <2>1, <2>4
<1>2. QED
  BY <1>1, PoolInvariant, PTL

-----------------------------------------------------------------------------
(* The pool implements PoolContract: its initial state maps to an initial    *)
(* state, and every step to a step of the contract or to a stutter.         *)


Mapped == <<Pending, Begun, Ended, Refused, Phase>>

(* With an empty dispatcher the pending jobs are the queue; otherwise the    *)
(* job in its hand comes first.                                             *)
LEMMA PendingShape ==
  ASSUME PoolInv
  PROVE  /\ Dispatching = {} => Handed = <<>> /\ Pending = taskQueue
         /\ \A j \in Dispatching : Handed = <<j>> /\ Pending = <<j>> \o taskQueue
         /\ taskQueue \in Seq(Jobs) /\ Handed \in Seq(Jobs)
<1>1. taskQueue \in Seq(Jobs) /\ \A i, j \in Dispatching : i = j
  BY DEF PoolInv, TypeOK, QueueInv
<1>2. Dispatching \subseteq Jobs
  BY DEF Dispatching, In
<1>3. CASE Dispatching = {}
  <2>1. Handed = <<>>
    BY <1>3 DEF Handed
  <2>2. Pending = taskQueue
    BY <1>1, <2>1 DEF Pending
  <2>3. QED
    BY <1>1, <1>3, <2>1, <2>2
<1>4. ASSUME NEW j \in Dispatching
      PROVE  Handed = <<j>> /\ Pending = <<j>> \o taskQueue
  <2>1. (CHOOSE i \in Jobs : i \in Dispatching) = j
    BY <1>1, <1>2, <1>4
  <2>2. QED
    BY <1>4, <2>1 DEF Handed, Pending
<1>5. CASE Dispatching # {}
  <2>1. PICK j \in Dispatching : TRUE
    BY <1>5
  <2>2. Handed = <<j>> /\ j \in Jobs
    BY <1>2, <1>4, <2>1
  <2>3. QED
    BY <1>1, <1>4, <1>5, <2>2
<1>6. QED
  BY <1>3, <1>5

(* The dispatcher's hand only depends on which jobs it holds. *)
LEMMA HandedUnchanged ==
  ASSUME Dispatching' = Dispatching
  PROVE  Handed' = Handed
BY DEF Handed

(* Every job of Pending is queued or in the dispatcher's hand. *)
LEMMA PendingStages ==
  ASSUME PoolInv, NEW i \in 1..Len(Pending)
  PROVE  Pending[i] \in In({"queued", "held", "slotted"})
<1>1. CASE Dispatching = {}
  <2>1. Pending = taskQueue /\ taskQueue \in Seq(Jobs)
    BY <1>1, PendingShape
  <2>2. QED
    BY <2>1 DEF PoolInv, QueueInv, In
<1>2. ASSUME NEW j \in Dispatching PROVE Pending[i] \in In({"queued", "held", "slotted"})
  <2>1. Pending = <<j>> \o taskQueue /\ taskQueue \in Seq(Jobs) /\ j \in Jobs
    BY <1>2, PendingShape DEF Dispatching, In
  <2>2. CASE i = 1
    BY <1>2, <2>1, <2>2 DEF Dispatching, In
  <2>3. CASE i # 1
    <3>1. i - 1 \in 1..Len(taskQueue) /\ Pending[i] = taskQueue[i - 1]
      BY <2>1, <2>3
    <3>2. QED
      BY <2>1, <3>1 DEF PoolInv, QueueInv, In
  <2>4. QED
    BY <2>2, <2>3
<1>3. QED
  BY <1>1, <1>2

-----------------------------------------------------------------------------
(* The phase seen by the contract, in terms of the invariant. *)
LEMMA PhaseFacts ==
  ASSUME PoolInv
  PROVE  /\ ~closed => Phase = IF running THEN "open" ELSE "stopping"
         /\ ~running => Phase # "open"
         /\ (\E s \in Stoppers : Past(s)) => closed /\ Phase = "drained"
         /\ closed /\ ~(\E s \in Stoppers : Past(s)) => Phase = "closed"
BY DEF PoolInv, CloseInv, Phase, Past

(* A step that moves no job between the contract's sets and does not change  *)
(* the phase is a stutter of the contract.                                  *)
LEMMA Stutter ==
  ASSUME taskQueue' = taskQueue, Dispatching' = Dispatching, Begun' = Begun,
         Ended' = Ended, Refused' = Refused, Phase' = Phase
  PROVE  Mapped' = Mapped
<1>1. Handed' = Handed
  BY HandedUnchanged
<1>2. Pending' = Pending
  BY <1>1 DEF Pending
<1>3. QED
  BY <1>2 DEF Mapped

(* A job whose Submit has not got to the send is unknown to the contract. *)
LEMMA FreshJob ==
  ASSUME PoolInv, NEW j \in Jobs, sub[j] \in {"idle", "sending"}
  PROVE  j \notin Contract!Accepted \cup Refused
<1>1. stage[j] = "none"
  BY DEF PoolInv, SentInv
<1>2. \A i \in 1..Len(Pending) : Pending[i] # j
  BY <1>1, PendingStages DEF In
<1>3. j \notin Begun /\ j \notin Ended /\ j \notin Refused
  BY <1>1 DEF Begun, Ended, Refused, In
<1>4. QED
  BY <1>2, <1>3 DEF Contract!Accepted

(* Submit *)

LEMMA CheckRefines ==
  ASSUME PoolInv, NEW j \in Jobs, SubmitCheck(j)
  PROVE  Contract!Refuse(j) \/ Mapped' = Mapped
<1>1. /\ taskQueue' = taskQueue /\ stage' = stage /\ stop' = stop /\ closed' = closed
      /\ running' = running
  BY DEF SubmitCheck, channel
<1>2. /\ Dispatching' = Dispatching /\ Begun' = Begun /\ Ended' = Ended /\ Phase' = Phase
  BY <1>1 DEF Dispatching, Begun, Ended, In, Phase
<1>3. CASE running
  <2>1. Refused' = Refused
    BY <1>3 DEF SubmitCheck, Refused, PoolInv, TypeOK
  <2>2. QED
    BY <1>1, <1>2, <2>1, Stutter
<1>4. CASE ~running
  <2>1. sub' = [sub EXCEPT ![j] = "refused"] /\ sub[j] = "idle"
    BY <1>4 DEF SubmitCheck
  <2>2. Refused' = Refused \cup {j}
    BY <2>1 DEF Refused, PoolInv, TypeOK
  <2>3. j \notin Contract!Accepted \cup Refused
    BY <2>1, FreshJob
  <2>4. Pending' = Pending
    BY <1>1, <1>2, HandedUnchanged DEF Pending
  <2>5. Phase # "open"
    BY <1>4, PhaseFacts
  <2>6. QED
    BY <1>2, <2>2, <2>3, <2>4, <2>5 DEF Contract!Refuse
<1>5. QED
  BY <1>3, <1>4

LEMMA SendRefines ==
  ASSUME PoolInv, NEW j \in Jobs, SubmitSend(j)
  PROVE  Contract!Accept(j)
<1>1. /\ sub[j] = "sending" /\ ~closed /\ taskQueue' = Append(taskQueue, j)
      /\ sub' = [sub EXCEPT ![j] = "sent"] /\ stage' = [stage EXCEPT ![j] = "queued"]
      /\ stop' = stop /\ closed' = closed /\ running' = running
  BY DEF SubmitSend
<1>2. stage[j] = "none" /\ stage \in [Jobs -> Stage] /\ sub \in [Jobs -> SubState]
  BY <1>1 DEF PoolInv, SentInv, TypeOK
<1>3. Dispatching' = Dispatching /\ Begun' = Begun /\ Ended' = Ended
  BY <1>1, <1>2 DEF Dispatching, Begun, Ended, In
<1>4. Refused' = Refused
  BY <1>1, <1>2 DEF Refused
<1>5. Handed' = Handed /\ Handed \in Seq(Jobs) /\ taskQueue \in Seq(Jobs)
  BY <1>3, HandedUnchanged, PendingShape
<1>6. Pending' = Append(Pending, j)
  BY <1>1, <1>5 DEF Pending
<1>7. Phase' = Phase
  BY <1>1 DEF Phase
<1>8. Phase \in {"open", "stopping"}
  BY <1>1, PhaseFacts
<1>9. j \notin Contract!Accepted \cup Refused
  BY <1>1, FreshJob
<1>10. QED
  BY <1>3, <1>4, <1>6, <1>7, <1>8, <1>9 DEF Contract!Accept

(* dispatch *)

LEMMA ReceiveRefines ==
  ASSUME PoolInv, DispatchReceive
  PROVE  Mapped' = Mapped
<1> DEFINE h == Head(taskQueue)
<1>1. /\ Dispatching = {} /\ taskQueue # <<>> /\ taskQueue' = Tail(taskQueue)
      /\ stage' = [stage EXCEPT ![h] = "held"] /\ stop' = stop /\ sub' = sub
      /\ closed' = closed /\ running' = running
  BY DEF DispatchReceive
<1>2. taskQueue \in Seq(Jobs) /\ stage \in [Jobs -> Stage] /\ h \in Jobs /\ stage[h] = "queued"
  BY <1>1 DEF PoolInv, TypeOK, QueueInv
<1>3. Dispatching' = {h}
  BY <1>1, <1>2 DEF Dispatching, In
<1>4. Handed' = <<h>>
  BY <1>2, <1>3 DEF Handed
<1>5. Pending' = <<h>> \o Tail(taskQueue)
  BY <1>1, <1>4 DEF Pending
<1>6. Pending = taskQueue
  BY <1>1, PendingShape
<1>7. <<h>> \o Tail(taskQueue) = taskQueue
  BY <1>1, <1>2
<1>8. Begun' = Begun /\ Ended' = Ended /\ Refused' = Refused /\ Phase' = Phase
  BY <1>1, <1>2 DEF Begun, Ended, Refused, In, Phase
<1>9. QED
  BY <1>5, <1>6, <1>7, <1>8 DEF Mapped

LEMMA SpawnRefines ==
  ASSUME PoolInv, NEW j \in Jobs, DispatchSpawn(j)
  PROVE  Contract!Begin
<1>1. /\ stage[j] = "slotted" /\ stage' = [stage EXCEPT ![j] = "executing"]
      /\ taskQueue' = taskQueue /\ stop' = stop /\ sub' = sub /\ closed' = closed
      /\ running' = running
  BY DEF DispatchSpawn, channel
<1>2. stage \in [Jobs -> Stage] /\ taskQueue \in Seq(Jobs)
  BY DEF PoolInv, TypeOK
<1>3. j \in Dispatching
  BY <1>1 DEF Dispatching, In
<1>4. Pending = <<j>> \o taskQueue
  BY <1>3, PendingShape
<1>5. Dispatching' = {}
  BY <1>1, <1>2, <1>3 DEF PoolInv, QueueInv, Dispatching, In
<1>6. Pending' = taskQueue
  <2>1. Handed' = <<>>
    BY <1>5 DEF Handed
  <2>2. QED
    BY <1>1, <1>2, <2>1 DEF Pending
<1>7. Pending # <<>> /\ Head(Pending) = j /\ Pending' = Tail(Pending)
  BY <1>2, <1>4, <1>6
<1>8. Begun' = Begun \cup {j}
  BY <1>1, <1>2 DEF Begun, In
<1>9. Cardinality(Begun) < PoolSize
  <2>1. /\ IsFiniteSet(In(HoldsToken)) /\ Begun \subseteq In(HoldsToken)
        /\ j \in In(HoldsToken) /\ j \notin Begun
    BY <1>1, JobsAssumption, FS_Subset DEF In, Begun, HoldsToken
  <2>2. Begun \subseteq In(HoldsToken) \ {j}
    BY <2>1
  <2>3. /\ IsFiniteSet(In(HoldsToken) \ {j})
        /\ Cardinality(In(HoldsToken) \ {j}) = Cardinality(In(HoldsToken)) - 1
    BY <2>1, FS_RemoveElement
  <2>4. Cardinality(Begun) <= Cardinality(In(HoldsToken)) - 1
    BY <2>2, <2>3, FS_Subset
  <2>5. Cardinality(Begun) \in Nat /\ Cardinality(In(HoldsToken)) \in Nat
    BY <2>1, <2>2, <2>3, FS_Subset, FS_CardinalityType
  <2>6. Cardinality(In(HoldsToken)) <= PoolSize
    BY DEF PoolInv, CountersExact
  <2>7. QED
    BY <2>4, <2>5, <2>6, SizesPositive
<1>10. Ended' = Ended /\ Refused' = Refused /\ Phase' = Phase
  BY <1>1, <1>2 DEF Ended, Refused, In, Phase
<1>11. Begun' = Begun \cup {Head(Pending)}
  BY <1>7, <1>8
<1>12. QED
  <2>1. Contract!Cardinality(Begun) = Cardinality(Begun)
    BY DEF Cardinality, Contract!Cardinality, IsFiniteSet, Contract!IsFiniteSet
  <2>2. QED
    BY <2>1, <1>7, <1>9, <1>10, <1>11, Zenon DEF Contract!Begin

LEMMA AcquireRefines ==
  ASSUME PoolInv, NEW j \in Jobs, DispatchAcquire(j)
  PROVE  Mapped' = Mapped
<1>1. /\ stage[j] = "held" /\ stage' = [stage EXCEPT ![j] = "slotted"]
      /\ taskQueue' = taskQueue /\ stop' = stop /\ sub' = sub /\ closed' = closed
      /\ running' = running
  BY DEF DispatchAcquire, channel
<1>2. stage \in [Jobs -> Stage]
  BY DEF PoolInv, TypeOK
<1>3. /\ Dispatching' = Dispatching /\ Begun' = Begun /\ Ended' = Ended
      /\ Refused' = Refused /\ Phase' = Phase
  BY <1>1, <1>2 DEF Dispatching, Begun, Ended, Refused, In, Phase
<1>4. QED
  BY <1>1, <1>3, Stutter

(* The worker *)

LEMMA ReportRefines ==
  ASSUME PoolInv, NEW j \in Jobs, WorkerReport(j)
  PROVE  Contract!End(j)
<1>1. /\ stage[j] \in {"ok", "bad"} /\ stage' = [stage EXCEPT ![j] = "leaving"]
      /\ taskQueue' = taskQueue /\ stop' = stop /\ sub' = sub /\ closed' = closed
      /\ running' = running
  BY DEF WorkerReport, channel
<1>2. stage \in [Jobs -> Stage]
  BY DEF PoolInv, TypeOK
<1>3. Dispatching' = Dispatching /\ Refused' = Refused /\ Phase' = Phase
  BY <1>1, <1>2 DEF Dispatching, Refused, In, Phase
<1>4. j \in Begun /\ Begun' = Begun \ {j} /\ Ended' = Ended \cup {j}
  BY <1>1, <1>2 DEF Begun, Ended, In
<1>5. Pending' = Pending
  BY <1>1, <1>3, HandedUnchanged DEF Pending
<1>6. QED
  BY <1>3, <1>4, <1>5 DEF Contract!End

(* The other steps of the worker are invisible to the contract. *)
LEMMA WorkerStutters ==
  ASSUME PoolInv, NEW j \in Jobs,
         WorkerFinish(j) \/ WorkerRelease(j) \/ WorkerUncount(j) \/ WorkerDone(j)
  PROVE  Mapped' = Mapped
<1>1. /\ taskQueue' = taskQueue /\ stop' = stop /\ sub' = sub /\ closed' = closed
      /\ running' = running
  BY DEF WorkerFinish, WorkerRelease, WorkerUncount, WorkerDone, channel
<1>2. stage \in [Jobs -> Stage]
  BY DEF PoolInv, TypeOK
<1>3. PICK b \in {"ok", "bad", "released", "uncounted", "done"} :
        /\ stage' = [stage EXCEPT ![j] = b]
        /\ b \in {"ok", "bad"} => stage[j] = "executing"
        /\ b \notin {"ok", "bad"} => stage[j] \in {"leaving", "released", "uncounted"}
  BY DEF WorkerFinish, WorkerRelease, WorkerUncount, WorkerDone
<1>4. Dispatching' = Dispatching /\ Begun' = Begun /\ Ended' = Ended
  BY <1>2, <1>3 DEF Dispatching, Begun, Ended, In
<1>5. Refused' = Refused /\ Phase' = Phase
  BY <1>1 DEF Refused, Phase
<1>6. QED
  BY <1>1, <1>4, <1>5, Stutter

(* Shutdown and ShutdownNow *)

(* They move no job. *)
LEMMA StopMovesNoJob ==
  ASSUME taskQueue' = taskQueue, stage' = stage, sub' = sub
  PROVE  Pending' = Pending /\ Begun' = Begun /\ Ended' = Ended /\ Refused' = Refused
<1>1. Dispatching' = Dispatching /\ Begun' = Begun /\ Ended' = Ended /\ Refused' = Refused
  BY DEF Dispatching, Begun, Ended, Refused, In
<1>2. QED
  BY <1>1, HandedUnchanged DEF Pending

LEMMA StopRefines ==
  ASSUME PoolInv, NEW s \in Stoppers, StopCAS(s) \/ StopStep(s)
  PROVE  Contract!Stop \/ Contract!Close \/ Contract!Drain \/ Mapped' = Mapped
<1> DEFINE Over == \E t \in Stoppers : stop[t] \in {"cancelLast", "returned"}
<1>1. taskQueue' = taskQueue /\ stage' = stage /\ sub' = sub
  BY DEF StopCAS, StopStep, StopCancelFirst, StopClose, StopWait, StopCancelLast, channel
<1>2. Pending' = Pending /\ Begun' = Begun /\ Ended' = Ended /\ Refused' = Refused
  BY <1>1, StopMovesNoJob
<1>3. stop \in [Stoppers -> StopState]
  BY DEF PoolInv, TypeOK
<1>4. \A t \in Stoppers : stop[t] \notin {"idle", "lost"} /\ stop[s] \notin {"idle", "lost"} => t = s
  BY DEF PoolInv, OneWinner, Won
<1>5. CASE StopCAS(s)
  <2>1. Over' <=> Over
    BY <1>3, <1>5 DEF StopCAS
  <2>2. closed' = closed /\ ~running'
    BY <1>5 DEF StopCAS, channel
  <2>3. CASE running
    <3>1. ~Over /\ ~closed
      BY <2>3 DEF PoolInv, OneWinner, CloseInv
    <3>2. Phase = "open" /\ Phase' = "stopping"
      BY <2>1, <2>2, <2>3, <3>1 DEF Phase
    <3>3. QED
      BY <1>2, <3>2 DEF Contract!Stop
  <2>4. CASE ~running
    <3>1. Phase' = Phase
      BY <2>1, <2>2, <2>4 DEF Phase
    <3>2. QED
      BY <1>2, <3>1 DEF Mapped
  <2>5. QED
    BY <2>3, <2>4
<1>6. CASE StopCancelFirst(s)
  <2>1. (Over' <=> Over) /\ closed' = closed /\ running' = running
    BY <1>3, <1>6 DEF StopCancelFirst, channel
  <2>2. Phase' = Phase
    BY <2>1 DEF Phase
  <2>3. QED
    BY <1>2, <2>2 DEF Mapped
<1>7. CASE StopClose(s)
  <2>1. stop[s] = "closing" /\ stop' = [stop EXCEPT ![s] = "waiting"] /\ closed'
    BY <1>7 DEF StopClose
  <2>2. ~Over /\ ~Over' /\ ~closed /\ ~running
    BY <1>3, <1>4, <2>1 DEF PoolInv, OneWinner, CloseInv
  <2>3. Phase = "stopping" /\ Phase' = "closed"
    BY <2>1, <2>2 DEF Phase
  <2>4. QED
    BY <1>2, <2>3 DEF Contract!Close
<1>8. CASE StopWait(s)
  <2>1. /\ stop[s] = "waiting" /\ wg = 0
        /\ stop' = [stop EXCEPT ![s] = IF s \in Forced THEN "returned" ELSE "cancelLast"]
    BY <1>8 DEF StopWait
  <2>2. ~Over /\ Over' /\ closed
    BY <1>3, <1>4, <2>1 DEF PoolInv, CloseInv
  <2>3. Phase = "closed" /\ Phase' = "drained"
    BY <2>2 DEF Phase
  <2>4. \A j \in Jobs : stage[j] \in {"none", "done"}
    <3>1. Cardinality(Counted) = 0 /\ IsFiniteSet(Counted)
      BY <2>1, JobsAssumption, FS_Subset DEF PoolInv, CountersExact, Counted
    <3>2. Counted = {}
      BY <3>1, FS_EmptySet
    <3>3. QED
      BY <3>2 DEF Counted
  <2>5. Begun = {} /\ Dispatching = {}
    BY <2>4 DEF Begun, Dispatching, In
  <2>6. Pending = <<>>
    <3>1. Pending = taskQueue /\ taskQueue \in Seq(Jobs)
      BY <2>5, PendingShape
    <3>2. \A i \in 1..Len(taskQueue) : taskQueue[i] \in Jobs /\ stage[taskQueue[i]] = "queued"
      BY <3>1 DEF PoolInv, QueueInv
    <3>3. Len(taskQueue) = 0
      BY <2>4, <3>1, <3>2
    <3>4. QED
      BY <3>1, <3>3
  <2>7. QED
    BY <1>2, <2>3, <2>5, <2>6 DEF Contract!Drain
<1>9. CASE StopCancelLast(s)
  <2>1. (Over' <=> Over) /\ closed' = closed /\ running' = running
    BY <1>3, <1>9 DEF StopCancelLast, channel
  <2>2. Phase' = Phase
    BY <2>1 DEF Phase
  <2>3. QED
    BY <1>2, <2>2 DEF Mapped
<1>10. QED
  BY <1>5, <1>6, <1>7, <1>8, <1>9 DEF StopStep

-----------------------------------------------------------------------------
(* The initial state of the pool is the contract's. *)
LEMMA InitRefines == Init => Contract!Init
<1> SUFFICES ASSUME Init PROVE Contract!Init
  OBVIOUS
<1>1. Dispatching = {} /\ taskQueue = <<>> /\ Begun = {} /\ Ended = {} /\ Refused = {}
  BY DEF Init, Dispatching, Begun, Ended, Refused, In
<1>2. Pending = <<>>
  BY <1>1 DEF Handed, Pending
<1>3. Phase = "open"
  BY DEF Init, Phase
<1>4. QED
  BY <1>1, <1>2, <1>3 DEF Contract!Init

(* Every step of the pool is a step of the contract or invisible to it. *)
LEMMA StepRefines == PoolInv /\ [Next]_vars => [Contract!Next]_(Contract!vars)
<1> SUFFICES ASSUME PoolInv, [Next]_vars
             PROVE  Contract!Next \/ Mapped' = Mapped
  BY DEF Contract!vars, Mapped
<1>1. ASSUME NEW j \in Jobs, SubmitCheck(j) PROVE Contract!Next \/ Mapped' = Mapped
  BY <1>1, CheckRefines DEF Contract!Next
<1>2. ASSUME NEW j \in Jobs, SubmitStep(j) PROVE Contract!Next \/ Mapped' = Mapped
  <2>1. CASE SubmitSend(j)
    BY <2>1, SendRefines DEF Contract!Next
  <2>2. CASE SubmitAdd(j) \/ SubmitPanic(j) \/ SubmitReturn(j)
    <3>1. /\ taskQueue' = taskQueue /\ stage' = stage /\ stop' = stop
          /\ closed' = closed /\ running' = running
      BY <2>2 DEF SubmitAdd, SubmitPanic, SubmitReturn, channel
    <3>2. Refused' = Refused
      BY <2>2 DEF SubmitAdd, SubmitPanic, SubmitReturn, Refused, PoolInv, TypeOK
    <3>3. Dispatching' = Dispatching /\ Begun' = Begun /\ Ended' = Ended /\ Phase' = Phase
      BY <3>1 DEF Dispatching, Begun, Ended, In, Phase
    <3>4. QED
      BY <3>1, <3>2, <3>3, Stutter
  <2>3. QED
    BY <1>2, <2>1, <2>2 DEF SubmitStep
<1>3. ASSUME NEW j \in Jobs, WorkerStep(j) PROVE Contract!Next \/ Mapped' = Mapped
  BY <1>3, ReportRefines, WorkerStutters DEF WorkerStep, Contract!Next
<1>4. ASSUME DispatchStep PROVE Contract!Next \/ Mapped' = Mapped
  BY <1>4, ReceiveRefines, AcquireRefines, SpawnRefines DEF DispatchStep, Contract!Next
<1>5. ASSUME NEW s \in Stoppers, StopCAS(s) \/ StopStep(s) PROVE Contract!Next \/ Mapped' = Mapped
  BY <1>5, StopRefines DEF Contract!Next
<1>6. ASSUME UNCHANGED vars PROVE Mapped' = Mapped
  <2>1. /\ taskQueue' = taskQueue /\ stage' = stage /\ stop' = stop /\ sub' = sub
        /\ closed' = closed /\ running' = running
    BY <1>6 DEF vars, channel
  <2>2. Phase' = Phase
    BY <2>1 DEF Phase
  <2>3. QED
    BY <2>1, <2>2, StopMovesNoJob DEF Mapped
<1>7. QED
  BY <1>1, <1>2, <1>3, <1>4, <1>5, <1>6 DEF Next, Step

(* The pool keeps the contract: order, size, refusals and the drain. *)
THEOREM PoolImplementsContract == Spec => ImplementsContract
  BY InitRefines, StepRefines, PoolInvariant, PTL DEF Spec, ImplementsContract, Contract!Spec
=============================================================================
