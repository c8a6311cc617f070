---------------------------- MODULE SessionProofs ----------------------------
(* The session for any set of goroutines, of jobs and any retry policy: it   *)
(* registers by the retrier's own steps, so what is proved of the retrier    *)
(* holds inside it, and the one-shot guard, the jobs and the backoff of the  *)
(* dispatcher hold however the calls interleave.                            *)
EXTENDS Session, NatRecursion

(* The theorems about the retrier, for the registration. *)
Proved == INSTANCE RetrierProofs WITH Errors <- RegisterErrors, pc <- regPc

LEMMA RegisterPolicy ==
  /\ Proved!ErrorsAssumption /\ Proved!AttemptsAssumption
  /\ Proved!BackoffAssumption /\ Proved!JitterAssumption
<1>1. Proved!ErrorsAssumption
  BY DEF Proved!ErrorsAssumption, Proved!Error, Proved!Cause, RegisterErrors
<1>2. QED
  BY <1>1, PolicyAssumption DEF Register!AttemptsAssumption, Register!BackoffAssumption,
     Register!JitterAssumption, Proved!AttemptsAssumption, Proved!BackoffAssumption,
     Proved!JitterAssumption

-----------------------------------------------------------------------------
(* The retrier's operations as the session names them are those of the       *)
(* theorems.                                                                *)

LEMMA DoIsProved == Register!Do => Proved!Do
<1> SUFFICES ASSUME Register!Do PROVE Proved!Do
  OBVIOUS
<1> USE DEF Register!Return, Register!Goto, Proved!Return, Proved!Goto
<1>1. CASE Register!CheckContext
  BY <1>1 DEF Register!CheckContext, Proved!CheckContext, Proved!Do
<1>2. CASE Register!CallSucceeds
  BY <1>2 DEF Register!CallSucceeds, Proved!CallSucceeds, Proved!Do
<1>3. CASE \E e \in RegisterErrors : Register!CallFails(e)
  <2>1. PICK e \in RegisterErrors : Register!CallFails(e)
    BY <1>3
  <2>2. ~Register!IsRetryableError(e) /\ ~Proved!IsRetryableError(e)
    BY DEF RegisterErrors, Register!IsRetryableError, Proved!IsRetryableError
  <2>3. Proved!CallFails(e)
    BY <2>1, <2>2 DEF Register!CallFails, Proved!CallFails
  <2>4. QED
    BY <2>3 DEF Proved!Do
<1>4. CASE Register!PauseEnds
  BY <1>4 DEF Register!PauseEnds, Proved!PauseEnds, Proved!Do
<1>5. CASE Register!PauseCancelled
  BY <1>5 DEF Register!PauseCancelled, Proved!PauseCancelled, Proved!Do
<1>6. QED
  BY <1>1, <1>2, <1>3, <1>4, <1>5 DEF Register!Do

(* Every step of the session is one of the retrier or leaves it alone. *)
LEMMA SessionStep == [Next]_vars => [Proved!Next]_Proved!vars
<1> SUFFICES ASSUME [Next]_vars PROVE [Proved!Next]_Proved!vars
  OBVIOUS
<1> USE DEF regVars, Proved!vars
<1>1. CASE \E c \in Callers : RegisterMachine(c)
  BY <1>1, DoIsProved DEF RegisterMachine, Proved!Next
<1>2. CASE CancelContext
  BY <1>2 DEF CancelContext, Register!CancelContext, Proved!CancelContext, Proved!Next
<1>3. CASE \E c \in Callers : \/ Start(c) \/ InitFails(c) \/ InitReady(c) \/ SyncMetadata(c)
                              \/ RunServes(c) \/ PullJob(c) \/ ExecuteJob(c)
                              \/ DispatchStart(c) \/ DispatchReturn(c)
  BY <1>3 DEF Start, InitFails, InitReady, SyncMetadata, RunServes, PullJob, ExecuteJob,
     DispatchStart, DispatchReturn, SessionUnchanged
<1>4. CASE Dispatcher \/ HeartbeatExit \/ \E j \in Jobs : Requeue(j)
  BY <1>4 DEF Requeue, Dispatcher, DispatchCheck, DispatchEmpty, DispatchFails, Handle, DispatchWake,
     DispatchJob, HeartbeatExit, SessionUnchanged
<1>5. CASE UNCHANGED vars
  BY <1>5 DEF vars
<1>6. QED
  BY <1>1, <1>2, <1>3, <1>4, <1>5 DEF Next, Caller

LEMMA SessionStarts == Init => Proved!Init
  BY DEF Init, Register!Init, Proved!Init

(* The registration is a run of retrier.Do, for whichever goroutine makes it *)
(* and whatever the others call meanwhile (agent_token.go:43-52).                *)
THEOREM SessionRunsTheRetrier == Spec => Proved!Spec
  BY SessionStarts, SessionStep, PTL DEF Spec, Proved!Spec

(* What Do returned for the registration is what happened. *)
THEOREM RegistrationExplained == Spec => []Register!ResultExplained
<1>1. Proved!ResultExplained => Register!ResultExplained
  BY DEF Proved!ResultExplained, Register!ResultExplained, Proved!Attempts, Register!Attempts,
     Proved!IsRetryableError, Register!IsRetryableError,
     Proved!IsRetryableStatus, Register!IsRetryableStatus
<1>2. Proved!Spec => []Proved!ResultExplained
  BY RegisterPolicy, Proved!RetrierResultExplained
<1>3. QED
  BY <1>1, <1>2, SessionRunsTheRetrier, PTL

-----------------------------------------------------------------------------
(* The inductive invariant *)

(* Who has got past the guard: one goroutine at most. *)
Past(c) == at[c] \notin {"idle", "refused"}

GuardHeld ==
    /\ \A c \in Callers : Past(c) => running
    /\ \A c, d \in Callers : Past(c) /\ Past(d) => c = d
    /\ ready => running

(* The registration fails at the first error, so the one call that may have  *)
(* reached the server is the one that ended it; the session is ready only    *)
(* after that call was answered.                                            *)
RegisteredOnce ==
    /\ regPc # "pause"
    /\ regPc # "over" => result = "none"
    /\ regPc # "over" \/ result = "ctx" => machines = 0
    /\ result = "nil" => machines = 1
    /\ machines \in {0, 1}
    /\ ready => regPc = "over" /\ result = "nil"
    /\ \A c \in Callers : at[c] \in {"sync", "serve"} => ready

Untouched == polled = NoJob /\ received = <<>> /\ handled = <<>> /\ loop = "off"

(* Whose turn it is to touch the jobs: nobody's before the session is ready, *)
(* that of RunOnce while it serves, that of the loop once Dispatch started   *)
(* it, whose hand is empty except while it handles a job.                   *)
TurnsTaken ==
    /\ ~ready => Untouched
    /\ \A c \in Callers :
        /\ at[c] = "register" \/ at[c] = "sync" => Untouched
        /\ Serving(c, "Dispatch") /\ loop = "off" => Untouched
        /\ Serving(c, "Run") => Untouched
        /\ Serving(c, "RunOnce") => loop = "off"
        /\ at[c] = "serve" /\ loop # "off" => method[c] = "Dispatch"
    /\ loop # "off" =>
        loop = "handle" <=> polled # NoJob

(* What the agent was told of is what it handled, then what is in its hand. *)
HandledInTurn ==
    /\ Len(received) = Len(handled) + (IF polled = NoJob THEN 0 ELSE 1)
    /\ \A i \in 1..Len(handled) : handled[i].job = received[i]
    /\ polled # NoJob => polled = received[Len(received)]

(* The backoff is the pause that follows the next failure. *)
BackoffInv == backoff = Capped(failures) /\ BackoffFollowsFailures

SessionInv ==
    TypeOK /\ GuardHeld /\ RegisteredOnce /\ TurnsTaken /\ HandledInTurn /\ BackoffInv

-----------------------------------------------------------------------------
(* The powers of two *)

LEMMA TwoToDef ==
  /\ \A n \in Nat : TwoTo[n] \in Nat
  /\ TwoTo[0] = 1
  /\ \A n \in Nat : TwoTo[n + 1] = 2 * TwoTo[n]
<1> DEFINE step == [n \in Nat |-> [v \in Nat |-> 2 * v]]
           Solves(g) == g = [n \in Nat |-> IF n = 0 THEN 1 ELSE 2 * g[n - 1]]
<1>1. step \in [Nat -> [Nat -> Nat]] /\ 1 \in Nat
  OBVIOUS
<1>2. PICK f \in [Nat -> Nat] : Iterates(f, 1, step)
  <2> HIDE DEF step
  <2>1. QED
    BY <1>1, NatRecursionExists, Zenon
<1>3. f[0] = 1 /\ \A n \in Nat : f[n + 1] = 2 * f[n]
  BY <1>2 DEF Iterates
<1>4. Solves(f)
  <2>1. ASSUME NEW n \in Nat
        PROVE  f[n] = IF n = 0 THEN 1 ELSE 2 * f[n - 1]
    <3>1. CASE n = 0
      BY <1>3, <3>1
    <3>2. CASE n # 0
      <4>1. n - 1 \in Nat /\ (n - 1) + 1 = n
        BY <3>2
      <4>2. QED
        BY <1>3, <3>2, <4>1
    <3>3. QED
      BY <3>1, <3>2
  <2>2. QED
    BY <2>1
<1>5. Solves(TwoTo)
  <2>1. TwoTo = CHOOSE g : Solves(g)
    BY DEF TwoTo
  <2> HIDE DEF Solves
  <2>2. QED
    BY <1>4, <2>1
<1>6. \A n \in Nat : TwoTo[n] \in Nat
  <2>0. \A n \in Nat : TwoTo[n] = IF n = 0 THEN 1 ELSE 2 * TwoTo[n - 1]
    BY <1>5
  <2> DEFINE S == {n \in Nat : TwoTo[n] \in Nat}
  <2>1. 0 \in S
    BY <2>0
  <2>2. ASSUME NEW n \in Nat, n \in S PROVE n + 1 \in S
    BY <2>0, <2>2
  <2> HIDE DEF S
  <2>3. \A n \in Nat : n \in S
    BY <2>1, <2>2, NatSetInduction
  <2>4. QED
    BY <2>3 DEF S
<1>7. QED
  BY <1>5, <1>6

(* Doubling up to the cap, as the loop does, is the power up to the cap. *)
LEMMA CappedSteps ==
  /\ Capped(0) = 1
  /\ \A n \in Nat : Capped(n) \in 1..CapOfBackoff
  /\ \A n \in Nat : Capped(n + 1) = IF 2 * Capped(n) < CapOfBackoff THEN 2 * Capped(n)
                                    ELSE CapOfBackoff
  /\ \A n \in Nat : n > 4 => Capped(n) = CapOfBackoff
<1> DEFINE S == {n \in Nat : TwoTo[n] >= 1 /\ (n > 4 => TwoTo[n] >= 32)}
<1>1. 0 \in S
  BY TwoToDef
<1>2. ASSUME NEW n \in Nat, n \in S PROVE n + 1 \in S
  <2>1. CASE n > 4
    BY <1>2, <2>1, TwoToDef
  <2>2. CASE n < 4
    BY <1>2, <2>2, TwoToDef
  <2>3. CASE n = 4
    <3>1. TwoTo[4 + 1] = 2 * TwoTo[3 + 1] /\ TwoTo[3 + 1] = 2 * TwoTo[2 + 1]
      BY TwoToDef
    <3>2. TwoTo[2 + 1] = 2 * TwoTo[1 + 1] /\ TwoTo[1 + 1] = 2 * TwoTo[0 + 1]
      BY TwoToDef
    <3>3. TwoTo[0 + 1] = 2
      BY TwoToDef
    <3>4. QED
      BY <2>3, <3>1, <3>2, <3>3
  <2>4. QED
    BY <2>1, <2>2, <2>3
<1> HIDE DEF S
<1>3. \A n \in Nat : n \in S
  BY <1>1, <1>2, NatSetInduction
<1>4. \A n \in Nat : TwoTo[n] \in Nat /\ TwoTo[n] >= 1 /\ (n > 4 => TwoTo[n] >= 32)
  BY <1>3, TwoToDef DEF S
<1>5. Capped(0) = 1 /\ \A n \in Nat : n > 4 => Capped(n) = CapOfBackoff
  BY <1>4, TwoToDef DEF Capped, CapOfBackoff
<1>6. ASSUME NEW n \in Nat
      PROVE  /\ Capped(n) \in 1..CapOfBackoff
             /\ Capped(n + 1) = IF 2 * Capped(n) < CapOfBackoff THEN 2 * Capped(n)
                                ELSE CapOfBackoff
  <2>1. TwoTo[n] \in Nat /\ TwoTo[n] >= 1 /\ TwoTo[n + 1] = 2 * TwoTo[n]
    BY <1>4, TwoToDef
  <2>2. QED
    BY <2>1 DEF Capped, CapOfBackoff
<1>7. QED
  BY <1>5, <1>6

-----------------------------------------------------------------------------
(* The invariant is inductive *)

LEMMA RetrierTypes == Proved!RetrierInv => Register!TypeOK
  BY DEF Proved!RetrierInv, Proved!TypeOK, Register!TypeOK, Proved!Attempts, Register!Attempts

LEMMA SessionInvInit == ASSUME Proved!RetrierInv, Init PROVE SessionInv
<1>1. TypeOK
  <2>1. /\ handled \in Seq([job : Jobs, ok : BOOLEAN]) /\ received \in Seq(Jobs)
        /\ failures \in 0..MaxFailures /\ waiting \subseteq Jobs /\ requeues \in 0..MaxRequeues
    BY SessionAssumption DEF Init
  <2>2. Register!TypeOK
    BY RetrierTypes
  <2>3. running \in BOOLEAN /\ ready \in BOOLEAN /\ method \in [Callers -> Methods]
    BY DEF Init
  <2>4. QED
    BY <2>1, <2>2, <2>3 DEF Init, TypeOK, CapOfBackoff
<1>2. GuardHeld /\ TurnsTaken /\ HandledInTurn
  BY DEF Init, GuardHeld, Past, TurnsTaken, Untouched, HandledInTurn, Serving
<1>3. RegisteredOnce
  BY DEF Init, Register!Init, RegisteredOnce
<1>4. BackoffInv
  BY CappedSteps DEF Init, BackoffInv, BackoffFollowsFailures
<1>5. QED
  BY <1>1, <1>2, <1>3, <1>4 DEF SessionInv

LEMMA GuardStep ==
  ASSUME SessionInv, [Next]_vars
  PROVE  GuardHeld'
<1> USE DEF SessionInv, TypeOK, GuardHeld, Past, Goto
<1>1. CASE \E c \in Callers : Start(c)
  BY <1>1 DEF Start
<1>2. CASE \E c \in Callers : Caller(c)
  <2>1. PICK c \in Callers : Caller(c)
    BY <1>2
  <2>2. running /\ running' = running /\ Past(c) /\ \A d \in Callers : d # c => at'[d] = at[d]
    BY <2>1 DEF Caller, RegisterMachine, InitFails, InitReady, SyncMetadata, RunServes, PullJob,
       ExecuteJob, DispatchStart, DispatchReturn, Serving, SessionUnchanged
  <2>3. QED
    BY <2>2
<1>3. CASE \/ Dispatcher \/ HeartbeatExit \/ CancelContext \/ UNCHANGED vars
           \/ \E j \in Jobs : Requeue(j)
  BY <1>3 DEF Requeue, Dispatcher, DispatchCheck, DispatchEmpty, DispatchFails, Handle, DispatchWake,
     DispatchJob, HeartbeatExit, CancelContext, SessionUnchanged, vars
<1>4. QED
  BY <1>1, <1>2, <1>3 DEF Next

(* What the retrier's steps are when every error is wrapped. *)
LEMMA RegisterMoves ==
  ASSUME Register!Do, regPc # "pause", regPc # "over" => result = "none"
  PROVE  /\ regPc # "over" /\ result = "none" /\ regPc' # "pause"
         /\ regPc' # "over" => result' = "none"
         /\ regPc # "call" => result' \in {"none", "ctx"}
         /\ regPc = "call" => result' \in {"nil", "error"} /\ regPc' = "over"
         /\ ctxDone' = ctxDone
<1> USE DEF Register!Return, Register!Goto
<1>1. CASE Register!CheckContext
  BY <1>1 DEF Register!CheckContext
<1>2. CASE Register!CallSucceeds
  BY <1>2 DEF Register!CallSucceeds
<1>3. CASE \E e \in RegisterErrors : Register!CallFails(e)
  BY <1>3 DEF Register!CallFails, RegisterErrors, Register!IsRetryableError
<1>4. QED
  BY <1>1, <1>2, <1>3 DEF Register!Do, Register!PauseEnds, Register!PauseCancelled

LEMMA RegisteredStep ==
  ASSUME SessionInv, [Next]_vars
  PROVE  RegisteredOnce'
<1> USE DEF SessionInv, RegisteredOnce, Goto
<1>0. /\ at \in [Callers -> {"idle", "refused", "register", "sync", "serve", "returned"}]
      /\ Register!TypeOK /\ ready \in BOOLEAN
  BY DEF TypeOK
<1>1. CASE \E c \in Callers : RegisterMachine(c)
  BY <1>1, RegisterMoves DEF RegisterMachine
<1>2. CASE CancelContext
  BY <1>2 DEF CancelContext, Register!CancelContext
<1>3. CASE \E c \in Callers : InitReady(c)
  BY <1>0, <1>3 DEF InitReady, regVars
<1>4. CASE \E c \in Callers : \/ Start(c) \/ InitFails(c) \/ SyncMetadata(c) \/ RunServes(c)
                              \/ PullJob(c) \/ ExecuteJob(c) \/ DispatchReturn(c)
  BY <1>0, <1>4 DEF Start, InitFails, SyncMetadata, RunServes, PullJob, ExecuteJob,
     DispatchReturn, regVars
<1>5. CASE \/ (\E c \in Callers : DispatchStart(c)) \/ Dispatcher \/ HeartbeatExit \/ UNCHANGED vars
           \/ \E j \in Jobs : Requeue(j)
  BY <1>5 DEF Requeue, DispatchStart, Dispatcher, DispatchCheck, DispatchEmpty, DispatchFails, Handle,
     DispatchWake, DispatchJob, HeartbeatExit, SessionUnchanged, regVars, vars
<1>6. QED
  BY <1>1, <1>2, <1>3, <1>4, <1>5 DEF Next, Caller

LEMMA TypeStep ==
  ASSUME SessionInv, [Next]_vars, Register!TypeOK'
  PROVE  TypeOK'
<1> USE DEF SessionInv, TypeOK, Goto
<1>0. NoJob \notin Jobs /\ MaxRequeues \in Nat /\ MaxFailures \in Nat
  BY SessionAssumption
<1>1. CASE \E c \in Callers : RegisterMachine(c)
  BY <1>1 DEF RegisterMachine, loopVars, jobVars, waitVars
<1>2. CASE CancelContext \/ UNCHANGED vars
  BY <1>2 DEF CancelContext, loopVars, jobVars, waitVars, vars
<1>3. CASE \E c \in Callers : \/ Start(c) \/ InitFails(c) \/ InitReady(c) \/ SyncMetadata(c)
                              \/ RunServes(c) \/ DispatchReturn(c)
  BY <1>3 DEF Start, InitFails, InitReady, SyncMetadata, RunServes, DispatchReturn, CancelDrain,
     loopVars, jobVars, waitVars
<1>4. CASE \E c \in Callers : PullJob(c)
  <2>1. PICK c \in Callers : PullJob(c)
    BY <1>4
  <2>2. at' \in [Callers -> {"idle", "refused", "register", "sync", "serve", "returned"}]
    BY <2>1 DEF PullJob
  <2>3. polled' \in Jobs \cup {NoJob} /\ received' \in Seq(Jobs)
    <3>1. CASE \E j \in Jobs : Receive(j)
      <4>1. PICK j \in Jobs : polled' = j /\ received' = Append(received, j)
        BY <3>1 DEF Receive
      <4>2. QED
        BY <4>1
    <3>2. CASE UNCHANGED <<polled, received>>
      BY <3>2
    <3>3. QED
      BY <2>1, <3>1, <3>2 DEF PullJob
  <2>4. waiting' \subseteq Jobs
    BY <2>1 DEF PullJob, PollLost, Hands
  <2>5. QED
    BY <2>1, <2>2, <2>3, <2>4 DEF PullJob, waitVars
<1>5. CASE (\E c \in Callers : ExecuteJob(c)) \/ Handle
  <2>1. PICK ok \in BOOLEAN : Settle(ok)
    BY <1>5 DEF ExecuteJob, Handle
  <2>2. polled \in Jobs
    BY <1>0, <1>5 DEF ExecuteJob, Handle, TurnsTaken, LoopGoto
  <2>3. handled' \in Seq([job : Jobs, ok : BOOLEAN]) /\ polled' = NoJob
    <3>1. [job |-> polled, ok |-> ok] \in [job : Jobs, ok : BOOLEAN]
      BY <2>2
    <3>2. QED
      BY <2>1, <3>1 DEF Settle
  <2>4. CASE Handle
    BY <2>3, <2>4 DEF Handle, SessionUnchanged, LoopGoto, waitVars
  <2>5. CASE \E c \in Callers : ExecuteJob(c)
    BY <2>3, <2>5 DEF ExecuteJob, waitVars
  <2>6. QED
    BY <1>5, <2>4, <2>5
<1>6. CASE DispatchFails
  BY <1>0, <1>6 DEF DispatchFails, SessionUnchanged, LoopGoto, PollLost, Hands, CapOfBackoff
<1>7. CASE DispatchEmpty \/ \E j \in Jobs : DispatchJob(j)
  <2>1. ClientSleep \in 0..CapOfBackoff
    BY SessionAssumption DEF ClientSleep, CapOfBackoff, PollInterval
  <2>2. backoff' \in 1..CapOfBackoff /\ failures' \in 0..MaxFailures
    BY <1>0, <1>7 DEF DispatchEmpty, DispatchJob, CapOfBackoff
  <2>3. CASE DispatchEmpty
    BY <2>1, <2>2, <2>3 DEF DispatchEmpty, SessionUnchanged, LoopGoto, jobVars
  <2>4. CASE \E j \in Jobs : DispatchJob(j)
    BY <2>2, <2>4 DEF DispatchJob, SessionUnchanged, LoopGoto, Hands, Receive
  <2>5. QED
    BY <1>7, <2>3, <2>4
<1>8. CASE \/ \E c \in Callers : DispatchStart(c)
           \/ DispatchCheck \/ DispatchWake \/ HeartbeatExit
  BY <1>8 DEF DispatchStart, DispatchCheck, DispatchWake, HeartbeatExit, CancelDrain,
     SessionUnchanged, LoopGoto, jobVars, waitVars
<1>9. CASE \E j \in Jobs : Requeue(j)
  BY <1>0, <1>9 DEF Requeue, SessionUnchanged, waitVars
<1>10. QED
  BY <1>1, <1>2, <1>3, <1>4, <1>5, <1>6, <1>7, <1>8, <1>9 DEF Next, Caller, Dispatcher

LEMMA BackoffStep ==
  ASSUME SessionInv, [Next]_vars
  PROVE  BackoffInv'
<1> USE DEF SessionInv, BackoffInv, BackoffFollowsFailures
<1>0. failures \in 0..MaxFailures /\ MaxFailures \in Nat /\ MaxFailures > 5
  BY SessionAssumption DEF TypeOK
<1>1. CASE DispatchFails
  <2>1. CASE failures < MaxFailures
    BY <1>0, <1>1, <2>1, CappedSteps DEF DispatchFails
  <2>2. CASE failures = MaxFailures
    <3>1. Capped(failures) = CapOfBackoff /\ Capped(failures - 1) = CapOfBackoff
      BY <1>0, <2>2, CappedSteps
    <3>2. QED
      BY <1>0, <1>1, <2>2, <3>1 DEF DispatchFails, CapOfBackoff
  <2>3. QED
    BY <1>0, <2>1, <2>2
<1>2. CASE DispatchEmpty \/ \E j \in Jobs : DispatchJob(j)
  BY <1>2, CappedSteps DEF DispatchEmpty, DispatchJob, LoopGoto
<1>3. CASE DispatchCheck \/ DispatchWake \/ Handle \/ \E j \in Jobs : Requeue(j)
  BY <1>3 DEF DispatchCheck, DispatchWake, Handle, Requeue, LoopGoto, waitVars
<1>4. CASE (\E c \in Callers : DispatchStart(c) \/ DispatchReturn(c)) \/ HeartbeatExit
  BY <1>4 DEF DispatchStart, DispatchReturn, HeartbeatExit, LoopGoto, waitVars
<1>5. CASE \E c \in Callers : PullJob(c) \/ ExecuteJob(c)
  BY <1>5 DEF PullJob, ExecuteJob, waitVars
<1>6. CASE \/ CancelContext \/ UNCHANGED vars
           \/ \E c \in Callers : \/ Start(c) \/ RegisterMachine(c) \/ InitFails(c) \/ InitReady(c)
                                 \/ SyncMetadata(c) \/ RunServes(c)
  BY <1>6 DEF CancelContext, Start, RegisterMachine, InitFails, InitReady, SyncMetadata, RunServes,
     loopVars, waitVars, vars
<1>7. QED
  BY <1>1, <1>2, <1>3, <1>4, <1>5, <1>6 DEF Next, Caller, Dispatcher

LEMMA TurnsStep ==
  ASSUME SessionInv, [Next]_vars
  PROVE  TurnsTaken'
<1> USE DEF SessionInv, TurnsTaken, Untouched, Serving, Goto
<1>0. /\ at \in [Callers -> {"idle", "refused", "register", "sync", "serve", "returned"}]
      /\ method \in [Callers -> Methods] /\ NoJob \notin Jobs
  BY SessionAssumption DEF TypeOK
<1>1. \A c, d \in Callers : Past(c) /\ Past(d) => c = d
  BY DEF GuardHeld
<1>2. \A c \in Callers : at[c] = "serve" => ready
  BY DEF RegisteredOnce
<1>3. CASE \E c \in Callers : Start(c)
  <2>1. PICK c \in Callers : Start(c)
    BY <1>3
  <2>2. CASE running
    BY <1>0, <2>1, <2>2 DEF Start, loopVars, jobVars
  <2>3. CASE ~running
    <3>1. Untouched
      BY <2>3 DEF GuardHeld
    <3>2. QED
      BY <1>0, <2>1, <2>3, <3>1 DEF Start, loopVars, jobVars
  <2>4. QED
    BY <2>1, <2>2, <2>3
<1>4. CASE \E c \in Callers : InitReady(c) \/ SyncMetadata(c)
  BY <1>0, <1>1, <1>4 DEF InitReady, SyncMetadata, loopVars, jobVars, Past
<1>5. CASE \E c \in Callers : \/ RegisterMachine(c) \/ InitFails(c) \/ RunServes(c)
                              \/ DispatchReturn(c)
  BY <1>0, <1>5 DEF RegisterMachine, InitFails, RunServes, DispatchReturn, loopVars, jobVars
<1>6. CASE \E c \in Callers : PullJob(c) \/ ExecuteJob(c) \/ DispatchStart(c)
  <2>1. PICK c \in Callers : PullJob(c) \/ ExecuteJob(c) \/ DispatchStart(c)
    BY <1>6
  <2>2. ready /\ at[c] = "serve" /\ \A d \in Callers : d # c => ~Past(d)
    BY <1>1, <1>2, <2>1 DEF PullJob, ExecuteJob, DispatchStart, Past
  <2>3. CASE PullJob(c)
    BY <1>0, <2>2, <2>3 DEF PullJob, Past
  <2>4. CASE ExecuteJob(c)
    BY <1>0, <2>2, <2>4 DEF ExecuteJob, Past
  <2>5. CASE DispatchStart(c)
    BY <1>0, <2>2, <2>5 DEF DispatchStart, LoopGoto, SessionUnchanged, jobVars, Past
  <2>6. QED
    BY <2>1, <2>3, <2>4, <2>5
<1>7. CASE Handle
  BY <1>0, <1>7 DEF Handle, Settle, LoopGoto, SessionUnchanged
<1>8. CASE DispatchFails \/ \E j \in Jobs : DispatchJob(j)
  BY <1>0, <1>8 DEF DispatchFails, DispatchJob, LoopGoto, SessionUnchanged, Receive
<1>9. CASE DispatchCheck \/ DispatchEmpty \/ DispatchWake
  BY <1>0, <1>9 DEF DispatchCheck, DispatchEmpty, DispatchWake, LoopGoto, SessionUnchanged, jobVars
<1>10. CASE HeartbeatExit \/ CancelContext \/ UNCHANGED vars \/ \E j \in Jobs : Requeue(j)
  BY <1>10 DEF HeartbeatExit, CancelContext, Requeue, SessionUnchanged, loopVars, jobVars, vars
<1>11. QED
  BY <1>3, <1>4, <1>5, <1>6, <1>7, <1>8, <1>9, <1>10 DEF Next, Caller, Dispatcher

(* A job enters the hand as the last one received and leaves it as the last  *)
(* one handled; in between nothing else is received.                        *)
LEMMA HandledStep ==
  ASSUME SessionInv, [Next]_vars
  PROVE  HandledInTurn'
<1> USE DEF SessionInv, HandledInTurn
<1>0. /\ handled \in Seq([job : Jobs, ok : BOOLEAN]) /\ received \in Seq(Jobs)
      /\ NoJob \notin Jobs /\ polled \in Jobs \cup {NoJob}
  BY SessionAssumption DEF TypeOK
<1>1. CASE (\E c \in Callers : ExecuteJob(c)) \/ Handle
  <2>1. PICK ok \in BOOLEAN : Settle(ok)
    BY <1>1 DEF ExecuteJob, Handle
  <2>2. polled # NoJob /\ received' = received
    BY <1>1 DEF ExecuteJob, Handle, TurnsTaken, LoopGoto
  <2>3. /\ Len(handled') = Len(handled) + 1 /\ polled' = NoJob
        /\ \A i \in 1..Len(handled) : handled'[i] = handled[i]
        /\ handled'[Len(handled) + 1].job = polled
    BY <1>0, <2>1 DEF Settle
  <2>4. QED
    BY <1>0, <2>2, <2>3
<1>2. CASE (\E c \in Callers : PullJob(c)) \/ \E j \in Jobs : DispatchJob(j)
  <2>1. polled = NoJob /\ handled' = handled
    BY <1>2 DEF PullJob, DispatchJob, TurnsTaken, LoopGoto
  <2>2. CASE UNCHANGED <<polled, received>>
    BY <2>1, <2>2
  <2>3. CASE \E j \in Jobs : Receive(j)
    <3>1. PICK j \in Jobs : polled' = j /\ received' = Append(received, j)
      BY <2>3 DEF Receive
    <3>2. /\ Len(received') = Len(received) + 1 /\ received'[Len(received) + 1] = j
          /\ \A i \in 1..Len(received) : received'[i] = received[i]
      BY <1>0, <3>1
    <3>3. QED
      BY <1>0, <2>1, <3>1, <3>2
  <2>4. QED
    BY <1>2, <2>2, <2>3 DEF PullJob, DispatchJob
<1>3. CASE \/ DispatchCheck \/ DispatchEmpty \/ DispatchFails \/ DispatchWake
           \/ HeartbeatExit \/ \E c \in Callers : DispatchStart(c)
  BY <1>3 DEF DispatchCheck, DispatchEmpty, DispatchFails, DispatchWake, HeartbeatExit, DispatchStart,
     jobVars
<1>4. CASE \/ CancelContext \/ UNCHANGED vars \/ \E j \in Jobs : Requeue(j)
           \/ \E c \in Callers : \/ Start(c) \/ RegisterMachine(c) \/ InitFails(c) \/ InitReady(c)
                                 \/ SyncMetadata(c) \/ RunServes(c) \/ DispatchReturn(c)
  BY <1>4 DEF CancelContext, Requeue, Start, RegisterMachine, InitFails, InitReady, SyncMetadata,
     RunServes, DispatchReturn, loopVars, jobVars, vars
<1>5. QED
  BY <1>1, <1>2, <1>3, <1>4 DEF Next, Caller, Dispatcher

LEMMA SessionInvStep ==
  ASSUME SessionInv, [Next]_vars, Proved!RetrierInv'
  PROVE  SessionInv'
<1>1. Register!TypeOK'
  BY RetrierTypes DEF Proved!RetrierInv, Proved!TypeOK, Register!TypeOK, Proved!Attempts, Register!Attempts
<1>2. QED
  BY <1>1, GuardStep, RegisteredStep, TypeStep, TurnsStep, HandledStep, BackoffStep DEF SessionInv

-----------------------------------------------------------------------------
(* The theorems *)

(* What the theorems below rest on holds in every reachable state. *)
THEOREM SessionInvariant == Spec => []SessionInv
<1>1. Proved!Spec => []Proved!RetrierInv
  BY RegisterPolicy, Proved!RetrierInvariant
<1>2. QED
  BY <1>1, SessionRunsTheRetrier, SessionInvInit, SessionInvStep, PTL DEF Spec

(* Every variable keeps its type, the registration's own included, and a     *)
(* backoff never leaves 1..30 seconds.                                      *)
THEOREM SessionTypeCorrect == Spec => []TypeOK
<1>1. SessionInv => TypeOK
  BY DEF SessionInv
<1>2. QED
  BY <1>1, SessionInvariant, PTL

(* Agents are one-shot: of any number of goroutines that call Run, RunOnce   *)
(* and Dispatch, one at most gets past the guard, and the server sees one    *)
(* machine at most (the guards at agent_run.go:51, agent_run_once.go:36 and  *)
(* agent_dispatch.go:70, before initSession).                               *)
THEOREM SessionOneShot == Spec => []OneShot
<1>1. SessionInv => OneShot
  BY DEF SessionInv, GuardHeld, Past, RegisteredOnce, OneShot
<1>2. QED
  BY <1>1, SessionInvariant, PTL

(* The agent hears of no job before the session is ready, and handles what   *)
(* it is told of in that order, each delivery once: whatever the handler     *)
(* returns, and however often the server hands the same job out again.      *)
THEOREM SessionHandledOnce == Spec => []HandledOnce
<1>1. SessionInv => HandledOnce
  BY DEF SessionInv, RegisteredOnce, TurnsTaken, Untouched, HandledInTurn, HandledOnce
<1>2. QED
  BY <1>1, SessionInvariant, PTL

(* The pause after the n-th failure in a row is 2^(n-1) seconds, 30 at most, *)
(* for however many failures are counted.                                   *)
THEOREM SessionBackoff == Spec => []BackoffFollowsFailures
<1>1. SessionInv => BackoffFollowsFailures
  BY DEF SessionInv, BackoffInv
<1>2. QED
  BY <1>1, SessionInvariant, PTL
=============================================================================
