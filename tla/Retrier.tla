------------------------------- MODULE Retrier -------------------------------
(***************************************************************************)
(* retrier.Do (retry.go) for one operation, with the policy that decides   *)
(* what is retried and how long to pause. A duration is a natural number   *)
(* of some unit; the multiplier is a natural number, as in the policies    *)
(* the SDK offers (2.0).                                                   *)
(*                                                                         *)
(* An error is a record: its cause, and whether another error wraps it, as *)
(* every method of transport.Client does with fmt.Errorf("...: %w").       *)
(***************************************************************************)
EXTENDS Naturals, Integers, Sequences

CONSTANTS
    Errors,                 \* the errors the operation can return
    MaxAttempts,            \* the fields of RetryPolicy ...
    InitialBackoff,
    MaxBackoff,
    BackoffMultiplier,
    Jitter,
    RetryableStatusCodes    \* ... the last as a set of causes

Cause == {"429", "502", "400", "net", "other"}
Error == [cause : Cause, wrapped : BOOLEAN]
None  == [cause |-> "none", wrapped |-> FALSE]

ASSUME ErrorsAssumption   == Errors \subseteq Error
ASSUME AttemptsAssumption == MaxAttempts \in Int
ASSUME BackoffAssumption  ==
    InitialBackoff \in Nat /\ MaxBackoff \in Nat /\ BackoffMultiplier \in Nat
ASSUME JitterAssumption   == Jitter \in BOOLEAN

VARIABLES
    pc,         \* where Do is
    attempt,    \* the loop variable
    errors,     \* the errors of the calls so far, oldest first
    pauses,     \* the pauses so far, oldest first
    result,     \* what Do returned: "nil", "ctx", "error" or "exhausted"
    ctxDone     \* the context is done

vars == <<pc, attempt, errors, pauses, result, ctxDone>>

(* newRetrier: at least one attempt. *)
Attempts == IF MaxAttempts <= 0 THEN 1 ELSE MaxAttempts

IsRetryableStatus(cause) == cause \in RetryableStatusCodes

(* Only the outermost error is looked at (a type assertion, no errors.As). *)
IsRetryableError(e) == ~e.wrapped /\ (IsRetryableStatus(e.cause) \/ e.cause = "net")

(* InitialBackoff times the multiplier to the power of n. *)
Grown[n \in Nat] == IF n = 0 THEN InitialBackoff ELSE BackoffMultiplier * Grown[n - 1]

NominalUncapped(n) == Grown[n - 1]      \* mutant: no cap

(* The nominal backoff of a retry, capped. *)
Nominal(n) == IF Grown[n - 1] > MaxBackoff THEN MaxBackoff ELSE Grown[n - 1]

(* The values of BackoffDuration: the jitter is less than a quarter, and is *)
(* added to the capped value.                                               *)
BackoffDuration(n) ==
    {Nominal(n)} \cup {d \in Nominal(n)..(2 * Nominal(n)) : Jitter /\ 4 * d < 5 * Nominal(n)}

TypeOK ==
    /\ pc \in {"check", "call", "pause", "over"}
    /\ attempt \in 1..Attempts
    /\ errors \in Seq(Errors) /\ Len(errors) <= Attempts
    /\ pauses \in Seq(Nat) /\ Len(pauses) < Attempts
    /\ result \in {"none", "nil", "ctx", "error", "exhausted"}
    /\ ctxDone \in BOOLEAN

Init ==
    /\ pc = "check"
    /\ attempt = 1
    /\ errors = <<>> /\ pauses = <<>>
    /\ result = "none"
    /\ ctxDone \in BOOLEAN

-----------------------------------------------------------------------------
Return(from, value) == pc = from /\ pc' = "over" /\ result' = value
Goto(from, to)      == pc = from /\ pc' = to /\ UNCHANGED result

CheckContext ==
    /\ IF ctxDone THEN Return("check", "ctx") ELSE Goto("check", "call")
    /\ UNCHANGED <<attempt, errors, pauses, ctxDone>>

CallSucceeds ==
    /\ Return("call", "nil")
    /\ UNCHANGED <<attempt, errors, pauses, ctxDone>>

CallFailsOnceMore(e) ==     \* mutant: the loop runs once too often
    /\ pc = "call"
    /\ errors' = Append(errors, e)
    /\ \/ ~IsRetryableError(e) /\ Return("call", "error") /\ UNCHANGED pauses
       \/ /\ IsRetryableError(e)
          /\ attempt <= Attempts
          /\ Goto("call", "pause")
          /\ \E d \in BackoffDuration(attempt) : pauses' = Append(pauses, d)
    /\ UNCHANGED <<attempt, ctxDone>>

CallFailsExhausted(e) ==    \* mutant: the attempts are looked at before the error
    /\ pc = "call"
    /\ errors' = Append(errors, e)
    /\ \/ attempt = Attempts /\ Return("call", "exhausted") /\ UNCHANGED pauses
       \/ /\ ~IsRetryableError(e) /\ attempt < Attempts
          /\ Return("call", "error") /\ UNCHANGED pauses
       \/ /\ IsRetryableError(e) /\ attempt < Attempts
          /\ Goto("call", "pause")
          /\ \E d \in BackoffDuration(attempt) : pauses' = Append(pauses, d)
    /\ UNCHANGED <<attempt, ctxDone>>

(* The operation fails for good, for the last time, or to be retried. *)
CallFails(e) ==
    /\ pc = "call"
    /\ errors' = Append(errors, e)
    /\ \/ ~IsRetryableError(e) /\ Return("call", "error") /\ UNCHANGED pauses
       \/ /\ IsRetryableError(e) /\ attempt = Attempts
          /\ Return("call", "exhausted") /\ UNCHANGED pauses
       \/ /\ IsRetryableError(e) /\ attempt < Attempts
          /\ Goto("call", "pause")
          /\ \E d \in BackoffDuration(attempt) : pauses' = Append(pauses, d)
    /\ UNCHANGED <<attempt, ctxDone>>

PauseUntilCancelled ==      \* mutant: no timer in the select
    /\ ctxDone
    /\ Goto("pause", "check")
    /\ attempt' = attempt + 1
    /\ UNCHANGED <<errors, pauses, ctxDone>>

PauseEnds ==
    /\ Goto("pause", "check")
    /\ attempt' = attempt + 1
    /\ UNCHANGED <<errors, pauses, ctxDone>>

PauseCancelled ==
    /\ ctxDone
    /\ Return("pause", "ctx")
    /\ UNCHANGED <<attempt, errors, pauses, ctxDone>>

CancelContext ==
    /\ ~ctxDone
    /\ ctxDone' = TRUE
    /\ UNCHANGED <<pc, attempt, errors, pauses, result>>

Do == \/ CheckContext \/ CallSucceeds \/ PauseEnds \/ PauseCancelled
      \/ \E e \in Errors : CallFails(e)

Next == Do \/ CancelContext

Spec == Init /\ [][Next]_vars

(* The operation returns and timers fire; nobody need cancel the context. *)
FairSpec == Spec /\ WF_vars(Do)

-----------------------------------------------------------------------------
(* What Do returns is what happened: nil only after a call without error,   *)
(* RetryableError only after every attempt failed with a retryable error,   *)
(* and another error only when the last call returned one that is not.      *)
ResultExplained ==
    /\ result = "nil" => Len(errors) = attempt - 1
    /\ result = "exhausted" =>
           Len(errors) = Attempts /\ \A i \in 1..Attempts : IsRetryableError(errors[i])
    /\ result = "error" =>
           /\ Len(errors) = attempt
           /\ \A i \in 1..(attempt - 1) : IsRetryableError(errors[i])
           /\ ~IsRetryableError(errors[attempt])
    /\ result = "ctx" => ctxDone

(* One pause before each retry and none after the last attempt. Each is     *)
(* longer than the one before by the multiplier, up to the jitter of that   *)
(* one, until it reaches MaxBackoff. retry.go:21 calls this "the maximum    *)
(* wait time between retries". It is so only without jitter, which is added *)
(* after the cap (retry.go:117): with it a pause may be a quarter longer.   *)
PausesFollowPolicy ==
    /\ Len(pauses) <= Len(errors)
    /\ result \in {"nil", "error", "exhausted"} => Len(pauses) = attempt - 1
    /\ \A i \in 1..Len(pauses) :
           IF Jitter THEN 4 * pauses[i] <= 5 * MaxBackoff ELSE pauses[i] <= MaxBackoff
    /\ \A i \in 2..Len(pauses) :
           \/ pauses[i] >= MaxBackoff
           \/ 5 * pauses[i] >= 4 * BackoffMultiplier * pauses[i - 1]

(* Do returns, whatever the operation returns and however often. *)
DoReturns == <>(pc = "over")

(* README.md:437: "WithRetryDefault(): 5 attempts, exponential backoff": a  *)
(* transient failure is not given up at the first attempt.                  *)
TransientIsRetried ==
    result = "error" =>
        LET cause == errors[Len(errors)].cause
        IN cause \notin (RetryableStatusCodes \cup {"net"})
=============================================================================
