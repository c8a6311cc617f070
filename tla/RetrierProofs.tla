---------------------------- MODULE RetrierProofs ----------------------------
(* The retrier for every policy and every set of errors: types, what its     *)
(* result says, and the bound on its pauses.                                *)
EXTENDS Retrier, NatRecursion

-----------------------------------------------------------------------------
(* The backoff *)

(* The recursive definition of Grown is its defining equation. *)
LEMMA GrownDef ==
  /\ \A n \in Nat : Grown[n] \in Nat
  /\ Grown[0] = InitialBackoff
  /\ \A n \in Nat : Grown[n + 1] = BackoffMultiplier * Grown[n]
<1> DEFINE step == [n \in Nat |-> [v \in Nat |-> BackoffMultiplier * v]]
           Solves(g) == g = [n \in Nat |-> IF n = 0 THEN InitialBackoff
                                           ELSE BackoffMultiplier * g[n - 1]]
<1>1. InitialBackoff \in Nat /\ BackoffMultiplier \in Nat
  BY BackoffAssumption
<1>2. step \in [Nat -> [Nat -> Nat]]
  BY <1>1
<1>3. PICK f \in [Nat -> Nat] : Iterates(f, InitialBackoff, step)
  <2> HIDE DEF step
  <2>1. QED
    BY <1>1, <1>2, NatRecursionExists, Zenon
<1>4. f[0] = InitialBackoff /\ \A n \in Nat : f[n + 1] = BackoffMultiplier * f[n]
  BY <1>3 DEF Iterates
<1>5. Solves(f)
  <2>1. ASSUME NEW n \in Nat
        PROVE  f[n] = IF n = 0 THEN InitialBackoff ELSE BackoffMultiplier * f[n - 1]
    <3>1. CASE n = 0
      BY <1>4, <3>1
    <3>2. CASE n # 0
      <4>1. n - 1 \in Nat /\ (n - 1) + 1 = n
        BY <3>2
      <4>2. QED
        BY <1>4, <3>2, <4>1
    <3>3. QED
      BY <3>1, <3>2
  <2>2. QED
    BY <2>1
<1>6. Solves(Grown)
  <2>1. Grown = CHOOSE g : Solves(g)
    BY DEF Grown
  <2> HIDE DEF Solves
  <2>2. QED
    BY <1>5, <2>1
<1>7. Grown \in [Nat -> Nat]
  <2>0. \A n \in Nat : Grown[n] = IF n = 0 THEN InitialBackoff ELSE BackoffMultiplier * Grown[n - 1]
    BY <1>6
  <2> DEFINE S == {n \in Nat : Grown[n] \in Nat}
  <2>1. 0 \in S
    BY <1>1, <2>0
  <2>2. ASSUME NEW n \in Nat, n \in S PROVE n + 1 \in S
    BY <1>1, <2>0, <2>2
  <2> HIDE DEF S
  <2>3. \A n \in Nat : n \in S
    BY <2>1, <2>2, NatSetInduction
  <2>4. QED
    BY <1>6, <2>3 DEF S
<1>8. QED
  BY <1>6, <1>7

LEMMA NominalDef ==
  ASSUME NEW n \in Nat \ {0}
  PROVE  /\ Nominal(n) \in Nat /\ Nominal(n) <= MaxBackoff
         /\ Nominal(n) = MaxBackoff \/ Nominal(n) = Grown[n - 1]
         /\ Nominal(n) <= Grown[n - 1] /\ Grown[n - 1] \in Nat
<1>1. n - 1 \in Nat
  OBVIOUS
<1>2. QED
  BY <1>1, GrownDef, BackoffAssumption DEF Nominal

(* What is asked for is never above the cap, and what is slept not above     *)
(* five quarters of it, nor above the cap itself without jitter.            *)
LEMMA BackoffBounded ==
  ASSUME NEW n \in Nat \ {0}, NEW d \in BackoffDuration(n)
  PROVE  /\ d \in Nat /\ Nominal(n) <= d /\ 4 * d <= 5 * Nominal(n)
         /\ IF Jitter THEN 4 * d <= 5 * MaxBackoff ELSE d <= MaxBackoff
<1>1. Nominal(n) \in Nat /\ Nominal(n) <= MaxBackoff
  BY NominalDef
<1>2. QED
  BY <1>1, BackoffAssumption, JitterAssumption DEF BackoffDuration

(* Of two pauses in a row, the later has the multiplier of the earlier, less *)
(* its jitter, or has reached the cap.                                      *)
LEMMA BackoffGrows ==
  ASSUME NEW n \in Nat \ {0}, NEW d \in BackoffDuration(n), NEW later \in BackoffDuration(n + 1)
  PROVE  later >= MaxBackoff \/ 5 * later >= 4 * BackoffMultiplier * d
<1> DEFINE g == Grown[n - 1]
           k == BackoffMultiplier
<1>1. k \in Nat /\ MaxBackoff \in Nat /\ g \in Nat /\ n - 1 \in Nat
  BY BackoffAssumption, NominalDef
<1>2. Grown[n] = k * g
  <2>1. (n - 1) + 1 = n
    OBVIOUS
  <2>2. QED
    BY <1>1, <2>1, GrownDef
<1>3. d \in Nat /\ 4 * d <= 5 * g
  BY <1>1, BackoffBounded, NominalDef
<1>4. /\ later \in Nat
      /\ later >= MaxBackoff \/ later >= k * g
  <2>1. n + 1 \in Nat \ {0} /\ (n + 1) - 1 = n
    OBVIOUS
  <2>2. later \in Nat /\ Nominal(n + 1) <= later
    BY <2>1, BackoffBounded
  <2>3. Nominal(n + 1) = MaxBackoff \/ Nominal(n + 1) = k * g
    BY <1>2, <2>1, NominalDef
  <2>4. QED
    BY <2>2, <2>3
<1>5. 4 * k * d <= 5 * (k * g)
  <2> HIDE DEF g, k
  <2>1. \A x, y, z \in Nat : x <= y => z * x <= z * y
    OBVIOUS
  <2>2. k * (4 * d) <= k * (5 * g)
    BY <1>1, <1>3, <2>1
  <2>3. QED
    BY <1>1, <1>3, <2>2
<1>6. k * g \in Nat
  BY <1>1
<1> HIDE DEF g, k
<1>7. 4 * k * d \in Nat
  BY <1>1, <1>3
<1>8. later >= MaxBackoff \/ 5 * later >= 4 * k * d
  BY <1>1, <1>4, <1>5, <1>6, <1>7
<1>9. QED
  BY <1>8 DEF k

-----------------------------------------------------------------------------
(* The invariant *)

(* As long as Do goes on, every call so far failed with an error that is     *)
(* retried, and a pause followed each but, while it is due, the last.        *)
StillTrying ==
    pc # "over" =>
        /\ result = "none"
        /\ Len(errors) = IF pc = "pause" THEN attempt ELSE attempt - 1
        /\ Len(pauses) = Len(errors)
        /\ pc = "pause" => attempt < Attempts
        /\ \A i \in 1..Len(errors) : IsRetryableError(errors[i])

(* The pause before a retry is one the policy gives for it. *)
PausesAsked == \A i \in 1..Len(pauses) : pauses[i] \in BackoffDuration(i)

(* What PausesFollowPolicy says of the number of pauses. *)
PauseEach ==
    /\ Len(pauses) <= Len(errors)
    /\ result \in {"nil", "error", "exhausted"} => Len(pauses) = attempt - 1

RetrierInv == TypeOK /\ StillTrying /\ ResultExplained /\ PausesAsked /\ PauseEach

LEMMA AttemptsPositive == Attempts \in Nat \ {0}
  BY AttemptsAssumption DEF Attempts

LEMMA InvInit == Init => RetrierInv
  BY AttemptsPositive DEF Init, RetrierInv, TypeOK, StillTrying, ResultExplained, PausesAsked,
     PauseEach

(* A failing call is the one step after which more is known than before.     *)
LEMMA InvCallFails ==
  ASSUME RetrierInv, NEW e \in Errors, CallFails(e)
  PROVE  RetrierInv'
<1> USE DEF RetrierInv, CallFails
<1>1. pc = "call" /\ result = "none" /\ attempt \in 1..Attempts /\ Attempts \in Nat
  BY AttemptsPositive DEF TypeOK, StillTrying
<1>2. /\ errors \in Seq(Errors) /\ Len(errors) = attempt - 1
      /\ pauses \in Seq(Nat) /\ Len(pauses) = attempt - 1
  BY <1>1 DEF TypeOK, StillTrying
<1>3. /\ errors' \in Seq(Errors) /\ Len(errors') = attempt
      /\ \A i \in 1..(attempt - 1) : errors'[i] = errors[i]
      /\ errors'[attempt] = e
  BY <1>1, <1>2
<1>4. \A i \in 1..(attempt - 1) : IsRetryableError(errors'[i])
  BY <1>1, <1>2, <1>3 DEF StillTrying
<1>5. CASE Goto("call", "pause")
  <2>1. PICK d \in BackoffDuration(attempt) : pauses' = Append(pauses, d)
    BY <1>5 DEF Goto, Return
  <2>2. d \in Nat
    BY <1>1, BackoffBounded
  <2>3. /\ pauses' \in Seq(Nat) /\ Len(pauses') = attempt
        /\ \A i \in 1..attempt : pauses'[i] \in BackoffDuration(i)
    <3>1. /\ pauses' \in Seq(Nat) /\ Len(pauses') = attempt /\ pauses'[attempt] = d
          /\ \A i \in 1..(attempt - 1) : pauses'[i] = pauses[i]
      BY <1>1, <1>2, <2>1, <2>2
    <3>2. ASSUME NEW i \in 1..attempt PROVE pauses'[i] \in BackoffDuration(i)
      <4>1. CASE i = attempt
        BY <2>1, <3>1, <4>1
      <4>2. CASE i # attempt
        <5>1. i \in 1..(attempt - 1) /\ i \in 1..Len(pauses)
          BY <1>1, <1>2, <4>2
        <5>2. QED
          BY <3>1, <5>1 DEF PausesAsked
      <4>3. QED
        BY <4>1, <4>2
    <3>3. QED
      BY <3>1, <3>2
  <2>4. attempt < Attempts /\ IsRetryableError(e)
    BY <1>5 DEF Goto, Return
  <2>5. TypeOK'
    BY <1>1, <1>3, <1>5, <2>3, <2>4 DEF TypeOK, Goto, Attempts
  <2>6. StillTrying'
    <3>1. \A i \in 1..attempt : IsRetryableError(errors'[i])
      BY <1>1, <1>3, <1>4, <2>4
    <3>2. QED
      BY <1>1, <1>3, <1>5, <2>3, <2>4, <3>1 DEF StillTrying, Goto, Attempts, IsRetryableError, IsRetryableStatus
  <2>7. ResultExplained'
    BY <1>1, <1>5 DEF ResultExplained, Goto
  <2>8. PausesAsked' /\ PauseEach'
    <3>1. PausesAsked'
      <4>1. \A i \in 1..Len(pauses') : pauses'[i] \in BackoffDuration(i)
        BY <2>3
      <4>2. QED
        BY <4>1 DEF PausesAsked, BackoffDuration
    <3>2. PauseEach'
      BY <1>1, <1>3, <1>5, <2>3 DEF PauseEach, Goto
    <3>3. QED
      BY <3>1, <3>2
  <2>9. QED
    BY <2>5, <2>6, <2>7, <2>8
<1>6. CASE ~Goto("call", "pause")
  <2>1. /\ UNCHANGED <<pauses, attempt, ctxDone>> /\ pc' = "over"
        /\ \/ result' = "error" /\ ~IsRetryableError(e)
           \/ result' = "exhausted" /\ attempt = Attempts /\ IsRetryableError(e)
    BY <1>6 DEF Return
  <2>2. TypeOK'
    BY <1>1, <1>2, <1>3, <2>1 DEF TypeOK, Attempts
  <2>3. ResultExplained'
    <3>1. CASE result' = "error"
      <4>1. ~IsRetryableError(errors'[attempt])
        BY <1>3, <2>1, <3>1
      <4>2. QED
        BY <1>3, <1>4, <2>1, <3>1, <4>1 DEF ResultExplained, IsRetryableError, IsRetryableStatus
    <3>2. CASE result' = "exhausted"
      <4>1. \A i \in 1..attempt : IsRetryableError(errors'[i])
        BY <1>1, <1>3, <1>4, <2>1, <3>2
      <4>2. QED
        BY <1>3, <2>1, <3>2, <4>1 DEF ResultExplained, IsRetryableError, IsRetryableStatus, Attempts
    <3>3. QED
      BY <2>1, <3>1, <3>2
  <2>4. PausesAsked' /\ PauseEach'
    BY <1>1, <1>2, <1>3, <2>1 DEF PausesAsked, PauseEach, BackoffDuration
  <2>5. QED
    BY <2>1, <2>2, <2>3, <2>4 DEF StillTrying
<1>7. QED
  BY <1>5, <1>6

LEMMA InvNext == RetrierInv /\ [Next]_vars => RetrierInv'
<1> SUFFICES ASSUME RetrierInv, [Next]_vars PROVE RetrierInv'
  OBVIOUS
<1> USE AttemptsPositive DEF RetrierInv, TypeOK, StillTrying, ResultExplained, PausesAsked,
    PauseEach, BackoffDuration, Return, Goto
<1>1. CASE CheckContext
  BY <1>1 DEF CheckContext
<1>2. CASE CallSucceeds
  BY <1>2 DEF CallSucceeds
<1>3. CASE \E e \in Errors : CallFails(e)
  <2> USE <1>3 DEF TypeOK
  <2>1. QED
    BY <1>3, InvCallFails
<1>4. CASE PauseEnds
  BY <1>4 DEF PauseEnds
<1>5. CASE PauseCancelled
  BY <1>5 DEF PauseCancelled
<1>6. CASE CancelContext
  BY <1>6 DEF CancelContext
<1>7. CASE UNCHANGED vars
  BY <1>7 DEF vars
<1>8. QED
  BY <1>1, <1>2, <1>3, <1>4, <1>5, <1>6, <1>7 DEF Next, Do

(* What the theorems below rest on holds in every reachable state. *)
THEOREM RetrierInvariant == Spec => []RetrierInv
  BY InvInit, InvNext, PTL DEF Spec

(* The loop of Do stays within its attempts: no policy makes it call or      *)
(* pause once too often.                                                    *)
THEOREM RetrierTypeCorrect == Spec => []TypeOK
<1>1. RetrierInv => TypeOK
  BY DEF RetrierInv
<1>2. QED
  BY <1>1, RetrierInvariant, PTL

(* What Do returns is what happened, for every policy (retry.go:139-178).    *)
THEOREM RetrierResultExplained == Spec => []ResultExplained
<1>1. RetrierInv => ResultExplained
  BY DEF RetrierInv
<1>2. QED
  BY <1>1, RetrierInvariant, PTL

LEMMA PausesAskedFollow ==
  ASSUME RetrierInv
  PROVE  PausesFollowPolicy
<1>1. pauses \in Seq(Nat)
  BY DEF RetrierInv, TypeOK
<1>2. ASSUME NEW i \in 1..Len(pauses)
      PROVE  IF Jitter THEN 4 * pauses[i] <= 5 * MaxBackoff ELSE pauses[i] <= MaxBackoff
  <2>1. i \in Nat \ {0} /\ pauses[i] \in BackoffDuration(i)
    BY <1>1 DEF RetrierInv, PausesAsked
  <2>2. QED
    BY <2>1, BackoffBounded
<1>3. ASSUME NEW i \in 2..Len(pauses)
      PROVE  \/ pauses[i] >= MaxBackoff
             \/ 5 * pauses[i] >= 4 * BackoffMultiplier * pauses[i - 1]
  <2>1. i - 1 \in Nat \ {0} /\ (i - 1) + 1 = i /\ i - 1 \in 1..Len(pauses) /\ i \in 1..Len(pauses)
    BY <1>1
  <2>2. pauses[i - 1] \in BackoffDuration(i - 1) /\ pauses[i] \in BackoffDuration((i - 1) + 1)
    BY <2>1 DEF RetrierInv, PausesAsked
  <2>3. QED
    BY <2>1, <2>2, BackoffGrows
<1>4. QED
  BY <1>2, <1>3 DEF RetrierInv, PauseEach, PausesFollowPolicy

(* For every policy, one pause before each retry, growing by the multiplier  *)
(* up to the cap; within the cap without jitter, and by up to a quarter      *)
(* beyond it, against retry.go:21, with it (retry.go:107-124).               *)
THEOREM RetrierPausesFollowPolicy == Spec => []PausesFollowPolicy
  BY RetrierInvariant, PausesAskedFollow, PTL
=============================================================================
