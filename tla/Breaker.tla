------------------------------ MODULE Breaker -------------------------------
(***************************************************************************)
(* The decisions of one circuit breaker (engine/circuit_breaker.py), each  *)
(* taken under the breaker's lock: may a call run, and what a finished     *)
(* call makes of the breaker.                                              *)
(*                                                                         *)
(* A count past its threshold is not told apart from the threshold: the    *)
(* code only ever compares with >=.                                        *)
(***************************************************************************)
EXTENDS Naturals

CONSTANTS
    FailureThreshold,   \* _failure_threshold
    SuccessThreshold,   \* _success_threshold
    HalfOpenMax         \* _half_open_max_calls

ASSUME ThresholdsAssumption ==
    {FailureThreshold, SuccessThreshold, HalfOpenMax} \subseteq Nat \ {0}

CircuitStates == {"closed", "open", "half_open"}

\* `cooled`: recovery_timeout has passed since _opened_at.
BreakerSet == [state : CircuitStates, failures : 0..FailureThreshold,
               successes : 0..SuccessThreshold, probes : 0..HalfOpenMax, cooled : BOOLEAN]

Fresh == [state |-> "closed", failures |-> 0, successes |-> 0, probes |-> 0,
          cooled |-> FALSE]

CountUp(n, threshold) == IF n < threshold THEN n + 1 ELSE threshold

-----------------------------------------------------------------------------
(* call(), up to the run of the function.                                  *)

\* Mutant of MayRun: half-open lets every call through.
MayRunUnlimited(b) ==
    \/ b.state \in {"closed", "half_open"}
    \/ b.state = "open" /\ b.cooled

\* Mutant of MayRun: an open breaker never tries again.
MayRunNeverTries(b) ==
    \/ b.state = "closed"
    \/ b.state = "half_open" /\ b.probes < HalfOpenMax

MayRun(b) ==
    \/ b.state = "closed"
    \/ b.state = "open" /\ b.cooled
    \/ b.state = "half_open" /\ b.probes < HalfOpenMax

\* Mutant of HalfOpen: the successes of the closed days are kept.
HalfOpenKeepsCount(b) ==
    [b EXCEPT !.state = "half_open", !.probes = 0, !.failures = 0, !.cooled = FALSE]

HalfOpen(b) ==
    [b EXCEPT !.state = "half_open", !.probes = 0, !.successes = 0, !.failures = 0,
              !.cooled = FALSE]

\* Mutant of Admitted: the call that turns the breaker half-open counts twice.
AdmittedTwice(b) ==
    CASE b.state = "closed"    -> b
      [] b.state = "open"      -> [HalfOpen(b) EXCEPT !.probes = CountUp(1, HalfOpenMax)]
      [] b.state = "half_open" -> [b EXCEPT !.probes = @ + 1]

Admitted(b) ==
    CASE b.state = "closed"    -> b
      [] b.state = "open"      -> [HalfOpen(b) EXCEPT !.probes = 1]
      [] b.state = "half_open" -> [b EXCEPT !.probes = @ + 1]

-----------------------------------------------------------------------------
(* _on_success and _on_failure: also reached without call(), through       *)
(* record_success and record_failure.                                      *)

\* Mutant of OnSuccess: a success in between does not break a failure streak.
OnSuccessKeepsFailures(b) ==
    LET counted == [b EXCEPT !.successes = CountUp(@, SuccessThreshold)]
    IN  IF b.state = "half_open" /\ counted.successes >= SuccessThreshold
        THEN Fresh ELSE counted

OnSuccess(b) ==
    LET counted == [b EXCEPT !.failures = 0, !.successes = CountUp(@, SuccessThreshold)]
    IN  IF b.state = "half_open" /\ counted.successes >= SuccessThreshold
        THEN Fresh ELSE counted

\* Mutant of OnFailure: opens one failure too late.
OnFailureLate(b) ==
    LET counted == [b EXCEPT !.failures = CountUp(@, FailureThreshold), !.successes = 0]
    IN  IF \/ b.state = "half_open"
           \/ b.state = "closed" /\ b.failures >= FailureThreshold
        THEN [counted EXCEPT !.state = "open", !.cooled = FALSE]
        ELSE counted

OnFailure(b) ==
    LET counted == [b EXCEPT !.failures = CountUp(@, FailureThreshold), !.successes = 0]
    IN  IF \/ b.state = "half_open"
           \/ b.state = "closed" /\ counted.failures >= FailureThreshold
        THEN [counted EXCEPT !.state = "open", !.cooled = FALSE]
        ELSE counted
=============================================================================
