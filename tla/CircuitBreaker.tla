--------------------------- MODULE CircuitBreaker ---------------------------
(***************************************************************************)
(* One circuit breaker (engine/circuit_breaker.py) and the coroutines that *)
(* use it at the same time.                                                *)
(*                                                                         *)
(* Callers go through call(), as the collection loops of the scheduler do  *)
(* (call_with_protection).  Reporters look at is_open, do their request    *)
(* and report the outcome with record_success or record_failure, as        *)
(* infer_cloud_fallback does (engine/edge_ai_inference.py).  Between the   *)
(* admission and the outcome of a call the breaker may have changed.       *)
(***************************************************************************)
EXTENDS Breaker, Sequences, FiniteSets

CONSTANTS
    Callers,
    Reporters,
    MaxAbandoned     \* bound: probes of one trial that end without an outcome

ASSUME ClientsAssumption ==
    /\ IsFiniteSet(Callers) /\ IsFiniteSet(Reporters)
    /\ Callers \cap Reporters = {}
    /\ MaxAbandoned \in Nat

VARIABLES
    breaker,
    call,        \* what every client has in flight
    sick,        \* the device or service behind the breaker may fail
    abandoned,   \* history: probes of this trial that ended without an outcome
    outcomes     \* history: the latest outcomes since `state` last changed

breakerVars == <<breaker, call, sick, abandoned, outcomes>>

Clients == Callers \cup Reporters

\* "probe": let through by the trial now going on; "late": by anything else
\* that is over; "plain": by a closed breaker, or by no more than is_open.
CallKinds == {"none", "plain", "probe", "late"}

OutcomesKept == FailureThreshold + SuccessThreshold

BreakerTypeOK ==
    /\ breaker \in BreakerSet
    /\ call \in [Clients -> CallKinds]
    /\ sick \in BOOLEAN
    /\ abandoned \in 0..MaxAbandoned
    /\ outcomes \in Seq({"ok", "fail"})

BreakerInit ==
    /\ breaker = Fresh
    /\ call = [c \in Clients |-> "none"]
    /\ sick \in BOOLEAN
    /\ abandoned = 0
    /\ outcomes = <<>>

-----------------------------------------------------------------------------
Latest(s) == IF Len(s) > OutcomesKept THEN Tail(s) ELSE s

\* The client c ends its call and the breaker becomes b; a trial that is over
\* leaves its other probes behind.
Become(b, c, outcome) ==
    LET over == breaker.state = "half_open" /\ b.state # "half_open"
    IN  /\ breaker' = b
        /\ call' = [d \in Clients |->
                      IF d = c THEN "none"
                      ELSE IF over /\ call[d] = "probe" THEN "late" ELSE call[d]]
        /\ outcomes' = IF b.state # breaker.state THEN <<>>
                       ELSE Latest(Append(outcomes, outcome))
        /\ UNCHANGED <<sick, abandoned>>

(* call() takes the lock and lets the call run.  A rejected call changes   *)
(* nothing but statistics.                                                 *)
Admit(c) ==
    /\ c \in Callers
    /\ call[c] = "none"
    /\ MayRun(breaker)
    /\ breaker' = Admitted(breaker)
    /\ call' = [call EXCEPT ![c] = IF breaker.state = "closed" THEN "plain" ELSE "probe"]
    /\ abandoned' = IF breaker.state = "open" THEN 0 ELSE abandoned
    /\ outcomes' = IF breaker.state = "open" THEN <<>> ELSE outcomes
    /\ UNCHANGED sick

(* infer_cloud_fallback finds is_open false and posts its request.         *)
Post(c) ==
    /\ c \in Reporters
    /\ call[c] = "none"
    /\ breaker.state # "open"
    /\ call' = [call EXCEPT ![c] = "plain"]
    /\ UNCHANGED <<breaker, sick, abandoned, outcomes>>

Succeed(c) ==
    /\ call[c] # "none"
    /\ Become(OnSuccess(breaker), c, "ok")

Fail(c) ==
    /\ call[c] # "none"
    /\ sick
    /\ Become(OnFailure(breaker), c, "fail")

(* The task is cancelled (the watchdog of the scheduler restarts a stale   *)
(* device on the same breaker), or the function raises an excluded         *)
(* exception: nothing is recorded, a probe's slot is not given back.       *)
Abandon(c) ==
    /\ call[c] # "none"
    /\ call[c] = "probe" => abandoned < MaxAbandoned
    /\ abandoned' = IF call[c] = "probe" THEN abandoned + 1 ELSE abandoned
    /\ call' = [call EXCEPT ![c] = "none"]
    /\ UNCHANGED <<breaker, sick, outcomes>>

CoolDown ==
    /\ breaker.state = "open" /\ ~breaker.cooled
    /\ breaker' = [breaker EXCEPT !.cooled = TRUE]
    /\ UNCHANGED <<call, sick, abandoned, outcomes>>

(* reset(), by an operator.                                                *)
Reset ==
    /\ breaker' = Fresh
    /\ call' = [c \in Clients |-> IF call[c] = "probe" THEN "late" ELSE call[c]]
    /\ outcomes' = <<>>
    /\ UNCHANGED <<sick, abandoned>>

(* remove_breaker, when the collection of a device stops: the next call    *)
(* creates a new breaker, the calls in flight report to the old object.    *)
RemoveBreaker ==
    /\ breaker' = Fresh
    /\ call' = [c \in Clients |-> "none"]
    /\ outcomes' = <<>>
    /\ UNCHANGED <<sick, abandoned>>

Heal ==
    /\ sick
    /\ sick' = FALSE
    /\ UNCHANGED <<breaker, call, abandoned, outcomes>>

Finish(c) == Succeed(c) \/ Fail(c)

BreakerNext ==
    \/ \E c \in Clients : Admit(c) \/ Post(c) \/ Finish(c) \/ Abandon(c)
    \/ CoolDown \/ Reset \/ RemoveBreaker \/ Heal

BreakerSpec == BreakerInit /\ [][BreakerNext]_breakerVars

(* A collection loop calls again after every interval, a read ends by its  *)
(* timeout at the latest, and time passes.                                 *)
FairBreakerSpec ==
    /\ BreakerSpec
    /\ WF_breakerVars(CoolDown)
    /\ \A c \in Clients : WF_breakerVars(Admit(c) \/ Post(c)) /\ WF_breakerVars(Finish(c))

-----------------------------------------------------------------------------
(* A threshold that is reached is acted upon: a closed breaker has fewer   *)
(* consecutive failures than it takes to open, a half-open one fewer       *)
(* successes than it takes to close and no failure, whatever calls of      *)
(* earlier days report in between.                                         *)
ThresholdsActedOn ==
    /\ breaker.state = "closed" => breaker.failures < FailureThreshold
    /\ breaker.state = "half_open" => /\ breaker.successes < SuccessThreshold
                                      /\ breaker.failures = 0
                                      /\ breaker.probes > 0

ProbesInFlight == {c \in Clients : call[c] = "probe"}

(* A half-open breaker is never at its call limit with nobody left to      *)
(* report: it would then refuse every call for good, since only an outcome *)
(* moves it on.  Half-open slots are never given back, so this asks that   *)
(* at most HalfOpenMax - SuccessThreshold probes of a trial are abandoned. *)
NeverWedged ==
    breaker.state = "half_open" =>
        breaker.probes < HalfOpenMax \/ ProbesInFlight # {}

(* "consecutive failures" (test_circuit_breaker.py): a closed breaker      *)
(* opens on a failure only if the outcomes just before it were failures    *)
(* too, with no success from any client in between.                        *)
TripsOnStreak ==
    [][breaker.state = "closed" /\ breaker'.state = "open" =>
         /\ Len(outcomes) >= FailureThreshold - 1
         /\ \A i \in Len(outcomes) - FailureThreshold + 2 .. Len(outcomes) :
              outcomes[i] = "fail"]_breakerVars

(* A trial ends well only on SuccessThreshold successes recorded during    *)
(* that trial: what was counted while closed or open does not help.        *)
ClosesOnTrial ==
    [][breaker.state = "half_open" /\ breaker'.state = "closed"
         /\ (\E c \in Clients : Succeed(c)) =>
         Len(outcomes) >= SuccessThreshold - 1]_breakerVars

(* Once the device answers again the breaker closes: the cool-down ends,   *)
(* the next call is a probe, and the probes that are not abandoned suffice *)
(* to close it.                                                            *)
Recovers == ~sick ~> breaker.state = "closed"
=============================================================================
