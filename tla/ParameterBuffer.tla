--------------------------- MODULE ParameterBuffer ---------------------------
(***************************************************************************)
(* The value buffer of one parameter instance (parameter-buffer.go) and    *)
(* the fields of the parameter's configuration that steer it.  A value     *)
(* keeps what the manager compares: the payload (an integer, or nothing)   *)
(* and the Invalid mark.                                                   *)
(***************************************************************************)
EXTENDS Integers

CONSTANTS
    ControlStyle,     \* "Normal", "Incremental", "Oneshot" or "NoControl"
    FeedbackStyle,    \* "Normal", "Delayed" or "NoFeedback"
    ControlDelay,     \* ControlDelayMs, in ticks
    QuarantineDelay,  \* QuarantineDelayMs, in ticks
    RetryCount,       \* commands per target; 0 is no limit
    Threshold,        \* AcceptanceThreshold; 0 is off
    MaxStep,          \* smoothing step as computeSmoothingStep uses it; 0 is off
    Flags,            \* subset of {"IncrementalPassthrough", "RateLimitExclude", "ValuePassthrough"}
    Minimum, Maximum, \* static value range
    StepsLower, StepsUpper  \* IncDecStepsLowerLimit and -UpperLimit

(* What validateParameter and RegisterDevice enforce, or exit.             *)
ASSUME ConfigAssumption ==
    /\ ControlStyle \in {"Normal", "Incremental", "Oneshot", "NoControl"}
    /\ FeedbackStyle \in {"Normal", "Delayed", "NoFeedback"}
    /\ {ControlDelay, QuarantineDelay, RetryCount, Threshold, MaxStep} \subseteq Nat
    /\ {Minimum, Maximum, StepsLower, StepsUpper} \subseteq Int
    /\ ControlStyle = "NoControl" => FeedbackStyle # "NoFeedback"
    /\ ControlStyle # "Incremental" => StepsLower = 0 /\ StepsUpper = 0
    /\ (ControlStyle \in {"Normal", "Incremental"} /\ FeedbackStyle # "NoFeedback") => RetryCount > 0
    /\ RetryCount > 0 => ControlDelay > 0
    /\ MaxStep > 0 => ControlDelay > 0

Value == [kind : {"int", "nil"}, n : Int, invalid : BOOLEAN]

IntValue(n) == [kind |-> "int", n |-> n, invalid |-> FALSE]

(* paramhelpers.Invalid(): no payload, so GetInteger reads 0.              *)
InvalidValue == [kind |-> "nil", n |-> 0, invalid |-> TRUE]

Smoothing == [active : BOOLEAN, n : Int]
NotSmoothing == [active |-> FALSE, n |-> 0]

Buffer == [current : Value, target : Value, assumed : BOOLEAN, available : BOOLEAN,
           tryCount : Nat, smoothing : Smoothing]

InitialBuffer(defaultValid) ==
    LET v == [kind |-> "int", n |-> 0, invalid |-> ~defaultValid]
    IN [current |-> v, target |-> v, assumed |-> FALSE, available |-> TRUE,
        tryCount |-> 0, smoothing |-> NotSmoothing]

(* currentEquals: a missing payload equals nothing, not even itself.       *)
Equal(v, w) == v.kind = "int" /\ w.kind = "int" /\ v.n = w.n /\ v.invalid = w.invalid

Pending(r) == ~Equal(r.current, r.target)

(* The write hidden in getParameterValue: the assumed mark is recomputed.  *)
ReflagNothing(r) == r  \* mutant: the mark stays as it was
Reflag(r) == [r EXCEPT !.assumed = Pending(r)]

(* What getParameterValue hands out, next to the error code of the message.*)
View == [value : Value, assumed : BOOLEAN, available : BOOLEAN, error : {"NoError", "MaxRetrys"}]
Told(r, error) ==
    [value |-> r.target, assumed |-> Pending(r), available |-> r.available, error |-> error]

(* target - threshold < current < target + threshold                       *)
WithinThreshold(r) ==
    /\ Threshold # 0
    /\ r.target.n - Threshold < r.current.n
    /\ r.current.n < r.target.n + Threshold

(* The device's value becomes the target and a smoothing sequence ends.    *)
FallBackHalf(r) == [r EXCEPT !.smoothing = NotSmoothing]  \* mutant: the target stays
FallBack(r) == [r EXCEPT !.target = r.current, !.smoothing = NotSmoothing]

HasRetryLimit == RetryCount # 0 /\ FeedbackStyle # "NoFeedback"

SmoothingStepUp(from, to) ==  \* mutant: only rising values are limited
    IF to - from > MaxStep THEN from + MaxStep ELSE to
SmoothingStep(from, to) ==
    IF to - from > MaxStep THEN from + MaxStep
    ELSE IF from - to > MaxStep THEN from - MaxStep
    ELSE to

(* The target a client's value becomes; smoothing starts where the device  *)
(* is believed to be, unless a sequence is already running.                *)
Retarget(r, v) ==
    [r EXCEPT !.target = v, !.assumed = TRUE, !.tryCount = 0,
              !.smoothing = IF MaxStep > 0 /\ ~r.smoothing.active
                            THEN [active |-> TRUE, n |-> r.current.n]
                            ELSE r.smoothing]

(* An increment that stays in range moves the target, and without feedback *)
(* the current value with it; only the target loses its Invalid mark.      *)
Filled(v, n) == [v EXCEPT !.kind = "int", !.n = n]
Increment(r, steps) ==
    LET n == r.target.n + steps
    IN Reflag([r EXCEPT !.target = [Filled(@, n) EXCEPT !.invalid = FALSE],
                        !.current = IF FeedbackStyle = "NoFeedback" THEN Filled(@, n) ELSE @])

(* NoFeedback: what goes out is the device's value from then on.           *)
SettleHalf(r) == [r EXCEPT !.assumed = FALSE]  \* mutant: the current value is forgotten
Settle(r) == [r EXCEPT !.current = r.target, !.assumed = FALSE]

(* Oneshot and NoControl: without feedback the target is taken back.       *)
WithdrawSwapped(r) == [r EXCEPT !.current = r.target]  \* mutant: the wrong side is copied
Withdraw(r) == IF FeedbackStyle = "NoFeedback" THEN [r EXCEPT !.target = r.current] ELSE r
=============================================================================
