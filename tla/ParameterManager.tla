-------------------------- MODULE ParameterManager --------------------------
(***************************************************************************)
(* The parameter manager of the core library: the buffers of one parameter *)
(* of one device (one per dimension element), the worker that owns them,   *)
(* their re-evaluation timers, and the clock.                              *)
(*                                                                         *)
(* A handler holds the device's lock from its first access to its last, so *)
(* each is one step.  Timer callbacks take no device lock and interleave   *)
(* with the handlers.  The parameterEvent channel and the worker's event   *)
(* queue are one bounded FIFO.  Clients and device are the environment:    *)
(* any value of the input sets may arrive at any moment, in any order.     *)
(***************************************************************************)
EXTENDS ParameterBuffer, ReevaluationTimer, SequencesExt

CONSTANTS
    Dims,            \* the parameter's dimension elements
    SetVals,         \* values clients set; some may be out of range
    StepVals,        \* increments clients send
    Commands,        \* TRUE if clients send Cmd values
    ReportVals,      \* in-range values the device reports
    ReportKinds,     \* further reports: subset of {"invalid", "available", "other"}
    MaxBatch,        \* values per reported message
    RateLimit,       \* the model's global rate limit in ticks; 0 is none
    DefaultValid,    \* WithDefaultValid
    QueueCap,        \* capacity of the event channel
    MaxFiring, MaxStrays  \* bounds on overlapping timer callbacks

ASSUME InputAssumption ==
    /\ IsFiniteSet(Dims) /\ Dims # {}
    /\ SetVals \subseteq Int /\ StepVals \subseteq Int
    /\ ReportVals \subseteq Minimum..Maximum
    /\ ReportKinds \subseteq {"invalid", "available", "other"}
    /\ {Commands, DefaultValid} \subseteq BOOLEAN
    /\ {RateLimit, QueueCap, MaxBatch, MaxFiring, MaxStrays} \subseteq Nat

VARIABLES
    buf,          \* buf[d]: the value buffer of dimension element d
    wake,         \* wake[d]: its re-evaluation timer
    events,       \* posted re-evaluations
    sinceUpdate,  \* ticks since lastUpdate, per element
    sinceEvent,   \* ticks since the device's last event
    out,          \* the command the last step handed to the core, if any
    told,         \* the last view of each element sent to the clients
    attempts      \* commands sent since a client last moved the target

vars == <<buf, wake, events, sinceUpdate, sinceEvent, out, told, attempts>>

(* Ages are kept up to the longest delay they are compared with.           *)
Horizon == CHOOSE h \in {ControlDelay, QuarantineDelay, RateLimit} :
              \A x \in {ControlDelay, QuarantineDelay, RateLimit} : x <= h
MaxAttempts == RetryCount + 1

NoCommand == [what |-> "none"]
Command(d, what, v) == [what |-> what, dim |-> d, value |-> v]
OutTypes == {NoCommand} \cup [what : {"value", "steps", "cmd"}, dim : Dims, value : Value]

(* reEvaluate drops what does not fit.                                     *)
Post(q, s) == LET all == q \o s
              IN SubSeq(all, 1, IF Len(all) <= QueueCap THEN Len(all) ELSE QueueCap)

Init ==
    /\ buf = [d \in Dims |-> InitialBuffer(DefaultValid)]
    /\ wake = [d \in Dims |-> NoWakeup]
    /\ events = <<>>
    /\ sinceUpdate = [d \in Dims |-> Horizon]
    /\ sinceEvent = Horizon
    /\ out = NoCommand
    /\ told = [d \in Dims |-> Told(InitialBuffer(DefaultValid), "NoError")]
    /\ attempts = [d \in Dims |-> 0]

(* The buffer as it is now goes to the clients.                            *)
AnnounceNothing(d, error) == UNCHANGED told  \* mutant: clients are not told
Announce(d, error) == told' = [told EXCEPT ![d] = Told(buf'[d], error)]

-----------------------------------------------------------------------------
(* ingestTargetParameter.  A message with several values is several of     *)
(* these steps: its iterations share nothing but the lock.                 *)

(* Every refusal: an error goes to the clients, nothing changes.           *)
Refuse == out' = NoCommand /\ UNCHANGED <<buf, wake, events, sinceUpdate, sinceEvent, told, attempts>>

(* The value goes straight to the core, past every delay and every record. *)
Forward(d, what, v) ==
    /\ out' = Command(d, what, v)
    /\ UNCHANGED <<buf, wake, events, sinceUpdate, sinceEvent, told, attempts>>

SetUnavailable(d) == ~buf[d].available /\ Refuse

SetValueIgnored(d, n) ==
    /\ buf[d].available
    /\ \/ n \notin Minimum..Maximum
       \/ /\ Equal(buf[d].current, IntValue(n))
          /\ "ValuePassthrough" \notin Flags
    /\ Refuse

SetValuePassthrough(d, n) ==
    /\ buf[d].available
    /\ n \in Minimum..Maximum
    /\ "ValuePassthrough" \in Flags
    /\ Forward(d, "value", IntValue(n))

SetValue(d, n) ==
    /\ buf[d].available
    /\ n \in Minimum..Maximum
    /\ "ValuePassthrough" \notin Flags
    /\ ~Equal(buf[d].current, IntValue(n))
    /\ buf' = [buf EXCEPT ![d] = Reflag(Retarget(@, IntValue(n)))]
    /\ events' = Post(events, <<d>>)
    /\ attempts' = [attempts EXCEPT ![d] = 0]
    /\ out' = NoCommand
    /\ UNCHANGED <<wake, sinceUpdate, sinceEvent, told>>

StepsRefused(d, s) == buf[d].available /\ s \notin StepsLower..StepsUpper /\ Refuse

StaysInRange(d, s) == buf[d].target.n + s \in Minimum..Maximum

(* Steps reach the core only untouched or when they leave the range.       *)
StepsForwarded(d, s) ==
    /\ buf[d].available
    /\ s \in StepsLower..StepsUpper
    /\ "IncrementalPassthrough" \in Flags \/ ~StaysInRange(d, s)
    /\ Forward(d, "steps", IntValue(s))

StepsApplied(d, s) ==
    /\ buf[d].available
    /\ s \in StepsLower..StepsUpper
    /\ "IncrementalPassthrough" \notin Flags
    /\ StaysInRange(d, s)
    /\ buf' = [buf EXCEPT ![d] = Increment(@, s)]
    /\ Announce(d, "NoError")
    /\ attempts' = [attempts EXCEPT ![d] = 0]
    /\ out' = NoCommand
    /\ UNCHANGED <<wake, events, sinceUpdate, sinceEvent>>

SetCommand(d) ==
    /\ Commands
    /\ buf[d].available
    /\ IF ControlStyle = "Normal" THEN Refuse ELSE Forward(d, "cmd", InvalidValue)

IngestTarget(d) ==
    \/ SetUnavailable(d)
    \/ \E n \in SetVals : SetValueIgnored(d, n) \/ SetValuePassthrough(d, n) \/ SetValue(d, n)
    \/ \E s \in StepVals : StepsRefused(d, s) \/ StepsForwarded(d, s) \/ StepsApplied(d, s)
    \/ SetCommand(d)

-----------------------------------------------------------------------------
(* ingestCurrentParameter.                                                 *)

Reports ==
    [what : {"value"}, n : ReportVals]
    \cup (IF "invalid" \in ReportKinds THEN {[what |-> "invalid"]} ELSE {})
    \cup (IF "available" \in ReportKinds THEN [what : {"available"}, is : BOOLEAN] ELSE {})
    \* min, max, option list and default updates, and values that are rejected
    \cup (IF "other" \in ReportKinds THEN {[what |-> "other"]} ELSE {})

(* One report for each of some elements; the values may come in any order.*)
Messages == UNION {[E -> Reports] : E \in {E \in SUBSET Dims : Cardinality(E) \in 1..MaxBatch}}

(* A settled or not yet tried buffer that was commanded recently keeps its *)
(* target and is looked at again when the quarantine ends.                 *)
Quarantined(r, age) == r.tryCount = 0 /\ age < QuarantineDelay

AdoptsAnytime(r, age) == r.tryCount = 0  \* mutant: no quarantine
Adopts(r, age) == r.tryCount = 0 /\ age >= QuarantineDelay

(* The device's value replaces the target when it is adopted, or accepted  *)
(* as close enough; what it confirms is no longer tried.                   *)
Adopted(r, age) ==
    IF \/ Adopts(r, age)
       \/ FeedbackStyle = "NoFeedback"
       \/ Pending(r) /\ WithinThreshold(r)
    THEN FallBack(r) ELSE r
MarkedAfresh(r) == [r EXCEPT !.assumed = Pending(r), !.tryCount = 0]  \* mutant: every report ends the count
Marked(r) == [r EXCEPT !.assumed = Pending(r), !.tryCount = IF Pending(r) THEN @ ELSE 0]
AbsorbValue(r, age, v) == Marked(Adopted([r EXCEPT !.current = v], age))

AbsorbInvalid(r, age) ==
    Reflag([r EXCEPT !.current = InvalidValue,
                     !.target = IF Adopts(r, age) THEN InvalidValue ELSE @])

Absorb(r, age, rep) ==
    CASE rep.what = "value" -> AbsorbValue(r, age, IntValue(rep.n))
      [] rep.what = "invalid" -> AbsorbInvalid(r, age)
      [] rep.what = "available" -> Reflag([r EXCEPT !.available = rep.is])
      [] OTHER -> r

(* A value the buffer already holds is skipped; everything else stops the  *)
(* element's timer.                                                        *)
Touched(rep) ==
    {d \in DOMAIN rep : rep[d].what = "value" => ~Equal(buf[d].current, IntValue(rep[d].n))}
Held(rep, d) == rep[d].what = "value" /\ Quarantined(buf[d], sinceUpdate[d])
Reprocess(rep) == {d \in Touched(rep) : rep[d].what = "value" /\ ~Held(rep, d)}

TooSoonAlways(d) == ControlDelay # 0  \* mutant: the age is not looked at
TooSoon(d) == ControlDelay # 0 /\ sinceUpdate[d] < ControlDelay

(* The elements with a new value go back to the worker in the message's    *)
(* order, in a loop that returns at the first one inside its control delay:*)
(* n of them are posted.                                                   *)
LoopPosts(again, n) ==
    /\ \A i \in 1..n : ~TooSoon(again[i])
    /\ n < Len(again) => TooSoon(again[n + 1])
StopsAt(again, n, d) == n < Len(again) /\ again[n + 1] = d

Rescheduled(rep, again, n, d) ==
    IF d \notin Touched(rep) THEN wake[d]
    ELSE IF Held(rep, d) THEN Schedule(Cancel(wake[d]), QuarantineDelay - sinceUpdate[d])
    ELSE IF StopsAt(again, n, d) THEN Schedule(Cancel(wake[d]), ControlDelay - sinceUpdate[d])
    ELSE Cancel(wake[d])

IngestCurrent(rep, again, n) ==
    /\ LoopPosts(again, n)
    /\ buf' = [d \in Dims |-> IF d \in Touched(rep) THEN Absorb(buf[d], sinceUpdate[d], rep[d])
                             ELSE buf[d]]
    /\ wake' = [d \in Dims |-> Rescheduled(rep, again, n, d)]
    /\ told' = [d \in Dims |-> IF d \in Touched(rep) /\ rep[d].what # "other"
                              THEN Told(buf'[d], "NoError") ELSE told[d]]
    /\ events' = Post(events, SubSeq(again, 1, n))
    /\ out' = NoCommand
    /\ UNCHANGED <<sinceUpdate, sinceEvent, attempts>>

Report ==
    \E rep \in Messages : \E again \in SetToSeqs(Reprocess(rep)) :
        \E n \in 0..Len(again) : IngestCurrent(rep, again, n)

-----------------------------------------------------------------------------
(* processParameter and handleSingleParameterBuffer: one action per way    *)
(* out of the function, in the order of its checks.                        *)

Take(d) == events # <<>> /\ Head(events) = d /\ events' = Tail(events)

(* A new timer reads the buffer with getParameterValue.                    *)
Reschedule(d, r, t) ==
    /\ wake' = [wake EXCEPT ![d] = Schedule(@, t)]
    /\ buf' = [buf EXCEPT ![d] = IF wake[d].tracked THEN r ELSE Reflag(r)]

Limited == RateLimit # 0 /\ "RateLimitExclude" \notin Flags /\ sinceEvent < RateLimit
Exhausted(d) == HasRetryLimit /\ buf[d].tryCount >= RetryCount
NoQuarantine(d) == FALSE  \* mutant: the error does not wait
InQuarantine(d) == QuarantineDelay # 0 /\ sinceUpdate[d] < QuarantineDelay

NothingPending(d) ==
    /\ Take(d) /\ ~buf[d].assumed
    /\ out' = NoCommand
    /\ UNCHANGED <<buf, wake, sinceUpdate, sinceEvent, told, attempts>>

AcceptCurrent(d) ==
    /\ Take(d) /\ buf[d].assumed /\ WithinThreshold(buf[d])
    /\ buf' = [buf EXCEPT ![d] = Reflag(FallBack(@))]
    /\ Announce(d, "NoError")
    /\ out' = NoCommand
    /\ UNCHANGED <<wake, sinceUpdate, sinceEvent, attempts>>

Delay(d) ==
    /\ Take(d) /\ buf[d].assumed /\ ~WithinThreshold(buf[d])
    /\ \/ Limited /\ Reschedule(d, buf[d], RateLimit - sinceEvent)
       \/ /\ ~Limited /\ TooSoon(d)
          /\ Reschedule(d, buf[d], ControlDelay - sinceUpdate[d])
       \/ /\ ~Limited /\ ~TooSoon(d) /\ Exhausted(d) /\ InQuarantine(d)
          /\ Reschedule(d, buf[d], QuarantineDelay - sinceUpdate[d])
    /\ out' = NoCommand
    /\ UNCHANGED <<sinceUpdate, sinceEvent, told, attempts>>

MayAct(d) ==
    /\ Take(d) /\ buf[d].assumed /\ ~WithinThreshold(buf[d])
    /\ ~Limited /\ ~TooSoon(d)

GiveUp(d) ==
    /\ MayAct(d) /\ Exhausted(d) /\ ~InQuarantine(d)
    /\ buf' = [buf EXCEPT ![d] = Reflag([FallBack(@) EXCEPT !.tryCount = 0])]
    /\ Announce(d, "MaxRetrys")
    /\ out' = NoCommand
    /\ UNCHANGED <<wake, sinceUpdate, sinceEvent, attempts>>

(* lastUpdate, the device's last event, and the count of what was sent.    *)
StampElement(d) ==  \* mutant: the device's last event is forgotten
    /\ sinceUpdate' = [sinceUpdate EXCEPT ![d] = 0]
    /\ UNCHANGED sinceEvent
Stamp(d) ==
    /\ sinceUpdate' = [sinceUpdate EXCEPT ![d] = 0]
    /\ sinceEvent' = IF "RateLimitExclude" \in Flags THEN sinceEvent ELSE 0

CountAttempt(d) == attempts' = [attempts EXCEPT ![d] = IF @ < MaxAttempts THEN @ + 1 ELSE @]

(* What was sent is echoed to the clients unless feedback is immediate.    *)
Echo(d, v, assumed) ==
    told' = IF FeedbackStyle = "Normal" THEN told
            ELSE [told EXCEPT ![d] = [value |-> v, assumed |-> assumed,
                                      available |-> buf[d].available, error |-> "NoError"]]

NextStep(r) == SmoothingStep(r.smoothing.n, r.target.n)
MidSmoothing(r) == r.smoothing.active /\ NextStep(r) # r.target.n

(* Normal control, on the way to the target: NoFeedback takes the step as  *)
(* the device's value.                                                     *)
SendStep(d) ==
    /\ MayAct(d) /\ ~Exhausted(d) /\ ControlStyle = "Normal" /\ MidSmoothing(buf[d])
    /\ LET r == buf[d]
           step == [kind |-> "int", n |-> NextStep(r), invalid |-> r.target.invalid]
           moved == [r EXCEPT !.smoothing.n = NextStep(r), !.tryCount = 0,
                              !.current = IF FeedbackStyle = "NoFeedback" THEN step ELSE @]
       IN /\ Reschedule(d, moved, ControlDelay)
          /\ out' = Command(d, "value", step)
          /\ Echo(d, step, TRUE)
    /\ Stamp(d) /\ CountAttempt(d)

(* Normal control, the target itself: NoFeedback settles at once, the      *)
(* other styles look again one tick after the control delay.               *)
SendTarget(d) ==
    /\ MayAct(d) /\ ~Exhausted(d) /\ ControlStyle = "Normal" /\ ~MidSmoothing(buf[d])
    /\ LET r == [Reflag(buf[d]) EXCEPT !.smoothing = NotSmoothing, !.tryCount = @ + 1]
       IN /\ out' = Command(d, "value", r.target)
          /\ IF FeedbackStyle = "NoFeedback"
             THEN /\ buf' = [buf EXCEPT ![d] = Settle(r)]
                  /\ UNCHANGED wake
             ELSE IF ControlDelay # 0
             THEN Reschedule(d, r, ControlDelay + 1)
             ELSE buf' = [buf EXCEPT ![d] = r] /\ UNCHANGED wake
          /\ Echo(d, r.target, buf'[d].assumed)
    /\ Stamp(d) /\ CountAttempt(d)

SendIncremental(d) ==
    /\ MayAct(d) /\ ~Exhausted(d) /\ ControlStyle = "Incremental"
    /\ Reschedule(d, [Reflag(buf[d]) EXCEPT !.tryCount = @ + 1], ControlDelay)
    /\ out' = Command(d, "value", buf[d].target)
    /\ UNCHANGED told
    /\ Stamp(d) /\ CountAttempt(d)

(* Oneshot and NoControl send nothing, yet count as an event.              *)
Withhold(d) ==
    /\ MayAct(d) /\ ~Exhausted(d) /\ ControlStyle \in {"Oneshot", "NoControl"}
    /\ buf' = [buf EXCEPT ![d] = Withdraw(@)]
    /\ out' = NoCommand
    /\ UNCHANGED <<wake, told, attempts>>
    /\ Stamp(d)

Process(d) ==
    \/ NothingPending(d) \/ AcceptCurrent(d) \/ Delay(d) \/ GiveUp(d)
    \/ SendStep(d) \/ SendTarget(d) \/ SendIncremental(d) \/ Withhold(d)

-----------------------------------------------------------------------------
(* Timers, reads and the clock.                                            *)

ExpireTimer(d) ==
    /\ wake[d].firing < MaxFiring
    /\ \/ Due(wake[d]) /\ wake' = [wake EXCEPT ![d] = Fired(@)]
       \/ StrayDue(wake[d]) /\ wake' = [wake EXCEPT ![d] = StrayFired(@)]
    /\ events' = Post(events, <<d>>)
    /\ out' = NoCommand
    /\ UNCHANGED <<buf, sinceUpdate, sinceEvent, told, attempts>>

FinishCallback(d) ==
    /\ wake[d].firing > 0
    /\ wake[d].left # Off => wake[d].strays < MaxStrays
    /\ wake' = [wake EXCEPT ![d] = Forgotten(@)]
    /\ out' = NoCommand
    /\ UNCHANGED <<buf, events, sinceUpdate, sinceEvent, told, attempts>>

(* Get, Subscribe and the registry's getters run getParameterValue under a *)
(* read lock and so write the assumed mark.                                *)
Read(d) ==
    /\ buf' = [buf EXCEPT ![d] = Reflag(@)]
    /\ out' = NoCommand
    /\ UNCHANGED <<wake, events, sinceUpdate, sinceEvent, told, attempts>>

Older(age) == IF age < Horizon THEN age + 1 ELSE age

Tick ==
    /\ sinceUpdate' = [d \in Dims |-> Older(sinceUpdate[d])]
    /\ sinceEvent' = Older(sinceEvent)
    /\ wake' = [d \in Dims |-> Elapsed(wake[d])]
    /\ out' = NoCommand
    /\ UNCHANGED <<buf, events, told, attempts>>

Next ==
    \/ \E d \in Dims : \/ IngestTarget(d) \/ Process(d) \/ ExpireTimer(d)
                       \/ FinishCallback(d) \/ Read(d)
    \/ Report
    \/ Tick

Spec == Init /\ [][Next]_vars

-----------------------------------------------------------------------------
(* What a correct manager must keep.                                       *)

(* Every variable keeps its type; in particular no wake-up is scheduled in *)
(* the past and the event channel never exceeds its capacity.              *)
TypeOK ==
    /\ buf \in [Dims -> Buffer]
    /\ wake \in [Dims -> Wakeup]
    /\ events \in Seq(Dims) /\ Len(events) <= QueueCap
    /\ sinceUpdate \in [Dims -> 0..Horizon]
    /\ sinceEvent \in 0..Horizon
    /\ out \in OutTypes
    /\ told \in [Dims -> View]
    /\ attempts \in [Dims -> 0..MaxAttempts]

(* The assumed mark says whether the target still differs from what the    *)
(* device reported, whichever handlers ran: reading a parameter, which     *)
(* recomputes the mark, can therefore never change what clients see.  Only *)
(* an invalidated NoFeedback parameter is settled on no value at all, and  *)
(* only a Oneshot one keeps its mark when its value is taken back.         *)
AssumedCoherent ==
    \A d \in Dims :
       \/ buf[d].assumed = Pending(buf[d])
       \/ /\ FeedbackStyle = "NoFeedback"
          /\ IF ControlStyle = "Oneshot" THEN buf[d].assumed
                                        ELSE buf[d].target.kind = "nil"

(* Once a parameter is settled its last message to the clients already     *)
(* carried the settled value and mark: no client is left with an assumed   *)
(* or outdated value that nothing will correct.                            *)
SettledIsTold ==
    \A d \in Dims :
       /\ told[d].available = buf[d].available
       /\ ~buf[d].assumed => told[d].value = buf[d].target /\ ~told[d].assumed

(* MaxRetrys is reported only for a target that was really commanded       *)
(* RetryCount times, after the quarantine of the last command              *)
(* (parameter-manager-process.go:150, "Do not fire an error max retry      *)
(* before quarantine delay is over").                                      *)
GivesUpOn(d) == told'[d].error = "MaxRetrys" /\ told[d].error # "MaxRetrys"
GiveUpSound ==
    [][\A d \in Dims : GivesUpOn(d) =>
          attempts[d] >= RetryCount /\ sinceUpdate[d] >= QuarantineDelay]_vars

(* With feedback and no acceptance threshold, a target that has been       *)
(* commanded outlives contradicting reports: unless a client moves it, it  *)
(* is dropped only when the quarantine of the last command is over and the *)
(* manager is not in the middle of trying.                                 *)
CommandedTargetHolds ==
    [][\A d \in Dims :
          /\ attempts[d] > 0 /\ attempts'[d] > 0
          /\ buf'[d].target # buf[d].target
          => /\ sinceUpdate[d] >= QuarantineDelay
             /\ buf[d].tryCount \in {0, RetryCount}]_vars

(* A target the device has not confirmed always has something on its way   *)
(* that makes the worker look at it again (getting-started.md:162, "The    *)
(* manager retries unconfirmed values").                                   *)
NeverStranded ==
    \A d \in Dims : buf[d].assumed => d \in Range(events) \/ Armed(wake[d])

(* A smoothed NoFeedback parameter never moves the device by more than the *)
(* step from the value it was last given or reported (parameters.md:386,   *)
(* "each moving at most maxStepSize").                                     *)
SmoothMoves ==
    [][\A d \in Dims : out' # NoCommand /\ out'.dim = d =>
          out'.value.n - buf[d].current.n \in (-MaxStep)..MaxStep]_vars

(* With WithValuePassthrough (parameters.md:382, "Disables the manager")   *)
(* the buffers only follow the device: none is ever waiting for a value    *)
(* some client sent.                                                       *)
FollowsDevice == "ValuePassthrough" \in Flags => \A d \in Dims : ~buf[d].assumed

-----------------------------------------------------------------------------
(* The same system when a timer callback is never overtaken between its    *)
(* two steps and the event channel never fills up, with the fairness of    *)
(* the goroutines: the worker serves its queue, timers fire, callbacks     *)
(* finish, time passes.                                                    *)
Calm == \A d \in Dims : wake[d].firing = 0
PromptNext ==
    /\ Next
    /\ Calm \/ \E d \in Dims : FinishCallback(d)
    /\ Len(events') < QueueCap

Fairness ==
    /\ \A d \in Dims : WF_vars(Process(d)) /\ WF_vars(ExpireTimer(d)) /\ WF_vars(FinishCallback(d))
    /\ WF_vars(Tick)

PromptSpec == Init /\ [][PromptNext]_vars
LiveSpec == PromptSpec /\ Fairness

(* When clients and device fall silent, every pending target is confirmed, *)
(* replaced by the device's value, or given up.                            *)
Silent == \A d \in Dims : buf'[d].current = buf[d].current /\ attempts'[d] >= attempts[d]
Settles == \A d \in Dims : (<>[][Silent]_vars) => (buf[d].assumed ~> ~buf[d].assumed)
=============================================================================
