----------------------- MODULE ParameterManagerProofs -----------------------
(***************************************************************************)
(* Proofs about ParameterManager, for every configuration its assumptions  *)
(* admit, every set of elements and every channel capacity.                *)
(*                                                                         *)
(* First the operators and the type invariant, action by action.  Then     *)
(* ElementStep, which says what one step can do to one element, so that    *)
(* each invariant below is shown per element over a dozen changes.  The    *)
(* invariants, with what makes them inductive:                             *)
(*   RetryBound             by itself; what the others need of the count   *)
(*   AssumedCoherent        by itself, as Coherent of each buffer          *)
(*   SettledIsTold          with AssumedCoherent; where nothing is sent,   *)
(*                          with AlwaysTold                                *)
(*   GiveUpSound            from TriesWereSent: a try is a counted command *)
(*   CommandedTargetHolds   from RetryBound                                *)
(*   FollowsDevice          from Idle: nothing pending, nothing tried      *)
(***************************************************************************)
EXTENDS ParameterManager, SequenceTheorems, FiniteSetTheorems, TLAPS

(* The idle smoothing record is one.                                        *)
LEMMA NotSmoothingType == NotSmoothing \in Smoothing
BY DEF NotSmoothing, Smoothing

(* The two value constructors give values.                                  *)
LEMMA ValueTypes ==
    /\ InvalidValue \in Value
    /\ \A n \in Int : IntValue(n) \in Value
BY DEF IntValue, InvalidValue, Value

(* Ages saturate no earlier than any delay they are compared with.          *)
LEMMA HorizonFacts ==
    /\ Horizon \in Nat
    /\ ControlDelay <= Horizon /\ QuarantineDelay <= Horizon /\ RateLimit <= Horizon
<1> DEFINE S == {ControlDelay, QuarantineDelay, RateLimit}
           Longest(h) == \A x \in S : x <= h
<1>1. S \subseteq Nat
  BY ConfigAssumption, InputAssumption
<1>2. \E h \in S : Longest(h)
  BY <1>1, SMT
<1>3. Horizon \in S /\ Longest(Horizon)
  BY <1>2 DEF Horizon
<1>4. QED
  BY <1>1, <1>3

(* Recomputing the mark makes it what the comparison says, and nothing else. *)
LEMMA ReflagFacts ==
    ASSUME NEW r \in Buffer
    PROVE  /\ Reflag(r) \in Buffer
           /\ Reflag(r).assumed = Pending(r)
           /\ Reflag(r).assumed = Pending(Reflag(r))
           /\ Reflag(r).current = r.current /\ Reflag(r).target = r.target
           /\ Reflag(r).available = r.available /\ Reflag(r).tryCount = r.tryCount
           /\ Reflag(r).smoothing = r.smoothing
BY DEF Reflag, Buffer, Pending, Equal

(* What clients are told is a view.                                         *)
LEMMA ToldType ==
    ASSUME NEW r \in Buffer, NEW e \in {"NoError", "MaxRetrys"}
    PROVE  Told(r, e) \in View
BY DEF Told, View, Buffer, Pending, Equal

(* Falling back to the device's value keeps a buffer a buffer.              *)
LEMMA FallBackType ==
    ASSUME NEW r \in Buffer
    PROVE  /\ FallBack(r) \in Buffer
           /\ FallBack(r).current = r.current /\ FallBack(r).target = r.current
           /\ FallBack(r).tryCount = r.tryCount
BY NotSmoothingType DEF FallBack, Buffer

(* So does a client's new value.                                            *)
LEMMA RetargetType ==
    ASSUME NEW r \in Buffer, NEW v \in Value
    PROVE  Retarget(r, v) \in Buffer
BY DEF Retarget, Buffer, NotSmoothing, Smoothing, Value

(* Filling in a payload keeps a value a value.                              *)
LEMMA FilledType ==
    ASSUME NEW v \in Value, NEW n \in Int
    PROVE  /\ Filled(v, n) \in Value
           /\ [Filled(v, n) EXCEPT !.invalid = FALSE] \in Value
BY DEF Filled, Value

(* So does an increment, which leaves the mark recomputed.                  *)
LEMMA IncrementType ==
    ASSUME NEW r \in Buffer, NEW s \in Int
    PROVE  /\ Increment(r, s) \in Buffer
           /\ Increment(r, s).assumed = Pending(Increment(r, s))
           /\ Increment(r, s).tryCount = r.tryCount
           /\ Increment(r, s).available = r.available
<1> DEFINE n == r.target.n + s
           moved == [r EXCEPT !.target = [Filled(@, n) EXCEPT !.invalid = FALSE],
                              !.current = IF FeedbackStyle = "NoFeedback" THEN Filled(@, n) ELSE @]
<1>1. n \in Int
  BY DEF Buffer, Value
<1>2. /\ Filled(r.current, n) \in Value
      /\ [Filled(r.target, n) EXCEPT !.invalid = FALSE] \in Value
  <2>1. r.current \in Value /\ r.target \in Value
    BY DEF Buffer
  <2>2. QED
    BY <1>1, <2>1, FilledType
<1> HIDE DEF n
<1>3. moved \in Buffer /\ moved.tryCount = r.tryCount /\ moved.available = r.available
  BY <1>2 DEF Buffer
<1> HIDE DEF moved
<1>4. QED
  BY <1>3, ReflagFacts DEF Increment, moved, n

(* NoFeedback settling keeps a buffer a buffer.                             *)
LEMMA SettleType ==
    ASSUME NEW r \in Buffer
    PROVE  Settle(r) \in Buffer /\ Withdraw(r) \in Buffer
BY DEF Settle, Withdraw, Buffer

(* Scheduling keeps a wake-up one: no deadline is in the past.              *)
LEMMA ScheduleType ==
    ASSUME NEW w \in Wakeup, NEW t \in Nat
    PROVE  Schedule(w, t) \in Wakeup /\ Cancel(w) \in Wakeup
BY DEF Schedule, Cancel, Wakeup, Off

(* What a report confirms is no longer tried; the rest keeps its count.     *)
LEMMA MarkedFacts ==
    ASSUME NEW r \in Buffer
    PROVE  /\ Marked(r) \in Buffer
           /\ Marked(r).assumed = Pending(Marked(r))
           /\ Marked(r).current = r.current /\ Marked(r).target = r.target
           /\ Marked(r).tryCount \in {0, r.tryCount}
BY DEF Marked, Buffer, Pending, Equal

(* Adopting moves the target to the current value or leaves the buffer alone. *)
LEMMA AdoptedFacts ==
    ASSUME NEW r \in Buffer, NEW age \in Nat
    PROVE  /\ Adopted(r, age) \in Buffer
           /\ Adopted(r, age).current = r.current
           /\ Adopted(r, age).tryCount = r.tryCount
           /\ Adopted(r, age).target \in {r.target, r.current}
BY FallBackType DEF Adopted

(* A reported value leaves a buffer whose mark is recomputed.               *)
LEMMA AbsorbValueType ==
    ASSUME NEW r \in Buffer, NEW age \in Nat, NEW v \in Value
    PROVE  /\ AbsorbValue(r, age, v) \in Buffer
           /\ AbsorbValue(r, age, v).assumed = Pending(AbsorbValue(r, age, v))
           /\ AbsorbValue(r, age, v).tryCount \in {0, r.tryCount}
<1> DEFINE seen == [r EXCEPT !.current = v]
<1>1. seen \in Buffer /\ seen.tryCount = r.tryCount
  BY DEF Buffer
<1> HIDE DEF seen
<1>2. /\ Adopted(seen, age) \in Buffer
      /\ Adopted(seen, age).tryCount = r.tryCount
  BY <1>1, AdoptedFacts
<1>4. QED
  BY <1>2, MarkedFacts DEF AbsorbValue, seen

(* An Invalid report leaves a buffer whose mark is recomputed.              *)
LEMMA AbsorbInvalidType ==
    ASSUME NEW r \in Buffer, NEW age \in Nat
    PROVE  /\ AbsorbInvalid(r, age) \in Buffer
           /\ AbsorbInvalid(r, age).assumed = Pending(AbsorbInvalid(r, age))
           /\ AbsorbInvalid(r, age).tryCount = r.tryCount
<1> DEFINE lost == [r EXCEPT !.current = InvalidValue,
                     !.target = IF Adopts(r, age) THEN InvalidValue ELSE @]
<1>1. lost \in Buffer /\ lost.tryCount = r.tryCount
  BY ValueTypes DEF Buffer
<1> HIDE DEF lost
<1>2. QED
  BY <1>1, ReflagFacts DEF AbsorbInvalid, lost

(* Every report leaves a buffer.                                            *)
LEMMA AbsorbType ==
    ASSUME NEW r \in Buffer, NEW age \in Nat, NEW rep \in Reports
    PROVE  /\ Absorb(r, age, rep) \in Buffer
           /\ Absorb(r, age, rep).tryCount \in {0, r.tryCount}
           /\ IF rep.what = "other" THEN Absorb(r, age, rep) = r
              ELSE Absorb(r, age, rep).assumed = Pending(Absorb(r, age, rep))
<1>1. CASE rep.what = "value"
  <2>1. rep.n \in Int
    <3>1. rep \in [what : {"value"}, n : ReportVals]
      BY <1>1 DEF Reports
    <3>2. ReportVals \subseteq Int
      BY InputAssumption, ConfigAssumption
    <3>3. QED
      BY <3>1, <3>2
  <2>2. IntValue(rep.n) \in Value
    BY <2>1, ValueTypes
  <2>3. Absorb(r, age, rep) = AbsorbValue(r, age, IntValue(rep.n))
    BY <1>1 DEF Absorb
  <2>4. QED
    BY <1>1, <2>2, <2>3, AbsorbValueType
<1>2. CASE rep.what = "invalid"
  <2>1. Absorb(r, age, rep) = AbsorbInvalid(r, age)
    BY <1>2 DEF Absorb
  <2>2. QED
    BY <1>2, <2>1, AbsorbInvalidType
<1>3. CASE rep.what = "available"
  <2> DEFINE s == [r EXCEPT !.available = rep.is]
  <2>1. rep.is \in BOOLEAN
    BY <1>3 DEF Reports
  <2>2. s \in Buffer /\ s.tryCount = r.tryCount
    BY <2>1 DEF Buffer
  <2>3. Absorb(r, age, rep) = Reflag(s)
    BY <1>3 DEF Absorb
  <2> HIDE DEF s
  <2>4. QED
    BY <1>3, <2>2, <2>3, ReflagFacts
<1>4. CASE rep.what = "other"
  BY <1>4 DEF Absorb
<1>5. QED
  BY <1>1, <1>2, <1>3, <1>4 DEF Reports

-----------------------------------------------------------------------------
(* Type correctness, one lemma per action.                                 *)

(* Everything handed to the core is a command.                              *)
LEMMA CommandType ==
    ASSUME NEW d \in Dims, NEW what \in {"value", "steps", "cmd"}, NEW v \in Value
    PROVE  Command(d, what, v) \in OutTypes
BY DEF Command, OutTypes

(* Handing nothing over is typed as well.                                   *)
LEMMA NoCommandType == NoCommand \in OutTypes
BY DEF NoCommand, OutTypes

(* Rescheduling keeps the types of the buffers and the wake-ups.            *)
LEMMA RescheduleType ==
    ASSUME TypeOK, NEW d \in Dims, NEW r \in Buffer, NEW t \in Nat, Reschedule(d, r, t)
    PROVE  /\ buf' \in [Dims -> Buffer]
           /\ wake' \in [Dims -> Wakeup]
           /\ buf' = [buf EXCEPT ![d] = buf'[d]]
           /\ buf'[d] \in {r, Reflag(r)}
<1> DEFINE r2 == IF wake[d].tracked THEN r ELSE Reflag(r)
           w == Schedule(wake[d], t)
<1>1. r2 \in Buffer
  BY ReflagFacts
<1>2. w \in Wakeup
  BY ScheduleType DEF TypeOK
<1>3. buf' = [buf EXCEPT ![d] = r2] /\ wake' = [wake EXCEPT ![d] = w]
  BY DEF Reschedule
<1>4. r2 \in {r, Reflag(r)}
  OBVIOUS
<1> HIDE DEF r2, w
<1>5. QED
  BY <1>1, <1>2, <1>3, <1>4 DEF TypeOK

(* Posting keeps the channel within its capacity.                           *)
LEMMA PostType ==
    ASSUME NEW q \in Seq(Dims), NEW s \in Seq(Dims)
    PROVE  Post(q, s) \in Seq(Dims) /\ Len(Post(q, s)) <= QueueCap
<1> DEFINE all == q \o s
           n == IF Len(all) <= QueueCap THEN Len(all) ELSE QueueCap
<1>1. all \in Seq(Dims)
  OBVIOUS
<1>2. n \in 0..Len(all) /\ n <= QueueCap
  BY <1>1, LenProperties, InputAssumption
<1> HIDE DEF all, n
<1>3. SubSeq(all, 1, n) \in Seq(Dims) /\ Len(SubSeq(all, 1, n)) = n
  BY <1>1, <1>2, SubSeqProperties, LenProperties
<1>4. QED
  BY <1>2, <1>3 DEF Post, all, n

(* Posting one element is posting a sequence of elements.                   *)
LEMMA SinglePost ==
    ASSUME TypeOK, NEW d \in Dims
    PROVE  Post(events, <<d>>) \in Seq(Dims) /\ Len(Post(events, <<d>>)) <= QueueCap
<1>1. <<d>> \in Seq(Dims) /\ events \in Seq(Dims)
  BY DEF TypeOK
<1>2. QED
  BY <1>1, PostType

(* Taking an event leaves a shorter channel.                                *)
LEMMA TakeType ==
    ASSUME TypeOK, NEW d \in Dims, Take(d)
    PROVE  events' \in Seq(Dims) /\ Len(events') <= QueueCap
BY HeadTailProperties, LenProperties, InputAssumption DEF Take, TypeOK

(* Announcing keeps the clients' views typed.                               *)
LEMMA AnnounceType ==
    ASSUME TypeOK, buf' \in [Dims -> Buffer], NEW d \in Dims,
           NEW e \in {"NoError", "MaxRetrys"}, Announce(d, e)
    PROVE  told' \in [Dims -> View]
<1>1. Told(buf'[d], e) \in View
  BY ToldType
<1>2. QED
  BY <1>1 DEF Announce, TypeOK

(* Stamping a command keeps the ages typed.                                 *)
LEMMA StampType ==
    ASSUME TypeOK, NEW d \in Dims, Stamp(d)
    PROVE  sinceUpdate' \in [Dims -> 0..Horizon] /\ sinceEvent' \in 0..Horizon
<1>1. 0 \in 0..Horizon
  BY HorizonFacts
<1>2. QED
  BY <1>1 DEF Stamp, TypeOK

(* Counting an attempt keeps the counts within their bound.                 *)
LEMMA CountAttemptType ==
    ASSUME TypeOK, NEW d \in Dims, CountAttempt(d)
    PROVE  attempts' \in [Dims -> 0..MaxAttempts]
BY ConfigAssumption DEF CountAttempt, TypeOK, MaxAttempts

(* Everything a client can send keeps the types.                            *)
LEMMA IngestTargetType ==
    ASSUME TypeOK, NEW d \in Dims, IngestTarget(d)
    PROVE  TypeOK'
<1>1. CASE Refuse
  BY <1>1, NoCommandType DEF Refuse, TypeOK
<1>2. ASSUME NEW what \in {"value", "steps", "cmd"}, NEW v \in Value, Forward(d, what, v)
      PROVE  TypeOK'
  BY <1>2, CommandType DEF Forward, TypeOK
<1>3. ASSUME NEW n \in SetVals, SetValue(d, n)
      PROVE  TypeOK'
  <2> DEFINE r == Reflag(Retarget(buf[d], IntValue(n)))
  <2>1. r \in Buffer
    <3>1. IntValue(n) \in Value
      BY InputAssumption, ValueTypes
    <3>2. QED
      BY <3>1, RetargetType, ReflagFacts DEF TypeOK
  <2>2. buf' = [buf EXCEPT ![d] = r]
    BY <1>3 DEF SetValue
  <2> HIDE DEF r
  <2>3. buf' \in [Dims -> Buffer]
    BY <2>1, <2>2 DEF TypeOK
  <2>4. attempts' \in [Dims -> 0..MaxAttempts]
    BY <1>3, ConfigAssumption DEF SetValue, TypeOK, MaxAttempts
  <2>5. QED
    BY <1>3, <2>3, <2>4, SinglePost, NoCommandType DEF SetValue, TypeOK
<1>4. ASSUME NEW s \in StepVals, StepsApplied(d, s)
      PROVE  TypeOK'
  <2> DEFINE r == Increment(buf[d], s)
  <2>1. r \in Buffer
    BY InputAssumption, IncrementType DEF TypeOK
  <2>2. buf' = [buf EXCEPT ![d] = r]
    BY <1>4 DEF StepsApplied
  <2> HIDE DEF r
  <2>3. buf' \in [Dims -> Buffer]
    BY <2>1, <2>2 DEF TypeOK
  <2>4. told' \in [Dims -> View]
    BY <1>4, <2>3, AnnounceType DEF StepsApplied
  <2>5. attempts' \in [Dims -> 0..MaxAttempts]
    BY <1>4, ConfigAssumption DEF StepsApplied, TypeOK, MaxAttempts
  <2>6. QED
    BY <1>4, <2>3, <2>4, <2>5, NoCommandType DEF StepsApplied, TypeOK
<1>5. \A n \in SetVals \cup StepVals : IntValue(n) \in Value
  BY InputAssumption, ValueTypes
<1>6. QED
  BY <1>1, <1>2, <1>3, <1>4, <1>5, ValueTypes
     DEF IngestTarget, SetUnavailable, SetValueIgnored, SetValuePassthrough, StepsRefused,
         StepsForwarded, SetCommand

(* A timer that is cancelled and scheduled again stays a wake-up.           *)
LEMMA CancelledSchedule ==
    ASSUME NEW w \in Wakeup, NEW t \in Nat
    PROVE  Schedule(Cancel(w), t) \in Wakeup
BY ScheduleType

(* Facts about one message: what it may hold, and what is reprocessed.     *)
LEMMA MessageFacts ==
    ASSUME NEW rep \in Messages
    PROVE  /\ DOMAIN rep \subseteq Dims
           /\ \A d \in DOMAIN rep : rep[d] \in Reports
BY DEF Messages

(* The elements of a message that go back to the worker are elements.       *)
LEMMA ReprocessType ==
    ASSUME NEW rep \in Messages, NEW again \in SetToSeqs(Reprocess(rep))
    PROVE  /\ again \in Seq(Dims)
           /\ \A n \in 0..Len(again) : SubSeq(again, 1, n) \in Seq(Dims)
<1> DEFINE S == Reprocess(rep)
<1>1. S \subseteq Dims
  BY MessageFacts DEF Reprocess, Touched
<1>2. IsFiniteSet(S)
  BY <1>1, InputAssumption, FS_Subset
<1>3. Cardinality(S) \in Nat
  BY <1>2, FS_CardinalityType
<1>4. again \in [1..Cardinality(S) -> S]
  BY DEF SetToSeqs
<1> HIDE DEF S
<1>5. again \in Seq(Dims)
  BY <1>1, <1>3, <1>4
<1>6. ASSUME NEW n \in 0..Len(again)
      PROVE  SubSeq(again, 1, n) \in Seq(Dims)
  BY <1>5, LenProperties, SubSeqProperties
<1>7. QED
  BY <1>5, <1>6

(* A report leaves every wake-up typed.                                     *)
LEMMA RescheduledType ==
    ASSUME TypeOK, NEW d \in Dims, NEW rep \in Messages,
           NEW again \in SetToSeqs(Reprocess(rep)), NEW n \in 0..Len(again),
           LoopPosts(again, n)
    PROVE  Rescheduled(rep, again, n, d) \in Wakeup
<1>1. wake[d] \in Wakeup /\ sinceUpdate[d] \in Nat
  BY HorizonFacts DEF TypeOK
<1>2. CASE d \in Touched(rep) /\ Held(rep, d)
  <2>1. QuarantineDelay - sinceUpdate[d] \in Nat
    BY <1>1, <1>2, ConfigAssumption DEF Held, Quarantined
  <2>2. QED
    BY <1>1, <1>2, <2>1, CancelledSchedule DEF Rescheduled
<1>3. CASE d \in Touched(rep) /\ ~Held(rep, d) /\ StopsAt(again, n, d)
  <2>1. TooSoon(d)
    BY <1>3 DEF StopsAt, LoopPosts
  <2>2. ControlDelay - sinceUpdate[d] \in Nat
    BY <1>1, <2>1, ConfigAssumption DEF TooSoon
  <2>3. QED
    BY <1>1, <1>3, <2>2, CancelledSchedule DEF Rescheduled
<1>4. CASE d \notin Touched(rep)
  BY <1>1, <1>4 DEF Rescheduled
<1>5. CASE d \in Touched(rep) /\ ~Held(rep, d) /\ ~StopsAt(again, n, d)
  BY <1>1, <1>5, ScheduleType DEF Rescheduled
<1>6. QED
  BY <1>2, <1>3, <1>4, <1>5

(* Every message of the device keeps the types.                             *)
LEMMA IngestCurrentType ==
    ASSUME TypeOK, NEW rep \in Messages, NEW again \in SetToSeqs(Reprocess(rep)),
           NEW n \in 0..Len(again), IngestCurrent(rep, again, n)
    PROVE  TypeOK'
<1>1. ASSUME NEW d \in Dims
      PROVE  (IF d \in Touched(rep) THEN Absorb(buf[d], sinceUpdate[d], rep[d])
              ELSE buf[d]) \in Buffer
  <2>1. buf[d] \in Buffer /\ sinceUpdate[d] \in Nat
    BY HorizonFacts DEF TypeOK
  <2>2. d \in Touched(rep) => rep[d] \in Reports
    BY MessageFacts DEF Touched
  <2>3. QED
    BY <2>1, <2>2, AbsorbType
<1>2. buf' \in [Dims -> Buffer]
  BY <1>1 DEF IngestCurrent
<1>3. wake' \in [Dims -> Wakeup]
  BY RescheduledType DEF IngestCurrent
<1>4. told' \in [Dims -> View]
  <2>1. \A d \in Dims : Told(buf'[d], "NoError") \in View
    BY <1>2, ToldType
  <2>2. QED
    BY <2>1 DEF IngestCurrent, TypeOK
<1>5. events' \in Seq(Dims) /\ Len(events') <= QueueCap
  BY ReprocessType, PostType DEF IngestCurrent, TypeOK
<1>6. QED
  BY <1>2, <1>3, <1>4, <1>5, NoCommandType DEF IngestCurrent, TypeOK

(* The ways out of processParameter that send nothing keep the types.       *)
LEMMA QuietProcessType ==
    ASSUME TypeOK, NEW d \in Dims,
           NothingPending(d) \/ AcceptCurrent(d) \/ GiveUp(d) \/ Withhold(d)
    PROVE  TypeOK'
<1>1. buf[d] \in Buffer
  BY DEF TypeOK
<1>2. CASE NothingPending(d)
  BY <1>2, TakeType, NoCommandType DEF NothingPending, TypeOK
<1>3. CASE AcceptCurrent(d)
  <2>1. Reflag(FallBack(buf[d])) \in Buffer
    BY <1>1, FallBackType, ReflagFacts
  <2>2. buf' \in [Dims -> Buffer]
    BY <1>3, <2>1 DEF AcceptCurrent, TypeOK
  <2>3. told' \in [Dims -> View]
    BY <1>3, <2>2, AnnounceType DEF AcceptCurrent
  <2>4. QED
    BY <1>3, <2>2, <2>3, TakeType, NoCommandType DEF AcceptCurrent, TypeOK
<1>4. CASE GiveUp(d)
  <2> DEFINE r == [FallBack(buf[d]) EXCEPT !.tryCount = 0]
  <2>1. r \in Buffer
    <3>1. FallBack(buf[d]) \in Buffer
      BY <1>1, FallBackType
    <3>2. QED
      BY <3>1 DEF Buffer
  <2>2. buf' = [buf EXCEPT ![d] = Reflag(r)]
    BY <1>4 DEF GiveUp
  <2> HIDE DEF r
  <2>3. buf' \in [Dims -> Buffer]
    BY <2>1, <2>2, ReflagFacts DEF TypeOK
  <2>4. told' \in [Dims -> View]
    BY <1>4, <2>3, AnnounceType DEF GiveUp
  <2>5. QED
    BY <1>4, <2>3, <2>4, TakeType, NoCommandType DEF MayAct, GiveUp, TypeOK
<1>5. CASE Withhold(d)
  <2>1. Withdraw(buf[d]) \in Buffer
    BY <1>1, SettleType
  <2>2. buf' \in [Dims -> Buffer]
    BY <1>5, <2>1 DEF Withhold, TypeOK
  <2>3. QED
    BY <1>5, <2>2, StampType, TakeType, NoCommandType DEF MayAct, Withhold, TypeOK
<1>6. QED
  BY <1>2, <1>3, <1>4, <1>5

(* So do the three delays.                                                  *)
LEMMA DelayType ==
    ASSUME TypeOK, NEW d \in Dims, Delay(d)
    PROVE  /\ TypeOK'
           /\ buf' = [buf EXCEPT ![d] = buf'[d]]
           /\ buf'[d] \in {buf[d], Reflag(buf[d])}
<1>1. buf[d] \in Buffer /\ sinceUpdate[d] \in Nat /\ sinceEvent \in Nat
  BY HorizonFacts DEF TypeOK
<1>2. \E t \in Nat : Reschedule(d, buf[d], t)
  BY <1>1, ConfigAssumption, InputAssumption DEF Delay, Limited, TooSoon, InQuarantine
<1>3. /\ buf' \in [Dims -> Buffer] /\ wake' \in [Dims -> Wakeup]
      /\ buf' = [buf EXCEPT ![d] = buf'[d]]
      /\ buf'[d] \in {buf[d], Reflag(buf[d])}
  BY <1>1, <1>2, RescheduleType
<1>4. QED
  BY <1>3, TakeType, NoCommandType DEF Delay, TypeOK

(* What the three sending actions do to the buffer.                        *)
LEMMA SmoothingStepType ==
    ASSUME NEW from \in Int, NEW to \in Int
    PROVE  SmoothingStep(from, to) \in Int
BY ConfigAssumption DEF SmoothingStep

Step(r) == [kind |-> "int", n |-> NextStep(r), invalid |-> r.target.invalid]
Stepped(r) == [r EXCEPT !.smoothing.n = NextStep(r), !.tryCount = 0,
                        !.current = IF FeedbackStyle = "NoFeedback" THEN Step(r) ELSE @]
Tried(r) == [Reflag(r) EXCEPT !.smoothing = NotSmoothing, !.tryCount = @ + 1]
Counted(r) == [Reflag(r) EXCEPT !.tryCount = @ + 1]

(* The buffers a command leaves are buffers.                                *)
LEMMA SentTypes ==
    ASSUME NEW r \in Buffer
    PROVE  /\ Step(r) \in Value
           /\ Stepped(r) \in Buffer /\ Stepped(r).tryCount = 0
           /\ Stepped(r).target = r.target /\ Stepped(r).available = r.available
           /\ Stepped(r).assumed = r.assumed
           /\ FeedbackStyle # "NoFeedback" => Stepped(r).current = r.current
           /\ FeedbackStyle = "NoFeedback" => Stepped(r).current = Step(r)
           /\ Tried(r) \in Buffer /\ Tried(r).tryCount = r.tryCount + 1
           /\ Tried(r).target = r.target /\ Tried(r).current = r.current
           /\ Tried(r).available = r.available
           /\ Tried(r).assumed = Pending(r)
           /\ Counted(r) \in Buffer /\ Counted(r).tryCount = r.tryCount + 1
           /\ Counted(r).target = r.target /\ Counted(r).current = r.current
           /\ Counted(r).available = r.available
           /\ Counted(r).assumed = Pending(r)
<1>1. NextStep(r) \in Int
  BY SmoothingStepType DEF NextStep, Buffer, Smoothing, Value
<1>2. Step(r) \in Value
  BY <1>1 DEF Step, Buffer, Value
<1>3. Stepped(r) \in Buffer /\ Stepped(r).tryCount = 0
      /\ Stepped(r).target = r.target /\ Stepped(r).available = r.available
      /\ Stepped(r).assumed = r.assumed
      /\ (FeedbackStyle # "NoFeedback" => Stepped(r).current = r.current)
      /\ (FeedbackStyle = "NoFeedback" => Stepped(r).current = Step(r))
  BY <1>1, <1>2 DEF Stepped, Buffer, Smoothing
<1>4. Reflag(r) \in Buffer
  BY ReflagFacts
<1>5. Tried(r) \in Buffer /\ Tried(r).tryCount = r.tryCount + 1
           /\ Tried(r).target = r.target /\ Tried(r).current = r.current
           /\ Tried(r).available = r.available /\ Tried(r).assumed = Pending(r)
  <2> DEFINE f == Reflag(r)
  <2>1. f \in Buffer /\ f.tryCount = r.tryCount /\ f.target = r.target /\ f.current = r.current
        /\ f.available = r.available /\ f.assumed = Pending(r)
    BY <1>4, ReflagFacts
  <2>2. Tried(r) = [f EXCEPT !.smoothing = NotSmoothing, !.tryCount = @ + 1]
    BY DEF Tried
  <2> HIDE DEF f
  <2> DEFINE g == [f EXCEPT !.tryCount = @ + 1]
  <2>3. g \in Buffer /\ g.tryCount = r.tryCount + 1 /\ g.target = f.target
        /\ g.current = f.current /\ g.available = f.available /\ g.assumed = f.assumed
    BY <2>1 DEF Buffer
  <2>4. Tried(r) = [g EXCEPT !.smoothing = NotSmoothing]
    BY <2>1, <2>2 DEF Buffer
  <2> HIDE DEF g
  <2>5. QED
    BY <2>1, <2>3, <2>4, NotSmoothingType DEF Buffer
<1>6. Counted(r) \in Buffer /\ Counted(r).tryCount = r.tryCount + 1
           /\ Counted(r).target = r.target /\ Counted(r).current = r.current
           /\ Counted(r).available = r.available /\ Counted(r).assumed = Pending(r)
  BY <1>4, ReflagFacts DEF Counted, Buffer
<1>7. QED
  BY <1>2, <1>3, <1>5, <1>6

(* The echo of a command keeps the clients' views typed.                    *)
LEMMA EchoType ==
    ASSUME TypeOK, NEW d \in Dims, NEW v \in Value, NEW a \in BOOLEAN, Echo(d, v, a)
    PROVE  told' \in [Dims -> View]
<1>1. [value |-> v, assumed |-> a, available |-> buf[d].available, error |-> "NoError"] \in View
  BY DEF TypeOK, Buffer, View
<1>2. QED
  BY <1>1 DEF Echo, TypeOK

(* A smoothing step keeps the types.                                        *)
LEMMA SendStepType ==
    ASSUME TypeOK, NEW d \in Dims, SendStep(d)
    PROVE  /\ TypeOK'
           /\ buf' = [buf EXCEPT ![d] = buf'[d]]
           /\ buf'[d] \in {Stepped(buf[d]), Reflag(Stepped(buf[d]))}
<1>1. buf[d] \in Buffer
  BY DEF TypeOK
<1>2. /\ Reschedule(d, Stepped(buf[d]), ControlDelay)
      /\ out' = Command(d, "value", Step(buf[d]))
      /\ Echo(d, Step(buf[d]), TRUE)
  BY DEF SendStep, Stepped, Step
<1>3. /\ buf' \in [Dims -> Buffer] /\ wake' \in [Dims -> Wakeup]
      /\ buf' = [buf EXCEPT ![d] = buf'[d]]
      /\ buf'[d] \in {Stepped(buf[d]), Reflag(Stepped(buf[d]))}
  BY <1>1, <1>2, SentTypes, RescheduleType, ConfigAssumption
<1>4. out' \in OutTypes /\ told' \in [Dims -> View]
  BY <1>1, <1>2, SentTypes, CommandType, EchoType
<1>5. sinceUpdate' \in [Dims -> 0..Horizon] /\ sinceEvent' \in 0..Horizon
      /\ attempts' \in [Dims -> 0..MaxAttempts]
  BY StampType, CountAttemptType DEF SendStep
<1>9. events' \in Seq(Dims) /\ Len(events') <= QueueCap
  BY TakeType DEF SendStep, MayAct
<1>6. QED
  BY <1>3, <1>4, <1>5, <1>9 DEF TypeOK

(* Sending the target keeps the types.                                      *)
LEMMA SendTargetType ==
    ASSUME TypeOK, NEW d \in Dims, SendTarget(d)
    PROVE  /\ TypeOK'
           /\ buf' = [buf EXCEPT ![d] = buf'[d]]
           /\ IF FeedbackStyle = "NoFeedback" THEN buf'[d] = Settle(Tried(buf[d]))
              ELSE buf'[d] \in {Tried(buf[d]), Reflag(Tried(buf[d]))}
<1>1. buf[d] \in Buffer
  BY DEF TypeOK
<1>2. /\ out' = Command(d, "value", Tried(buf[d]).target)
      /\ Echo(d, Tried(buf[d]).target, buf'[d].assumed)
  BY DEF SendTarget, Tried
<1>3. /\ Tried(buf[d]) \in Buffer
      /\ Settle(Tried(buf[d])) \in Buffer
      /\ Tried(buf[d]).target \in Value
  BY <1>1, SentTypes, SettleType DEF Buffer
<1>4. /\ buf' \in [Dims -> Buffer] /\ wake' \in [Dims -> Wakeup]
      /\ buf' = [buf EXCEPT ![d] = buf'[d]]
      /\ IF FeedbackStyle = "NoFeedback" THEN buf'[d] = Settle(Tried(buf[d]))
         ELSE buf'[d] \in {Tried(buf[d]), Reflag(Tried(buf[d]))}
  <2>1. CASE FeedbackStyle = "NoFeedback"
    <3>1. buf' = [buf EXCEPT ![d] = Settle(Tried(buf[d]))] /\ UNCHANGED wake
      BY <2>1 DEF SendTarget, Tried
    <3>2. QED
      BY <1>3, <2>1, <3>1 DEF TypeOK
  <2>2. CASE FeedbackStyle # "NoFeedback" /\ ControlDelay # 0
    <3>1. Reschedule(d, Tried(buf[d]), ControlDelay + 1)
      BY <2>2 DEF SendTarget, Tried
    <3>2. ControlDelay + 1 \in Nat
      BY ConfigAssumption
    <3>3. QED
      BY <1>3, <2>2, <3>1, <3>2, RescheduleType
  <2>3. CASE FeedbackStyle # "NoFeedback" /\ ControlDelay = 0
    <3>1. buf' = [buf EXCEPT ![d] = Tried(buf[d])] /\ UNCHANGED wake
      BY <2>3 DEF SendTarget, Tried
    <3>2. QED
      BY <1>3, <2>3, <3>1 DEF TypeOK
  <2>4. QED
    BY <2>1, <2>2, <2>3
<1>5. out' \in OutTypes
  BY <1>2, <1>3, CommandType
<1>6. told' \in [Dims -> View]
  <2>1. buf'[d].assumed \in BOOLEAN
    BY <1>4 DEF Buffer
  <2>2. QED
    BY <1>2, <1>3, <2>1, EchoType
<1>7. sinceUpdate' \in [Dims -> 0..Horizon] /\ sinceEvent' \in 0..Horizon
      /\ attempts' \in [Dims -> 0..MaxAttempts]
  BY StampType, CountAttemptType DEF SendTarget
<1>9. events' \in Seq(Dims) /\ Len(events') <= QueueCap
  BY TakeType DEF SendTarget, MayAct
<1>8. QED
  BY <1>4, <1>5, <1>6, <1>7, <1>9 DEF TypeOK

(* An Incremental command keeps the types.                                  *)
LEMMA SendIncrementalType ==
    ASSUME TypeOK, NEW d \in Dims, SendIncremental(d)
    PROVE  /\ TypeOK'
           /\ buf' = [buf EXCEPT ![d] = buf'[d]]
           /\ buf'[d] \in {Counted(buf[d]), Reflag(Counted(buf[d]))}
<1>1. buf[d] \in Buffer /\ buf[d].target \in Value
  BY DEF TypeOK, Buffer
<1>2. Reschedule(d, Counted(buf[d]), ControlDelay)
  BY DEF SendIncremental, Counted
<1>3. /\ buf' \in [Dims -> Buffer] /\ wake' \in [Dims -> Wakeup]
      /\ buf' = [buf EXCEPT ![d] = buf'[d]]
      /\ buf'[d] \in {Counted(buf[d]), Reflag(Counted(buf[d]))}
  BY <1>1, <1>2, SentTypes, RescheduleType, ConfigAssumption
<1>4. out' \in OutTypes
  BY <1>1, CommandType DEF SendIncremental
<1>5. sinceUpdate' \in [Dims -> 0..Horizon] /\ sinceEvent' \in 0..Horizon
      /\ attempts' \in [Dims -> 0..MaxAttempts]
  BY StampType, CountAttemptType DEF SendIncremental
<1>9. events' \in Seq(Dims) /\ Len(events') <= QueueCap
  BY TakeType DEF SendIncremental, MayAct
<1>6. QED
  BY <1>3, <1>4, <1>5, <1>9 DEF SendIncremental, TypeOK

(* Both halves of the timer callback keep a wake-up one.                    *)
LEMMA CallbackTypes ==
    ASSUME NEW w \in Wakeup
    PROVE  /\ Fired(w) \in Wakeup
           /\ StrayDue(w) => StrayFired(w) \in Wakeup
           /\ w.firing > 0 => Forgotten(w) \in Wakeup
           /\ Elapsed(w) \in Wakeup
<1>1. /\ w.end \in Nat /\ w.left \in Nat \cup {Off}
      /\ w.firing \in Nat /\ w.strays \in Nat
  BY DEF Wakeup
<1>2. w.firing + 1 \in Nat
  BY <1>1
<1>3. Fired(w) \in Wakeup
  BY <1>1, <1>2 DEF Fired, Wakeup
<1>4. ASSUME StrayDue(w) PROVE StrayFired(w) \in Wakeup
  <2>1. w.strays - 1 \in Nat
    BY <1>1, <1>4 DEF StrayDue
  <2>2. QED
    BY <1>1, <1>2, <2>1 DEF StrayFired, Wakeup
<1>5. ASSUME w.firing > 0 PROVE Forgotten(w) \in Wakeup
  <2> DEFINE c == Cancel(w)
             s == IF w.left # Off THEN w.strays + 1 ELSE w.strays
  <2>1. c \in Wakeup /\ c.firing = w.firing /\ c.strays = w.strays
    BY DEF Cancel, Wakeup
  <2>2. w.firing - 1 \in Nat /\ s \in Nat
    BY <1>1, <1>5
  <2>3. Forgotten(w) = [c EXCEPT !.firing = w.firing - 1, !.strays = s]
    BY <2>1 DEF Forgotten
  <2> HIDE DEF c, s
  <2>4. QED
    BY <2>1, <2>2, <2>3 DEF Wakeup
<1>6. Elapsed(w) \in Wakeup
  <2> DEFINE e == IF w.end > 0 THEN w.end - 1 ELSE 0
             l == IF w.left > 0 THEN w.left - 1 ELSE w.left
  <2>1. e \in Nat /\ l \in Nat \cup {Off}
    BY <1>1 DEF Off
  <2>2. Elapsed(w) = [w EXCEPT !.end = e, !.left = l]
    BY DEF Elapsed
  <2> HIDE DEF e, l
  <2>3. QED
    BY <1>1, <2>1, <2>2 DEF Wakeup
<1>7. QED
  BY <1>3, <1>4, <1>5, <1>6

(* Timers and callbacks keep the types.                                     *)
LEMMA TimerType ==
    ASSUME TypeOK, NEW d \in Dims,
           ExpireTimer(d) \/ FinishCallback(d) \/ Read(d)
    PROVE  TypeOK'
<1>1. wake[d] \in Wakeup /\ buf[d] \in Buffer
  BY DEF TypeOK
<1>2. CASE ExpireTimer(d)
  <2>1. /\ Due(wake[d]) => Fired(wake[d]) \in Wakeup
        /\ StrayDue(wake[d]) => StrayFired(wake[d]) \in Wakeup
    BY <1>1, CallbackTypes
  <2>2. wake' \in [Dims -> Wakeup]
    BY <1>2, <2>1 DEF ExpireTimer, TypeOK
  <2>3. QED
    BY <1>2, <2>2, SinglePost, NoCommandType DEF ExpireTimer, TypeOK
<1>3. CASE FinishCallback(d)
  <2>1. wake[d].firing > 0 => Forgotten(wake[d]) \in Wakeup
    BY <1>1, CallbackTypes
  <2>2. wake' \in [Dims -> Wakeup]
    BY <1>3, <2>1 DEF FinishCallback, TypeOK
  <2>3. QED
    BY <1>3, <2>2, NoCommandType DEF FinishCallback, TypeOK
<1>4. CASE Read(d)
  <2>1. buf' \in [Dims -> Buffer]
    BY <1>1, <1>4, ReflagFacts DEF Read, TypeOK
  <2>2. QED
    BY <1>4, <2>1, NoCommandType DEF Read, TypeOK
<1>5. QED
  BY <1>2, <1>3, <1>4

(* Time keeps the types.                                                    *)
LEMMA TickType == ASSUME TypeOK, Tick PROVE TypeOK'
<1>1. \A d \in Dims : Older(sinceUpdate[d]) \in 0..Horizon
  BY HorizonFacts DEF Older, TypeOK
<1>2. Older(sinceEvent) \in 0..Horizon
  BY HorizonFacts DEF Older, TypeOK
<1>3. \A d \in Dims : Elapsed(wake[d]) \in Wakeup
  BY CallbackTypes DEF TypeOK
<1>4. /\ sinceUpdate' \in [Dims -> 0..Horizon] /\ sinceEvent' \in 0..Horizon
      /\ wake' \in [Dims -> Wakeup]
  BY <1>1, <1>2, <1>3 DEF Tick
<1>5. QED
  BY <1>4, NoCommandType DEF Tick, TypeOK

(* Every way out of processParameter keeps the types.                       *)
LEMMA ProcessType == ASSUME TypeOK, NEW d \in Dims, Process(d) PROVE TypeOK'
BY QuietProcessType, DelayType, SendStepType, SendTargetType, SendIncrementalType DEF Process

(* Every report keeps the types.                                            *)
LEMMA ReportType == ASSUME TypeOK, Report PROVE TypeOK'
BY IngestCurrentType DEF Report

(* The initial state is typed.                                              *)
LEMMA InitType == Init => TypeOK
<1> SUFFICES ASSUME Init PROVE TypeOK
  OBVIOUS
<1>1. InitialBuffer(DefaultValid) \in Buffer
  BY NotSmoothingType, InputAssumption DEF InitialBuffer, Buffer, Value
<1>2. Told(InitialBuffer(DefaultValid), "NoError") \in View
  BY <1>1, ToldType
<1>3. NoWakeup \in Wakeup
  BY DEF NoWakeup, Wakeup
<1>4. 0 \in 0..MaxAttempts /\ Horizon \in 0..Horizon
  BY HorizonFacts, ConfigAssumption DEF MaxAttempts
<1>5. events \in Seq(Dims) /\ Len(events) <= QueueCap
  BY InputAssumption DEF Init
<1>6. QED
  BY <1>1, <1>2, <1>3, <1>4, <1>5, NoCommandType DEF Init, TypeOK

(* Every step keeps the types.                                              *)
LEMMA NextType == TypeOK /\ [Next]_vars => TypeOK'
<1> SUFFICES ASSUME TypeOK, [Next]_vars PROVE TypeOK'
  OBVIOUS
<1>1. ASSUME NEW d \in Dims, IngestTarget(d) PROVE TypeOK'
  BY <1>1, IngestTargetType
<1>2. ASSUME NEW d \in Dims, Process(d) PROVE TypeOK'
  BY <1>2, ProcessType
<1>3. ASSUME NEW d \in Dims, ExpireTimer(d) \/ FinishCallback(d) \/ Read(d) PROVE TypeOK'
  BY <1>3, TimerType
<1>4. CASE Report
  BY <1>4, ReportType
<1>5. CASE Tick
  BY <1>5, TickType
<1>6. CASE UNCHANGED vars
  BY <1>6 DEF vars, TypeOK
<1>7. QED
  BY <1>1, <1>2, <1>3, <1>4, <1>5, <1>6 DEF Next

(* Every variable keeps its type in every configuration, for every set of  *)
(* elements, values and reports; no wake-up is scheduled in the past.      *)
THEOREM TypeCorrect == Spec => []TypeOK
<1>1. QED
  BY InitType, NextType, PTL DEF Spec

-----------------------------------------------------------------------------
(* What one step does to one element: nothing a property looks at, or one  *)
(* of its own actions, or one report.                                      *)
Untouched(e) == buf'[e] = buf[e] /\ told'[e] = told[e] /\ attempts'[e] = attempts[e]

Absorbed(e, rep) ==
    /\ buf'[e] = Absorb(buf[e], sinceUpdate[e], rep)
    /\ told'[e] = IF rep.what # "other" THEN Told(buf'[e], "NoError") ELSE told[e]
    /\ attempts'[e] = attempts[e]

Moved(e) ==
    \/ \E n \in SetVals : SetValue(e, n)
    \/ \E s \in StepVals : StepsApplied(e, s)
    \/ AcceptCurrent(e) \/ Delay(e) \/ GiveUp(e) \/ SendStep(e) \/ SendTarget(e)
    \/ SendIncremental(e) \/ Withhold(e) \/ Read(e)

(* A message changes an element by at most one report.                      *)
LEMMA ReportElement ==
    ASSUME TypeOK, Report, NEW e \in Dims
    PROVE  Untouched(e) \/ \E rep \in Reports : Absorbed(e, rep)
<1>1. PICK rep \in Messages : \E again \in SetToSeqs(Reprocess(rep)) :
          \E n \in 0..Len(again) : IngestCurrent(rep, again, n)
  BY DEF Report
<1>2. PICK again \in SetToSeqs(Reprocess(rep)) :
          \E n \in 0..Len(again) : IngestCurrent(rep, again, n)
  BY <1>1
<1>3. PICK n \in 0..Len(again) : IngestCurrent(rep, again, n)
  BY <1>2
<1>4. CASE e \in Touched(rep)
  <2>1. rep[e] \in Reports
    BY <1>4, MessageFacts DEF Touched
  <2>2. Absorbed(e, rep[e])
    BY <1>3, <1>4 DEF Absorbed, IngestCurrent
  <2>3. QED
    BY <2>1, <2>2
<1>5. CASE e \notin Touched(rep)
  BY <1>3, <1>5 DEF Untouched, IngestCurrent
<1>6. QED
  BY <1>4, <1>5

(* Every step leaves an element alone or is one of the listed changes of it. *)
LEMMA ElementStep ==
    ASSUME TypeOK, TypeOK', [Next]_vars, NEW e \in Dims
    PROVE  Untouched(e) \/ Moved(e) \/ \E rep \in Reports : Absorbed(e, rep)
<1>1. ASSUME NEW d \in Dims, IngestTarget(d) PROVE Untouched(e) \/ Moved(e)
  <2>1. CASE UNCHANGED <<buf, told, attempts>>
    BY <2>1 DEF Untouched
  <2>2. ASSUME NEW n \in SetVals, SetValue(d, n) PROVE Untouched(e) \/ Moved(e)
    BY <2>2 DEF SetValue, Untouched, Moved, TypeOK
  <2>3. ASSUME NEW s \in StepVals, StepsApplied(d, s) PROVE Untouched(e) \/ Moved(e)
    BY <2>3 DEF StepsApplied, Announce, Untouched, Moved, TypeOK
  <2>4. QED
    BY <1>1, <2>1, <2>2, <2>3
       DEF IngestTarget, SetUnavailable, SetValueIgnored, SetValuePassthrough, StepsRefused,
           StepsForwarded, SetCommand, Refuse, Forward
<1>2. ASSUME NEW d \in Dims, Process(d) PROVE Untouched(e) \/ Moved(e)
  <2>1. CASE NothingPending(d)
    BY <2>1 DEF NothingPending, Untouched
  <2>2. CASE AcceptCurrent(d) \/ GiveUp(d)
    BY <2>2 DEF AcceptCurrent, GiveUp, Announce, Untouched, Moved, TypeOK
  <2>3. CASE Delay(d)
    BY <2>3 DEF Delay, Reschedule, Untouched, Moved, TypeOK
  <2>4. CASE SendStep(d)
    BY <2>4 DEF SendStep, Reschedule, Echo, CountAttempt, Untouched, Moved, TypeOK
  <2>5. CASE SendTarget(d)
    <3>1. CASE d = e
      BY <2>5, <3>1 DEF Moved
    <3>2. CASE d # e
      <4>1. buf'[e] = buf[e]
        BY <2>5, <3>2, SendTargetType DEF TypeOK
      <4>2. told'[e] = told[e] /\ attempts'[e] = attempts[e]
        BY <2>5, <3>2 DEF SendTarget, Echo, CountAttempt, TypeOK
      <4>3. QED
        BY <4>1, <4>2 DEF Untouched
    <3>3. QED
      BY <3>1, <3>2
  <2>6. CASE SendIncremental(d)
    BY <2>6 DEF SendIncremental, Reschedule, CountAttempt, Untouched, Moved, TypeOK
  <2>7. CASE Withhold(d)
    BY <2>7 DEF Withhold, Untouched, Moved, TypeOK
  <2>8. QED
    BY <1>2, <2>1, <2>2, <2>3, <2>4, <2>5, <2>6, <2>7 DEF Process
<1>3. ASSUME NEW d \in Dims, Read(d) PROVE Untouched(e) \/ Moved(e)
  BY <1>3 DEF Read, Untouched, Moved, TypeOK
<1>4. CASE Report
  BY <1>4, ReportElement
<1>5. CASE UNCHANGED <<buf, told, attempts>>
  BY <1>5 DEF Untouched
<1>6. QED
  BY <1>1, <1>2, <1>3, <1>4, <1>5 DEF Next, vars, ExpireTimer, FinishCallback, Tick

(* The buffer an action leaves behind.                                     *)
LEMMA SetValueResult ==
    ASSUME TypeOK, NEW e \in Dims, NEW n \in SetVals, SetValue(e, n)
    PROVE  /\ buf'[e].tryCount = 0 /\ attempts'[e] = 0
           /\ buf'[e].assumed = TRUE /\ Pending(buf'[e])
           /\ buf'[e].available = buf[e].available /\ buf'[e].current = buf[e].current
           /\ told' = told
<1> DEFINE r == Retarget(buf[e], IntValue(n))
<1>1. buf[e] \in Buffer /\ IntValue(n) \in Value
  BY InputAssumption, ValueTypes DEF TypeOK
<1>2. r \in Buffer
  BY <1>1, RetargetType
<1>3. r.tryCount = 0 /\ r.target = IntValue(n) /\ r.current = buf[e].current
      /\ r.available = buf[e].available
  BY <1>1 DEF Retarget, Buffer
<1>4. buf'[e] = Reflag(r)
  BY DEF SetValue, TypeOK
<1> HIDE DEF r
<1>5. Pending(r)
  BY <1>3 DEF SetValue, Pending
<1>6. Pending(buf'[e]) /\ buf'[e].assumed = TRUE /\ buf'[e].current = buf[e].current
  <2>1. buf'[e].assumed = Pending(r) /\ buf'[e].current = r.current /\ buf'[e].target = r.target
    BY <1>2, <1>4, ReflagFacts
  <2>2. QED
    BY <1>3, <1>5, <2>1 DEF Pending
<1>7. QED
  BY <1>2, <1>3, <1>4, <1>6, ReflagFacts DEF SetValue, TypeOK

(* What an accepted increment leaves.                                       *)
LEMMA StepsAppliedResult ==
    ASSUME TypeOK, NEW e \in Dims, NEW s \in StepVals, StepsApplied(e, s)
    PROVE  /\ buf'[e].tryCount = buf[e].tryCount /\ attempts'[e] = 0
           /\ buf'[e].assumed = Pending(buf'[e])
           /\ told'[e] = Told(buf'[e], "NoError")
<1>1. buf'[e] = Increment(buf[e], s)
  BY DEF StepsApplied, TypeOK
<1>2. QED
  BY <1>1, InputAssumption, IncrementType DEF StepsApplied, Announce, TypeOK

(* What accepting a near miss leaves.                                       *)
LEMMA AcceptCurrentResult ==
    ASSUME TypeOK, NEW e \in Dims, AcceptCurrent(e)
    PROVE  /\ buf'[e].tryCount = buf[e].tryCount
           /\ buf'[e].assumed = Pending(buf'[e])
           /\ told'[e] = Told(buf'[e], "NoError")
           /\ attempts' = attempts
<1>1. buf'[e] = Reflag(FallBack(buf[e]))
  BY DEF AcceptCurrent, TypeOK
<1>2. buf[e] \in Buffer
  BY DEF TypeOK
<1>3. QED
  BY <1>1, <1>2, FallBackType, ReflagFacts DEF AcceptCurrent, Announce, TypeOK

(* What giving up leaves.                                                   *)
LEMMA GiveUpResult ==
    ASSUME TypeOK, NEW e \in Dims, GiveUp(e)
    PROVE  /\ buf'[e].tryCount = 0
           /\ buf'[e].assumed = Pending(buf'[e])
           /\ told'[e] = Told(buf'[e], "MaxRetrys")
           /\ attempts' = attempts
<1> DEFINE r == [FallBack(buf[e]) EXCEPT !.tryCount = 0]
<1>1. r \in Buffer /\ r.tryCount = 0
  <2>1. FallBack(buf[e]) \in Buffer
    BY FallBackType DEF TypeOK
  <2>2. QED
    BY <2>1 DEF Buffer
<1>2. buf'[e] = Reflag(r)
  BY DEF GiveUp, TypeOK
<1> HIDE DEF r
<1>3. QED
  BY <1>1, <1>2, ReflagFacts DEF GiveUp, Announce, TypeOK

(* What withholding a command leaves.                                       *)
LEMMA WithholdResult ==
    ASSUME TypeOK, NEW e \in Dims, Withhold(e)
    PROVE  /\ buf'[e].tryCount = buf[e].tryCount
           /\ buf'[e].assumed = TRUE /\ buf'[e].current = buf[e].current
           /\ buf'[e].available = buf[e].available
           /\ IF FeedbackStyle = "NoFeedback" THEN buf'[e].target = buf[e].current
                                             ELSE buf'[e] = buf[e]
           /\ told' = told /\ attempts' = attempts
<1>1. buf'[e] = Withdraw(buf[e]) /\ buf[e] \in Buffer
  BY DEF Withhold, TypeOK
<1>2. QED
  BY <1>1 DEF Withhold, MayAct, Withdraw, Buffer

(* What reading a parameter leaves.                                         *)
LEMMA ReadResult ==
    ASSUME TypeOK, NEW e \in Dims, Read(e)
    PROVE  buf'[e] = Reflag(buf[e]) /\ told' = told /\ attempts' = attempts
BY DEF Read, TypeOK

-----------------------------------------------------------------------------
(* What the manager knows of its own count when it checks it.              *)
RetryBound == HasRetryLimit => \A d \in Dims : buf[d].tryCount <= RetryCount

(* The count is only raised where it was checked before; all else resets it. *)
LEMMA RetryStep ==
    ASSUME TypeOK, TypeOK', RetryBound, [Next]_vars
    PROVE  RetryBound'
<1> SUFFICES ASSUME HasRetryLimit, NEW e \in Dims
             PROVE  buf'[e].tryCount <= RetryCount
  BY DEF RetryBound, HasRetryLimit
<1>0. /\ buf[e] \in Buffer
      /\ buf[e].tryCount <= RetryCount /\ buf[e].tryCount \in Nat /\ RetryCount \in Nat
      /\ sinceUpdate[e] \in Nat
  BY ConfigAssumption, HorizonFacts DEF TypeOK, Buffer, RetryBound
<1>1. CASE Untouched(e)
  BY <1>0, <1>1 DEF Untouched
<1>2. ASSUME NEW rep \in Reports, Absorbed(e, rep) PROVE buf'[e].tryCount <= RetryCount
  BY <1>0, <1>2, AbsorbType DEF Absorbed
<1>3. CASE (\E n \in SetVals : SetValue(e, n)) \/ GiveUp(e)
  <2>1. buf'[e].tryCount = 0
    BY <1>3, SetValueResult, GiveUpResult
  <2>2. QED
    BY <1>0, <2>1
<1>4. CASE (\E s \in StepVals : StepsApplied(e, s)) \/ AcceptCurrent(e) \/ Withhold(e)
  BY <1>0, <1>4, StepsAppliedResult, AcceptCurrentResult, WithholdResult
<1>5. CASE Delay(e) \/ Read(e)
  <2>1. buf'[e] \in {buf[e], Reflag(buf[e])}
    BY <1>5, DelayType, ReadResult
  <2>2. QED
    BY <1>0, <2>1, ReflagFacts
<1>6. CASE SendStep(e)
  BY <1>0, <1>6, SendStepType, SentTypes, ReflagFacts
<1>7. CASE SendTarget(e)
  <2>1. buf'[e].tryCount = buf[e].tryCount + 1
    BY <1>0, <1>7, SendTargetType, SentTypes, ReflagFacts DEF HasRetryLimit
  <2>2. buf[e].tryCount < RetryCount
    BY <1>0, <1>7 DEF SendTarget, Exhausted
  <2>3. QED
    BY <1>0, <2>1, <2>2
<1>8. CASE SendIncremental(e)
  <2>1. buf'[e].tryCount = buf[e].tryCount + 1
    BY <1>0, <1>8, SendIncrementalType, SentTypes, ReflagFacts
  <2>2. buf[e].tryCount < RetryCount
    BY <1>0, <1>8 DEF SendIncremental, Exhausted
  <2>3. QED
    BY <1>0, <2>1, <2>2
<1>9. QED
  BY <1>1, <1>2, <1>3, <1>4, <1>5, <1>6, <1>7, <1>8, ElementStep DEF Moved

(* The count never passes the limit.  How many commands of a target a core *)
(* sees is CommandsBounded, in PacingProofs.                               *)
LEMMA CountBounded == Spec => []RetryBound
<1>1. Init => RetryBound
  BY ConfigAssumption DEF Init, RetryBound, InitialBuffer
<1>2. TypeOK /\ TypeOK' /\ RetryBound /\ [Next]_vars => RetryBound'
  BY RetryStep
<1>3. QED
  BY <1>1, <1>2, TypeCorrect, PTL DEF Spec

-----------------------------------------------------------------------------
(* The assumed mark.  MarkFits is what AssumedCoherent says of one buffer: *)
(* a parameter whose pending values are taken back keeps the mark of one   *)
(* that was; all others are coherent.                                      *)

TakesBack == ControlStyle = "Oneshot" /\ FeedbackStyle = "NoFeedback"

Coherent(r) ==
    \/ r.assumed = Pending(r)
    \/ FeedbackStyle = "NoFeedback" /\ r.target.kind = "nil"

MarkFits(r) == IF TakesBack THEN r.assumed = Pending(r) \/ r.assumed = TRUE ELSE Coherent(r)

(* A recomputed mark fits.                                                 *)
LEMMA RecomputedFits ==
    ASSUME NEW r, r.assumed = Pending(r)
    PROVE  MarkFits(r)
BY DEF MarkFits, Coherent

(* What the property says of every buffer.                                 *)
LEMMA MarksFit ==
    ASSUME TypeOK
    PROVE  AssumedCoherent <=> \A d \in Dims : MarkFits(buf[d])
BY DEF AssumedCoherent, MarkFits, Coherent, TakesBack, TypeOK, Buffer

(* A marked buffer with a coherent mark is pending.                         *)
LEMMA AssumedIsPending ==
    ASSUME NEW r \in Buffer, Coherent(r), r.assumed
    PROVE  Pending(r)
BY DEF Coherent, Pending, Equal

(* The results of the sending actions keep the mark in step.               *)
LEMMA SendStepResult ==
    ASSUME TypeOK, NEW e \in Dims, Coherent(buf[e]), SendStep(e)
    PROVE  /\ buf'[e].assumed = TRUE /\ Pending(buf'[e])
           /\ buf'[e].available = buf[e].available
           /\ told'[e].available = IF FeedbackStyle = "Normal" THEN told[e].available
                                   ELSE buf[e].available
<1> DEFINE s == Stepped(buf[e])
<1>1. buf[e] \in Buffer /\ buf[e].assumed = TRUE /\ MidSmoothing(buf[e])
  BY DEF TypeOK, SendStep, MayAct, Buffer
<1>2. s \in Buffer /\ s.assumed = TRUE /\ s.available = buf[e].available
  BY <1>1, SentTypes
<1>3. Pending(s)
  <2>1. CASE FeedbackStyle = "NoFeedback"
    <3>1. s.current.n = NextStep(buf[e]) /\ s.target = buf[e].target
      <4>1. s.current = Step(buf[e]) /\ s.target = buf[e].target
        BY <1>1, <2>1, SentTypes
      <4>2. Step(buf[e]).n = NextStep(buf[e])
        BY DEF Step
      <4>3. QED
        BY <4>1, <4>2
    <3>2. s.current.n # s.target.n
      BY <1>1, <3>1 DEF MidSmoothing
    <3>3. QED
      BY <3>2 DEF Pending, Equal
  <2>2. CASE FeedbackStyle # "NoFeedback"
    <3>1. s.current = buf[e].current /\ s.target = buf[e].target
      BY <1>1, <2>2, SentTypes
    <3>2. Pending(buf[e])
      BY <1>1, AssumedIsPending
    <3>3. QED
      BY <3>1, <3>2 DEF Pending
  <2>3. QED
    BY <2>1, <2>2
<1>4. buf'[e] \in {s, Reflag(s)}
  BY SendStepType
<1> HIDE DEF s
<1>5. buf'[e].assumed = TRUE /\ Pending(buf'[e]) /\ buf'[e].available = buf[e].available
  <2>1. CASE buf'[e] = s
    BY <1>2, <1>3, <2>1
  <2>2. CASE buf'[e] = Reflag(s)
    <3>1. /\ Reflag(s).assumed = Pending(s) /\ Reflag(s).available = s.available
          /\ Reflag(s).current = s.current /\ Reflag(s).target = s.target
      BY <1>2, ReflagFacts
    <3>2. QED
      BY <1>2, <1>3, <2>2, <3>1 DEF Pending
  <2>3. QED
    BY <1>4, <2>1, <2>2
<1>6. told'[e].available = IF FeedbackStyle = "Normal" THEN told[e].available
                           ELSE buf[e].available
  BY DEF SendStep, Echo, TypeOK
<1>7. QED
  BY <1>5, <1>6

(* What sending the target leaves.                                          *)
LEMMA SendTargetResult ==
    ASSUME TypeOK, NEW e \in Dims, Coherent(buf[e]), SendTarget(e)
    PROVE  /\ buf'[e].target = buf[e].target /\ buf'[e].available = buf[e].available
           /\ IF FeedbackStyle = "NoFeedback"
              THEN buf'[e].current = buf[e].target /\ buf'[e].assumed = FALSE
              ELSE buf'[e].assumed = TRUE /\ Pending(buf'[e])
<1> DEFINE r == Tried(buf[e])
<1>1. buf[e] \in Buffer /\ buf[e].assumed = TRUE
  BY DEF TypeOK, SendTarget, MayAct, Buffer
<1>2. Pending(buf[e])
  BY <1>1, AssumedIsPending
<1>3. /\ r \in Buffer /\ r.target = buf[e].target /\ r.current = buf[e].current
      /\ r.available = buf[e].available
  BY <1>1, SentTypes
<1>4. r.assumed = Pending(buf[e])
  BY <1>1, SentTypes
<1>5. Pending(r) /\ r.assumed = TRUE
  <2>1. Pending(r)
    BY <1>2, <1>3 DEF Pending
  <2>2. r.assumed
    BY <1>2, <1>4
  <2>3. QED
    BY <1>3, <2>1, <2>2 DEF Buffer
<1>6. CASE FeedbackStyle = "NoFeedback"
  <2>1. buf'[e] = Settle(r)
    BY <1>6, SendTargetType
  <2> HIDE DEF r
  <2>2. QED
    BY <1>3, <1>6, <2>1 DEF Settle, Buffer
<1>7. CASE FeedbackStyle # "NoFeedback"
  <2>1. buf'[e] \in {r, Reflag(r)}
    BY <1>7, SendTargetType
  <2> HIDE DEF r
  <2>2. CASE buf'[e] = r
    BY <1>3, <1>5, <1>7, <2>2
  <2>3. CASE buf'[e] = Reflag(r)
    <3>1. /\ Reflag(r).assumed = Pending(r) /\ Reflag(r).available = r.available
          /\ Reflag(r).current = r.current /\ Reflag(r).target = r.target
      BY <1>3, ReflagFacts
    <3>2. QED
      BY <1>3, <1>5, <1>7, <2>3, <3>1 DEF Pending
  <2>4. QED
    BY <2>1, <2>2, <2>3
<1>8. QED
  BY <1>6, <1>7

(* What an Incremental command leaves.                                      *)
LEMMA SendIncrementalResult ==
    ASSUME TypeOK, NEW e \in Dims, Coherent(buf[e]), SendIncremental(e)
    PROVE  /\ buf'[e].target = buf[e].target /\ buf'[e].available = buf[e].available
           /\ buf'[e].assumed = TRUE /\ Pending(buf'[e])
<1> DEFINE r == Counted(buf[e])
<1>1. buf[e] \in Buffer /\ buf[e].assumed = TRUE
  BY DEF TypeOK, SendIncremental, MayAct, Buffer
<1>2. Pending(buf[e])
  BY <1>1, AssumedIsPending
<1>3. /\ r \in Buffer /\ r.target = buf[e].target /\ r.current = buf[e].current
      /\ r.available = buf[e].available
  BY <1>1, SentTypes
<1>4. r.assumed = Pending(buf[e])
  BY <1>1, SentTypes
<1>5. Pending(r) /\ r.assumed = TRUE
  <2>1. Pending(r)
    BY <1>2, <1>3 DEF Pending
  <2>2. r.assumed
    BY <1>2, <1>4
  <2>3. QED
    BY <1>3, <2>1, <2>2 DEF Buffer
<1>6. buf'[e] \in {r, Reflag(r)}
  BY SendIncrementalType
<1> HIDE DEF r
<1>7. CASE buf'[e] = r
  BY <1>3, <1>5, <1>7
<1>8. CASE buf'[e] = Reflag(r)
  <2>1. /\ Reflag(r).assumed = Pending(r) /\ Reflag(r).available = r.available
        /\ Reflag(r).current = r.current /\ Reflag(r).target = r.target
    BY <1>3, ReflagFacts
  <2>2. QED
    BY <1>3, <1>5, <1>8, <2>1 DEF Pending
<1>9. QED
  BY <1>6, <1>7, <1>8

(* Every step keeps the marks fitting.                                     *)
LEMMA CoherentStep ==
    ASSUME TypeOK, TypeOK', \A d \in Dims : MarkFits(buf[d]), [Next]_vars
    PROVE  \A d \in Dims : MarkFits(buf'[d])
<1> SUFFICES ASSUME NEW e \in Dims
             PROVE  MarkFits(buf'[e])
  OBVIOUS
<1>0. MarkFits(buf[e]) /\ buf[e] \in Buffer /\ sinceUpdate[e] \in Nat
  BY HorizonFacts DEF TypeOK
<1>1. CASE Untouched(e)
  BY <1>0, <1>1 DEF Untouched
<1>2. ASSUME NEW rep \in Reports, Absorbed(e, rep) PROVE MarkFits(buf'[e])
  <2>1. CASE rep.what = "other"
    BY <1>0, <1>2, <2>1, AbsorbType DEF Absorbed
  <2>2. CASE rep.what # "other"
    BY <1>0, <1>2, <2>2, AbsorbType, RecomputedFits DEF Absorbed
  <2>3. QED
    BY <2>1, <2>2
<1>3. CASE \E n \in SetVals : SetValue(e, n)
  BY <1>3, SetValueResult DEF MarkFits, Coherent
<1>4. CASE (\E s \in StepVals : StepsApplied(e, s)) \/ AcceptCurrent(e) \/ GiveUp(e)
  BY <1>4, StepsAppliedResult, AcceptCurrentResult, GiveUpResult, RecomputedFits
<1>5. CASE Withhold(e)
  <2>1. CASE TakesBack
    BY <1>5, <2>1, WithholdResult DEF MarkFits
  <2>2. CASE ~TakesBack
    <3>1. FeedbackStyle # "NoFeedback"
      BY <1>5, <2>2, ConfigAssumption DEF Withhold, TakesBack
    <3>2. QED
      BY <1>0, <1>5, <3>1, WithholdResult
  <2>3. QED
    BY <2>1, <2>2
<1>6. CASE Delay(e) \/ Read(e)
  <2>1. buf'[e] \in {buf[e], Reflag(buf[e])}
    BY <1>6, DelayType, ReadResult
  <2>2. MarkFits(Reflag(buf[e]))
    BY <1>0, ReflagFacts, RecomputedFits
  <2>3. QED
    BY <1>0, <2>1, <2>2
<1>7. ASSUME SendStep(e) \/ SendTarget(e) \/ SendIncremental(e) PROVE ~TakesBack /\ Coherent(buf[e])
  <2>1. ~TakesBack
    BY <1>7 DEF SendStep, SendTarget, SendIncremental, TakesBack
  <2>2. QED
    BY <1>0, <2>1 DEF MarkFits
<1>8. CASE SendStep(e)
  BY <1>7, <1>8, SendStepResult DEF MarkFits, Coherent
<1>9. CASE SendTarget(e)
  <2>1. CASE FeedbackStyle = "NoFeedback"
    <3>1. buf'[e].target.kind = "nil" \/ Equal(buf'[e].target, buf'[e].target)
      BY DEF Equal, TypeOK, Buffer, Value
    <3>2. buf'[e].current = buf'[e].target /\ buf'[e].assumed = FALSE
      BY <1>7, <1>9, <2>1, SendTargetResult
    <3>3. Coherent(buf'[e])
      BY <2>1, <3>1, <3>2 DEF Coherent, Pending
    <3>4. QED
      BY <1>7, <1>9, <3>3 DEF MarkFits
  <2>2. CASE FeedbackStyle # "NoFeedback"
    BY <1>7, <1>9, <2>2, SendTargetResult DEF MarkFits, Coherent
  <2>3. QED
    BY <2>1, <2>2
<1>10. CASE SendIncremental(e)
  BY <1>7, <1>10, SendIncrementalResult DEF MarkFits, Coherent
<1>11. QED
  BY <1>1, <1>2, <1>3, <1>4, <1>5, <1>6, <1>8, <1>9, <1>10, ElementStep DEF Moved

(* The assumed mark always agrees with the values, so the write hidden in  *)
(* every read changes nothing that clients were told; a Oneshot value that *)
(* is taken back keeps its mark until then.                                *)
THEOREM MarkIsCoherent == Spec => []AssumedCoherent
<1> DEFINE Fits == \A d \in Dims : MarkFits(buf[d])
<1>1. Init => Fits
  <2>1. Coherent(InitialBuffer(DefaultValid)) /\ MarkFits(InitialBuffer(DefaultValid))
    BY DEF MarkFits, Coherent, InitialBuffer, Pending, Equal
  <2>2. QED
    BY <2>1 DEF Init
<1>2. TypeOK /\ TypeOK' /\ Fits /\ [Next]_vars => Fits'
  BY CoherentStep
<1>3. TypeOK /\ Fits => AssumedCoherent
  BY MarksFit
<1>4. QED
  BY <1>1, <1>2, <1>3, TypeCorrect, PTL DEF Spec

-----------------------------------------------------------------------------
(* The clients' view.                                                      *)

TellsTheTruth(e) ==
    /\ told[e].available = buf[e].available
    /\ ~buf[e].assumed => told[e].value = buf[e].target /\ ~told[e].assumed

(* What a view made from a buffer says.                                     *)
LEMMA ToldFields ==
    ASSUME NEW r \in Buffer, NEW err
    PROVE  /\ Told(r, err).available = r.available /\ Told(r, err).value = r.target
           /\ Told(r, err).assumed = Pending(r)
BY DEF Told

(* An element whose mark is recomputed and that is announced is told the truth. *)
LEMMA FreshlyTold ==
    ASSUME TypeOK', NEW e \in Dims, NEW err, told'[e] = Told(buf'[e], err),
           buf'[e].assumed = Pending(buf'[e])
    PROVE  TellsTheTruth(e)'
<1>1. buf'[e] \in Buffer
  BY DEF TypeOK
<1>2. /\ told'[e].available = buf'[e].available /\ told'[e].value = buf'[e].target
      /\ told'[e].assumed = buf'[e].assumed
  BY <1>1, ToldFields
<1>3. QED
  BY <1>2 DEF TellsTheTruth

(* Every step tells the clients what an element settled on.                 *)
LEMMA SettledStep ==
    ASSUME ~TakesBack, TypeOK, TypeOK', AssumedCoherent, SettledIsTold, [Next]_vars
    PROVE  SettledIsTold'
<1> SUFFICES ASSUME NEW e \in Dims
             PROVE  TellsTheTruth(e)'
  BY DEF SettledIsTold, TellsTheTruth
<1>0. /\ Coherent(buf[e]) /\ buf[e] \in Buffer /\ sinceUpdate[e] \in Nat
      /\ TellsTheTruth(e)
  BY HorizonFacts, MarksFit DEF MarkFits, TypeOK, SettledIsTold, TellsTheTruth
<1>1. CASE Untouched(e)
  BY <1>0, <1>1 DEF Untouched, TellsTheTruth
<1>2. ASSUME NEW rep \in Reports, Absorbed(e, rep) PROVE TellsTheTruth(e)'
  <2>1. CASE rep.what = "other"
    BY <1>0, <1>2, <2>1, AbsorbType DEF Absorbed, TellsTheTruth
  <2>2. CASE rep.what # "other"
    BY <1>0, <1>2, <2>2, AbsorbType, FreshlyTold DEF Absorbed
  <2>3. QED
    BY <2>1, <2>2
<1>3. ASSUME NEW n \in SetVals, SetValue(e, n) PROVE TellsTheTruth(e)'
  BY <1>0, <1>3, SetValueResult DEF TellsTheTruth
<1>4. CASE \E s \in StepVals : StepsApplied(e, s)
  BY <1>4, StepsAppliedResult, FreshlyTold
<1>5. CASE AcceptCurrent(e) \/ GiveUp(e)
  BY <1>5, AcceptCurrentResult, GiveUpResult, FreshlyTold
<1>6. CASE Withhold(e)
  <2>1. FeedbackStyle # "NoFeedback"
    BY <1>6, ConfigAssumption DEF Withhold, TakesBack
  <2>2. QED
    BY <1>0, <1>6, <2>1, WithholdResult DEF TellsTheTruth
<1>7. ASSUME buf'[e] \in {buf[e], Reflag(buf[e])}, told'[e] = told[e]
      PROVE  TellsTheTruth(e)'
  <2>1. CASE buf'[e] = buf[e]
    BY <1>0, <1>7, <2>1 DEF TellsTheTruth
  <2>2. CASE buf'[e] = Reflag(buf[e])
    <3>1. /\ Reflag(buf[e]).available = buf[e].available
          /\ Reflag(buf[e]).target = buf[e].target
      BY <1>0, ReflagFacts
    <3>2. buf[e].assumed => Reflag(buf[e]).assumed
      BY <1>0, AssumedIsPending, ReflagFacts
    <3>3. QED
      BY <1>0, <1>7, <2>2, <3>1, <3>2 DEF TellsTheTruth
  <2>3. QED
    BY <1>7, <2>1, <2>2
<1>8. CASE Delay(e)
  <2>1. told'[e] = told[e]
    BY <1>8 DEF Delay
  <2>2. QED
    BY <1>7, <1>8, <2>1, DelayType
<1>9. CASE Read(e)
  BY <1>7, <1>9, ReadResult
<1>10. CASE SendStep(e)
  BY <1>0, <1>10, SendStepResult DEF TellsTheTruth
<1>11. CASE SendTarget(e)
  <2>1. CASE FeedbackStyle = "Normal"
    <3>1. told'[e] = told[e]
      BY <1>11, <2>1 DEF SendTarget, Echo
    <3>2. buf'[e].assumed = TRUE /\ buf'[e].available = buf[e].available
      BY <1>0, <1>11, <2>1, SendTargetResult
    <3>3. QED
      BY <1>0, <3>1, <3>2 DEF TellsTheTruth
  <2>2. CASE FeedbackStyle # "Normal"
    <3>1. told'[e] = [value |-> Tried(buf[e]).target, assumed |-> buf'[e].assumed,
                      available |-> buf[e].available, error |-> "NoError"]
      BY <1>11, <2>2 DEF SendTarget, Echo, Tried, TypeOK
    <3>2. /\ Tried(buf[e]).target = buf[e].target
          /\ buf'[e].target = buf[e].target /\ buf'[e].available = buf[e].available
      BY <1>0, <1>11, SentTypes, SendTargetResult
    <3>3. QED
      BY <3>1, <3>2 DEF TellsTheTruth
  <2>3. QED
    BY <2>1, <2>2
<1>12. CASE SendIncremental(e)
  <2>1. told'[e] = told[e]
    BY <1>12 DEF SendIncremental
  <2>2. QED
    BY <1>0, <1>12, <2>1, SendIncrementalResult DEF TellsTheTruth
<1>13. QED
  BY <1>1, <1>2, <1>3, <1>4, <1>5, <1>6, <1>8, <1>9, <1>10, <1>11, <1>12, ElementStep DEF Moved

(* Where pending values are taken back, the clients always know the value  *)
(* that is fallen back to.  An increment by nothing and an availability    *)
(* report announce the pending value before that.                          *)
PendingIsQuiet == TakesBack => 0 \notin StepVals /\ "available" \notin ReportKinds

FallBackTold(e) ==
    /\ told[e].available = buf[e].available
    /\ buf[e].current.kind = "int" => told[e].value = buf[e].current /\ ~told[e].assumed
    /\ ~buf[e].assumed => buf[e].target = buf[e].current /\ buf[e].current.kind = "int"
AlwaysTold == \A e \in Dims : FallBackTold(e)

(* A buffer that is not pending holds one number twice.                    *)
LEMMA NotPending ==
    ASSUME NEW r \in Buffer, ~Pending(r)
    PROVE  r.target = r.current /\ r.current.kind = "int"
BY DEF Pending, Equal, Buffer, Value

(* An element that is announced with nothing to fall back to but its target.*)
LEMMA FallBackAnnounced ==
    ASSUME TypeOK', NEW e \in Dims, NEW err, told'[e] = Told(buf'[e], err),
           buf'[e].assumed = Pending(buf'[e]),
           Pending(buf'[e]) => buf'[e].current.kind = "nil"
    PROVE  FallBackTold(e)'
<1>1. buf'[e] \in Buffer
  BY DEF TypeOK
<1>2. /\ told'[e].available = buf'[e].available /\ told'[e].value = buf'[e].target
      /\ told'[e].assumed = Pending(buf'[e])
  BY <1>1, ToldFields
<1>3. ~Pending(buf'[e]) => buf'[e].target = buf'[e].current /\ buf'[e].current.kind = "int"
  BY <1>1, NotPending
<1>4. QED
  BY <1>2, <1>3 DEF FallBackTold

(* A target taken from the current value is pending only without a payload.*)
LEMMA TakenIsSettled ==
    ASSUME NEW r \in Buffer, r.target = r.current
    PROVE  Pending(r) => r.current.kind = "nil"
BY DEF Pending, Equal, Buffer, Value

(* Without feedback every report of a value is the new target.             *)
LEMMA ReportIsTaken ==
    ASSUME TakesBack, "available" \notin ReportKinds, NEW r \in Buffer, NEW age \in Nat,
           NEW rep \in Reports, rep.what # "other"
    PROVE  Pending(Absorb(r, age, rep)) => Absorb(r, age, rep).current.kind = "nil"
<1> DEFINE a == Absorb(r, age, rep)
<1>1. a \in Buffer
  BY AbsorbType
<1>2. CASE rep.what = "value"
  <2> DEFINE seen == [r EXCEPT !.current = IntValue(rep.n)]
  <2>1. rep.n \in Int
    <3>1. rep \in [what : {"value"}, n : ReportVals]
      BY <1>2 DEF Reports
    <3>2. ReportVals \subseteq Int
      BY InputAssumption, ConfigAssumption
    <3>3. QED
      BY <3>1, <3>2
  <2>2. seen \in Buffer
    BY <2>1, ValueTypes DEF Buffer
  <2>3. a = Marked(FallBack(seen))
    BY <1>2 DEF Absorb, AbsorbValue, Adopted, TakesBack
  <2> HIDE DEF seen, a
  <2>4. FallBack(seen) \in Buffer /\ FallBack(seen).target = FallBack(seen).current
    BY <2>2, FallBackType DEF FallBack, Buffer
  <2>5. a.target = a.current
    BY <2>3, <2>4, MarkedFacts
  <2>6. QED
    BY <1>1, <2>5, TakenIsSettled DEF a
<1>3. CASE rep.what = "invalid"
  <2>1. a.current = InvalidValue
    BY <1>3 DEF Absorb, AbsorbInvalid, Reflag, Buffer
  <2>2. QED
    BY <2>1 DEF InvalidValue
<1>4. QED
  BY <1>2, <1>3 DEF Reports

(* Every step that makes something pending leaves what clients were told.  *)
LEMMA AlwaysToldStep ==
    ASSUME TakesBack, PendingIsQuiet, TypeOK, TypeOK', AlwaysTold, [Next]_vars
    PROVE  AlwaysTold'
<1> SUFFICES ASSUME NEW e \in Dims
             PROVE  FallBackTold(e)'
  BY DEF AlwaysTold, FallBackTold
<1>0. FallBackTold(e) /\ buf[e] \in Buffer /\ buf'[e] \in Buffer /\ sinceUpdate[e] \in Nat
  BY HorizonFacts DEF AlwaysTold, TypeOK
<1>1. CASE Untouched(e)
  BY <1>0, <1>1 DEF Untouched, FallBackTold
<1>2. ASSUME NEW rep \in Reports, Absorbed(e, rep) PROVE FallBackTold(e)'
  <2>1. CASE rep.what = "other"
    BY <1>0, <1>2, <2>1, AbsorbType DEF Absorbed, FallBackTold
  <2>2. CASE rep.what # "other"
    <3>1. buf'[e].assumed = Pending(buf'[e]) /\ told'[e] = Told(buf'[e], "NoError")
      BY <1>0, <1>2, <2>2, AbsorbType DEF Absorbed
    <3>2. Pending(buf'[e]) => buf'[e].current.kind = "nil"
      BY <1>0, <1>2, <2>2, ReportIsTaken DEF Absorbed, PendingIsQuiet
    <3>3. QED
      BY <3>1, <3>2, FallBackAnnounced
  <2>3. QED
    BY <2>1, <2>2
<1>3. ASSUME NEW n \in SetVals, SetValue(e, n) PROVE FallBackTold(e)'
  BY <1>0, <1>3, SetValueResult DEF FallBackTold
<1>4. ~\E s \in StepVals : StepsApplied(e, s)
  <2>1. \A s \in StepVals : s \in Int /\ s # 0
    BY InputAssumption DEF PendingIsQuiet
  <2>2. StepsLower = 0 /\ StepsUpper = 0
    BY ConfigAssumption DEF TakesBack
  <2>3. QED
    BY <2>1, <2>2 DEF StepsApplied
<1>5. CASE AcceptCurrent(e)
  <2>1. buf'[e] = Reflag(FallBack(buf[e]))
    BY <1>5 DEF AcceptCurrent, TypeOK
  <2>2. FallBack(buf[e]) \in Buffer /\ FallBack(buf[e]).target = FallBack(buf[e]).current
    BY <1>0, FallBackType DEF FallBack, Buffer
  <2>3. buf'[e].target = buf'[e].current
    BY <2>1, <2>2, ReflagFacts
  <2>4. QED
    BY <1>0, <1>5, <2>3, AcceptCurrentResult, TakenIsSettled, FallBackAnnounced
<1>6. ~GiveUp(e) /\ ~SendStep(e) /\ ~SendTarget(e) /\ ~SendIncremental(e)
  BY DEF GiveUp, Exhausted, HasRetryLimit, SendStep, SendTarget, SendIncremental, TakesBack
<1>7. CASE Withhold(e)
  BY <1>0, <1>7, WithholdResult DEF FallBackTold, TakesBack
<1>8. CASE Delay(e) \/ Read(e)
  <2>1. buf'[e] \in {buf[e], Reflag(buf[e])} /\ told'[e] = told[e]
    BY <1>8, DelayType, ReadResult DEF Delay
  <2>2. CASE buf'[e] = buf[e]
    BY <1>0, <2>1, <2>2 DEF FallBackTold
  <2>3. CASE buf'[e] = Reflag(buf[e])
    <3>1. /\ buf'[e].assumed = Pending(buf'[e]) /\ buf'[e].current = buf[e].current
          /\ buf'[e].available = buf[e].available
      BY <1>0, <2>3, ReflagFacts
    <3>2. ~buf'[e].assumed =>
              buf'[e].target = buf'[e].current /\ buf'[e].current.kind = "int"
      BY <1>0, <3>1, NotPending
    <3>3. QED
      BY <1>0, <2>1, <3>1, <3>2 DEF FallBackTold
  <2>4. QED
    BY <2>1, <2>2, <2>3
<1>9. QED
  BY <1>1, <1>2, <1>3, <1>4, <1>5, <1>6, <1>7, <1>8, ElementStep DEF Moved

(* No client is left with a value or a mark that nothing will correct: the *)
(* last message about a settled element carries what it settled on.        *)
THEOREM ClientsSeeSettled ==
    ASSUME PendingIsQuiet
    PROVE  Spec => []SettledIsTold
<1>0. /\ ~Pending(InitialBuffer(DefaultValid))
      /\ InitialBuffer(DefaultValid) \in Buffer
  BY NotSmoothingType, InputAssumption DEF InitialBuffer, Pending, Equal, Buffer, Value
<1>1. Init => SettledIsTold
  BY <1>0, ToldFields DEF Init, SettledIsTold
<1>2. CASE ~TakesBack
  <2>1. TypeOK /\ TypeOK' /\ AssumedCoherent /\ SettledIsTold /\ [Next]_vars => SettledIsTold'
    BY <1>2, SettledStep
  <2>2. QED
    BY <1>1, <2>1, TypeCorrect, MarkIsCoherent, PTL DEF Spec
<1>3. CASE TakesBack
  <2>1. Init => AlwaysTold
    BY <1>0, ToldFields, NotPending DEF Init, AlwaysTold, FallBackTold
  <2>2. TypeOK /\ TypeOK' /\ AlwaysTold /\ [Next]_vars => AlwaysTold'
    BY <1>3, AlwaysToldStep
  <2>3. AlwaysTold => SettledIsTold
    BY DEF AlwaysTold, FallBackTold, SettledIsTold
  <2>4. QED
    BY <2>1, <2>2, <2>3, TypeCorrect, PTL DEF Spec
<1>4. QED
  BY <1>2, <1>3

-----------------------------------------------------------------------------
(* Giving up.  tryCount never runs ahead of what was really sent, unless   *)
(* an increment moves the target behind its back.                          *)

NoStepAccepted == StepVals \cap (StepsLower..StepsUpper) = {}

TriesWereSent == HasRetryLimit => \A d \in Dims : buf[d].tryCount <= attempts[d]

(* Every try is a command that was counted.                                 *)
LEMMA TriesStep ==
    ASSUME NoStepAccepted, TypeOK, TypeOK', RetryBound, TriesWereSent, [Next]_vars
    PROVE  TriesWereSent'
<1> SUFFICES ASSUME HasRetryLimit, NEW e \in Dims
             PROVE  buf'[e].tryCount <= attempts'[e]
  BY DEF TriesWereSent, HasRetryLimit
<1>0. /\ buf[e] \in Buffer /\ sinceUpdate[e] \in Nat
      /\ buf[e].tryCount \in Nat /\ attempts[e] \in Nat /\ attempts'[e] \in Nat
      /\ RetryCount \in Nat /\ attempts[e] <= RetryCount + 1
      /\ buf[e].tryCount <= attempts[e] /\ buf[e].tryCount <= RetryCount
  BY ConfigAssumption, HorizonFacts DEF TypeOK, Buffer, RetryBound, TriesWereSent, MaxAttempts
<1>1. CASE Untouched(e)
  BY <1>0, <1>1 DEF Untouched
<1>2. ASSUME NEW rep \in Reports, Absorbed(e, rep) PROVE buf'[e].tryCount <= attempts'[e]
  BY <1>0, <1>2, AbsorbType DEF Absorbed
<1>3. CASE (\E n \in SetVals : SetValue(e, n)) \/ GiveUp(e)
  <2>1. buf'[e].tryCount = 0
    BY <1>3, SetValueResult, GiveUpResult
  <2>2. QED
    BY <1>0, <2>1
<1>4. CASE \E s \in StepVals : StepsApplied(e, s)
  BY <1>4 DEF NoStepAccepted, StepsApplied
<1>5. CASE AcceptCurrent(e) \/ Withhold(e)
  <2>1. buf'[e].tryCount = buf[e].tryCount /\ attempts' = attempts
    BY <1>5, AcceptCurrentResult, WithholdResult
  <2>2. QED
    BY <1>0, <2>1
<1>6. CASE Delay(e) \/ Read(e)
  <2>1. buf'[e] \in {buf[e], Reflag(buf[e])}
    BY <1>6, DelayType, ReadResult
  <2>2. attempts' = attempts
    BY <1>6 DEF Delay, Read
  <2>3. QED
    BY <1>0, <2>1, <2>2, ReflagFacts
<1>7. CASE SendStep(e)
  <2>1. buf'[e].tryCount = 0
    BY <1>0, <1>7, SendStepType, SentTypes, ReflagFacts
  <2>2. QED
    BY <1>0, <2>1
<1>8. CASE SendTarget(e) \/ SendIncremental(e)
  <2>1. buf'[e].tryCount = buf[e].tryCount + 1
    <3>1. CASE SendTarget(e)
      BY <1>0, <3>1, SendTargetType, SentTypes, ReflagFacts DEF HasRetryLimit
    <3>2. CASE SendIncremental(e)
      BY <1>0, <3>2, SendIncrementalType, SentTypes, ReflagFacts
    <3>3. QED
      BY <1>8, <3>1, <3>2
  <2>2. buf[e].tryCount < RetryCount
    BY <1>0, <1>8 DEF SendTarget, SendIncremental, Exhausted
  <2>3. attempts'[e] = IF attempts[e] < MaxAttempts THEN attempts[e] + 1 ELSE attempts[e]
    BY <1>8 DEF SendTarget, SendIncremental, CountAttempt, TypeOK
  <2>4. QED
    BY <1>0, <2>1, <2>2, <2>3 DEF MaxAttempts
<1>9. QED
  BY <1>1, <1>2, <1>3, <1>4, <1>5, <1>6, <1>7, <1>8, ElementStep DEF Moved

(* Only GiveUp puts MaxRetrys into what the clients were told last.        *)
LEMMA OnlyGiveUpReports ==
    ASSUME TypeOK, TypeOK', [Next]_vars, NEW e \in Dims, GivesUpOn(e)
    PROVE  GiveUp(e)
<1>1. CASE Untouched(e)
  BY <1>1 DEF Untouched, GivesUpOn
<1>2. ASSUME NEW rep \in Reports, Absorbed(e, rep) PROVE FALSE
  BY <1>2 DEF Absorbed, Told, GivesUpOn
<1>3. CASE Moved(e)
  <2>1. (\E n \in SetVals : SetValue(e, n)) => told' = told
    BY DEF SetValue
  <2>2. (\E s \in StepVals : StepsApplied(e, s)) \/ AcceptCurrent(e)
        => told'[e] = Told(buf'[e], "NoError")
    BY StepsAppliedResult, AcceptCurrentResult
  <2>3. Delay(e) \/ SendIncremental(e) \/ Withhold(e) \/ Read(e) => told' = told
    BY DEF Delay, SendIncremental, Withhold, Read
  <2>4. SendStep(e) \/ SendTarget(e) => told' = told \/ told'[e].error = "NoError"
    BY DEF SendStep, SendTarget, Echo, TypeOK
  <2>5. Told(buf'[e], "NoError").error = "NoError"
    BY DEF Told
  <2>6. QED
    BY <1>3, <2>1, <2>2, <2>3, <2>4, <2>5 DEF Moved, GivesUpOn
<1>4. QED
  BY <1>1, <1>2, <1>3, ElementStep

(* MaxRetrys is never reported for a target that was not really commanded  *)
(* RetryCount times, nor before the quarantine of the last command is      *)
(* over, as long as no increment is accepted.                              *)
THEOREM GivingUpIsSound ==
    ASSUME NoStepAccepted
    PROVE  Spec => GiveUpSound
<1>1. Init => TriesWereSent
  BY DEF Init, TriesWereSent, InitialBuffer
<1>2. TypeOK /\ TypeOK' /\ RetryBound /\ TriesWereSent /\ [Next]_vars => TriesWereSent'
  BY TriesStep
<1>3. TypeOK /\ TypeOK' /\ TriesWereSent /\ [Next]_vars
      => [\A d \in Dims : GivesUpOn(d) =>
             attempts[d] >= RetryCount /\ sinceUpdate[d] >= QuarantineDelay]_vars
  <2> SUFFICES ASSUME TypeOK, TypeOK', TriesWereSent, [Next]_vars,
                      NEW e \in Dims, GivesUpOn(e)
               PROVE  attempts[e] >= RetryCount /\ sinceUpdate[e] >= QuarantineDelay
    OBVIOUS
  <2>1. GiveUp(e)
    BY OnlyGiveUpReports
  <2>2. HasRetryLimit /\ buf[e].tryCount >= RetryCount
    BY <2>1 DEF GiveUp, Exhausted
  <2>3. buf[e].tryCount <= attempts[e]
    BY <2>2 DEF TriesWereSent
  <2>4. /\ buf[e].tryCount \in Nat /\ attempts[e] \in Nat /\ sinceUpdate[e] \in Nat
        /\ RetryCount \in Nat /\ QuarantineDelay \in Nat
    BY HorizonFacts, ConfigAssumption DEF TypeOK, Buffer, MaxAttempts
  <2>5. sinceUpdate[e] >= QuarantineDelay
    BY <2>1, <2>4 DEF GiveUp, InQuarantine
  <2>6. QED
    BY <2>2, <2>3, <2>4, <2>5
<1>4. QED
  BY <1>1, <1>2, <1>3, TypeCorrect, CountBounded, PTL DEF Spec, GiveUpSound

-----------------------------------------------------------------------------
(* Holding on to a commanded target.                                       *)

(* Without a threshold only adoption moves a target with feedback.          *)
LEMMA AbsorbTarget ==
    ASSUME FeedbackStyle # "NoFeedback", Threshold = 0,
           NEW r \in Buffer, NEW age \in Nat, NEW rep \in Reports,
           Absorb(r, age, rep).target # r.target
    PROVE  Adopts(r, age)
<1>1. CASE rep.what = "value"
  <2> DEFINE seen == [r EXCEPT !.current = IntValue(rep.n)]
  <2>1. rep.n \in Int
    <3>1. rep \in [what : {"value"}, n : ReportVals]
      BY <1>1 DEF Reports
    <3>2. ReportVals \subseteq Int
      BY InputAssumption, ConfigAssumption
    <3>3. QED
      BY <3>1, <3>2
  <2>2. seen \in Buffer /\ seen.target = r.target /\ seen.tryCount = r.tryCount
    BY <2>1, ValueTypes DEF Buffer
  <2>3. Absorb(r, age, rep) = Marked(Adopted(seen, age))
    BY <1>1 DEF Absorb, AbsorbValue
  <2> HIDE DEF seen
  <2>4. Marked(Adopted(seen, age)).target = Adopted(seen, age).target
    BY <2>2, AdoptedFacts, MarkedFacts
  <2>5. Adopts(seen, age) \/ Adopted(seen, age) = seen
    BY DEF Adopted, WithinThreshold
  <2>6. QED
    BY <2>2, <2>3, <2>4, <2>5 DEF Adopts
<1>2. CASE rep.what = "invalid"
  <2> DEFINE lost == [r EXCEPT !.current = InvalidValue,
                               !.target = IF Adopts(r, age) THEN InvalidValue ELSE @]
  <2>1. lost \in Buffer
    BY ValueTypes DEF Buffer
  <2>2. ~Adopts(r, age) => lost.target = r.target
    BY DEF Buffer
  <2>3. Absorb(r, age, rep) = Reflag(lost)
    BY <1>2 DEF Absorb, AbsorbInvalid
  <2> HIDE DEF lost
  <2>4. QED
    BY <2>1, <2>2, <2>3, ReflagFacts
<1>3. CASE rep.what = "available"
  <2> DEFINE s == [r EXCEPT !.available = rep.is]
  <2>1. rep.is \in BOOLEAN
    BY <1>3 DEF Reports
  <2>2. s \in Buffer /\ s.target = r.target
    BY <2>1 DEF Buffer
  <2>3. Absorb(r, age, rep) = Reflag(s)
    BY <1>3 DEF Absorb
  <2> HIDE DEF s
  <2>4. QED
    BY <2>2, <2>3, ReflagFacts
<1>4. CASE rep.what = "other"
  BY <1>4 DEF Absorb
<1>5. QED
  BY <1>1, <1>2, <1>3, <1>4 DEF Reports

(* A commanded target that goes without a client's word was given up or adopted. *)
LEMMA TargetKept ==
    ASSUME FeedbackStyle # "NoFeedback", Threshold = 0,
           TypeOK, TypeOK', RetryBound, [Next]_vars,
           NEW e \in Dims, attempts[e] > 0, attempts'[e] > 0,
           buf'[e].target # buf[e].target
    PROVE  sinceUpdate[e] >= QuarantineDelay /\ buf[e].tryCount \in {0, RetryCount}
<1>0. /\ buf[e] \in Buffer /\ sinceUpdate[e] \in Nat /\ buf[e].tryCount \in Nat
      /\ RetryCount \in Nat /\ QuarantineDelay \in Nat
  BY HorizonFacts, ConfigAssumption DEF TypeOK, Buffer
<1>1. CASE Untouched(e)
  BY <1>1 DEF Untouched
<1>2. ASSUME NEW rep \in Reports, Absorbed(e, rep)
      PROVE  sinceUpdate[e] >= QuarantineDelay /\ buf[e].tryCount \in {0, RetryCount}
  <2>1. Adopts(buf[e], sinceUpdate[e])
    BY <1>0, <1>2, AbsorbTarget DEF Absorbed
  <2>2. QED
    BY <2>1 DEF Adopts
<1>3. CASE (\E n \in SetVals : SetValue(e, n)) \/ \E s \in StepVals : StepsApplied(e, s)
  <2>1. attempts'[e] = 0
    BY <1>3, SetValueResult, StepsAppliedResult
  <2>2. QED
    BY <2>1
<1>4. CASE AcceptCurrent(e)
  BY <1>4 DEF AcceptCurrent, WithinThreshold
<1>5. CASE GiveUp(e)
  <2>1. HasRetryLimit /\ buf[e].tryCount >= RetryCount
    BY <1>5 DEF GiveUp, Exhausted
  <2>2. buf[e].tryCount <= RetryCount
    BY <2>1 DEF RetryBound
  <2>3. sinceUpdate[e] >= QuarantineDelay
    BY <1>0, <1>5 DEF GiveUp, InQuarantine
  <2>4. QED
    BY <1>0, <2>1, <2>2, <2>3
<1>6. CASE Withhold(e)
  BY <1>6, WithholdResult
<1>7. CASE Delay(e) \/ Read(e)
  <2>1. buf'[e] \in {buf[e], Reflag(buf[e])}
    BY <1>7, DelayType, ReadResult
  <2>2. QED
    BY <1>0, <2>1, ReflagFacts
<1>8. CASE SendStep(e)
  BY <1>0, <1>8, SendStepType, SentTypes, ReflagFacts
<1>9. CASE SendTarget(e)
  BY <1>0, <1>9, SendTargetType, SentTypes, ReflagFacts
<1>10. CASE SendIncremental(e)
  BY <1>0, <1>10, SendIncrementalType, SentTypes, ReflagFacts
<1>11. QED
  BY <1>1, <1>2, <1>3, <1>4, <1>5, <1>6, <1>7, <1>8, <1>9, <1>10, ElementStep DEF Moved

(* With feedback and no acceptance threshold, contradicting reports never  *)
(* displace a commanded target during its quarantine or between its tries. *)
THEOREM CommandedTargetIsHeld ==
    ASSUME FeedbackStyle # "NoFeedback", Threshold = 0
    PROVE  Spec => CommandedTargetHolds
<1>1. TypeOK /\ TypeOK' /\ RetryBound /\ [Next]_vars
      => [\A d \in Dims :
             /\ attempts[d] > 0 /\ attempts'[d] > 0
             /\ buf'[d].target # buf[d].target
             => /\ sinceUpdate[d] >= QuarantineDelay
                /\ buf[d].tryCount \in {0, RetryCount}]_vars
  BY TargetKept
<1>2. QED
  BY <1>1, TypeCorrect, CountBounded, PTL DEF Spec, CommandedTargetHolds

-----------------------------------------------------------------------------
(* The disabled manager.                                                   *)

FullPassthrough ==
    /\ {"ValuePassthrough", "IncrementalPassthrough"} \subseteq Flags
    /\ "invalid" \notin ReportKinds

Idle(e) ==
    /\ buf[e].assumed = FALSE /\ ~Pending(buf[e]) /\ buf[e].tryCount = 0
    /\ sinceUpdate[e] = Horizon

(* A report that is adopted leaves nothing pending.                         *)
LEMMA AbsorbIdle ==
    ASSUME FullPassthrough, NEW r \in Buffer, ~Pending(r), r.assumed = FALSE, r.tryCount = 0,
           NEW rep \in Reports
    PROVE  /\ Absorb(r, Horizon, rep).assumed = FALSE
           /\ ~Pending(Absorb(r, Horizon, rep))
           /\ Absorb(r, Horizon, rep).tryCount = 0
<1>0. Horizon \in Nat /\ QuarantineDelay <= Horizon
  BY HorizonFacts
<1>1. CASE rep.what = "value"
  <2> DEFINE seen == [r EXCEPT !.current = IntValue(rep.n)]
             kept == FallBack(seen)
  <2>1. rep.n \in Int
    <3>1. rep \in [what : {"value"}, n : ReportVals]
      BY <1>1 DEF Reports
    <3>2. ReportVals \subseteq Int
      BY InputAssumption, ConfigAssumption
    <3>3. QED
      BY <3>1, <3>2
  <2>2. seen \in Buffer /\ seen.tryCount = 0 /\ seen.current = IntValue(rep.n)
    BY <2>1, ValueTypes DEF Buffer
  <2>3. Adopted(seen, Horizon) = kept
    BY <1>0, <2>2, ConfigAssumption DEF Adopted, Adopts
  <2>4. Absorb(r, Horizon, rep) = Marked(kept)
    BY <1>1, <2>3 DEF Absorb, AbsorbValue
  <2> HIDE DEF seen
  <2>5. kept \in Buffer /\ kept.current = IntValue(rep.n) /\ kept.target = IntValue(rep.n)
        /\ kept.tryCount = 0
    BY <2>2, FallBackType
  <2> HIDE DEF kept
  <2>6. /\ Marked(kept) \in Buffer /\ Marked(kept).assumed = Pending(Marked(kept))
        /\ Marked(kept).current = IntValue(rep.n) /\ Marked(kept).target = IntValue(rep.n)
        /\ Marked(kept).tryCount = 0
    BY <2>5, MarkedFacts
  <2>7. ~Pending(Marked(kept))
    BY <2>6 DEF Pending, Equal, IntValue
  <2>8. Marked(kept).assumed = FALSE
    BY <2>6, <2>7 DEF Buffer
  <2>9. QED
    BY <2>4, <2>6, <2>7, <2>8
<1>2. CASE rep.what = "available"
  <2> DEFINE s == [r EXCEPT !.available = rep.is]
  <2>1. rep.is \in BOOLEAN
    BY <1>2 DEF Reports
  <2>2. s \in Buffer /\ s.tryCount = 0 /\ s.current = r.current /\ s.target = r.target
    BY <2>1 DEF Buffer
  <2>3. Absorb(r, Horizon, rep) = Reflag(s)
    BY <1>2 DEF Absorb
  <2> HIDE DEF s
  <2>4. ~Pending(s) /\ ~Pending(Reflag(s))
    BY <2>2, ReflagFacts DEF Pending
  <2>5. Reflag(s).assumed = FALSE
    BY <2>2, <2>4, ReflagFacts DEF Buffer
  <2>6. QED
    BY <2>2, <2>3, <2>4, <2>5, ReflagFacts
<1>3. CASE rep.what = "other"
  BY <1>3 DEF Absorb
<1>4. rep.what \in {"value", "available", "other"}
  BY DEF Reports, FullPassthrough
<1>5. QED
  BY <1>1, <1>2, <1>3, <1>4

(* No step of a disabled manager makes an element pending.                  *)
LEMMA IdleStep ==
    ASSUME FullPassthrough, TypeOK, TypeOK', \A d \in Dims : Idle(d), [Next]_vars
    PROVE  \A d \in Dims : Idle(d)'
<1> SUFFICES ASSUME NEW e \in Dims PROVE Idle(e)'
  OBVIOUS
<1>0. buf[e] \in Buffer /\ Idle(e) /\ \A d \in Dims : buf[d].assumed = FALSE
  BY DEF TypeOK, Idle
<1>1. sinceUpdate'[e] = sinceUpdate[e]
  <2>1. ASSUME NEW d \in Dims, Process(d) PROVE UNCHANGED sinceUpdate
    BY <1>0, <2>1 DEF Process, NothingPending, AcceptCurrent, Delay, GiveUp, SendStep, SendTarget,
                      SendIncremental, Withhold, MayAct
  <2>2. ASSUME NEW d \in Dims, IngestTarget(d) PROVE UNCHANGED sinceUpdate
    BY <2>2 DEF IngestTarget, SetUnavailable, SetValueIgnored, SetValuePassthrough, SetValue,
                StepsRefused, StepsForwarded, StepsApplied, SetCommand, Refuse, Forward
  <2>3. CASE Tick
    BY <1>0, <2>3, HorizonFacts DEF Tick, Older, Idle
  <2>4. Report => UNCHANGED sinceUpdate
    BY DEF Report, IngestCurrent
  <2>5. ASSUME NEW d \in Dims, ExpireTimer(d) \/ FinishCallback(d) \/ Read(d)
        PROVE  UNCHANGED sinceUpdate
    BY <2>5 DEF ExpireTimer, FinishCallback, Read
  <2>6. UNCHANGED vars => UNCHANGED sinceUpdate
    BY DEF vars
  <2>7. CASE \E d \in Dims : \/ IngestTarget(d) \/ Process(d) \/ ExpireTimer(d)
                             \/ FinishCallback(d) \/ Read(d)
    BY <2>1, <2>2, <2>5, <2>7
  <2>8. QED
    BY <2>3, <2>4, <2>6, <2>7 DEF Next
<1>2. CASE Untouched(e)
  BY <1>0, <1>1, <1>2 DEF Untouched, Idle
<1>3. ASSUME NEW rep \in Reports, Absorbed(e, rep) PROVE Idle(e)'
  BY <1>0, <1>1, <1>3, AbsorbIdle DEF Absorbed, Idle
<1>4. CASE Moved(e)
  <2>1. Read(e)
    BY <1>0, <1>4 DEF Moved, FullPassthrough, SetValue, StepsApplied, AcceptCurrent, Delay, GiveUp,
                      SendStep, SendTarget, SendIncremental, Withhold, MayAct
  <2>2. buf'[e] = Reflag(buf[e])
    BY <2>1, ReadResult
  <2>3. /\ Reflag(buf[e]).assumed = Pending(buf[e]) /\ Reflag(buf[e]).tryCount = 0
        /\ ~Pending(Reflag(buf[e])) /\ Reflag(buf[e]) \in Buffer
    BY <1>0, ReflagFacts DEF Idle, Pending
  <2>4. Reflag(buf[e]).assumed = FALSE
    BY <1>0, <2>3 DEF Idle, Buffer
  <2>5. QED
    BY <1>0, <1>1, <2>2, <2>3, <2>4 DEF Idle
<1>5. QED
  BY <1>2, <1>3, <1>4, ElementStep

(* With both passthrough options and a device that never invalidates a     *)
(* value, no buffer is ever waiting for anything.                          *)
THEOREM PassthroughFollowsDevice ==
    ASSUME FullPassthrough
    PROVE  Spec => []FollowsDevice
<1> DEFINE AllIdle == \A d \in Dims : Idle(d)
<1>1. Init => AllIdle
  <2>1. /\ InitialBuffer(DefaultValid).assumed = FALSE
        /\ InitialBuffer(DefaultValid).tryCount = 0
        /\ ~Pending(InitialBuffer(DefaultValid))
    BY DEF InitialBuffer, Pending, Equal
  <2>2. QED
    BY <2>1 DEF Init, Idle
<1>2. TypeOK /\ TypeOK' /\ AllIdle /\ [Next]_vars => AllIdle'
  BY IdleStep
<1>3. AllIdle => FollowsDevice
  BY DEF FollowsDevice, Idle
<1> HIDE DEF AllIdle
<1>4. QED
  BY <1>1, <1>2, <1>3, TypeCorrect, PTL DEF Spec
=============================================================================
