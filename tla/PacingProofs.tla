---------------------------- MODULE PacingProofs ----------------------------
(***************************************************************************)
(* Four more proofs about ParameterManager, for every set of elements, all *)
(* delays, limits and capacities: what CommandLog writes down keeps the    *)
(* retry count and the rate limit, a smoothed parameter never jumps, and   *)
(* while callbacks are not overtaken no pending target is forgotten.       *)
(*                                                                         *)
(* The log is related to the manager's own counters by Answering (a        *)
(* command that was not answered is a try that was counted) and Stamped    *)
(* (what was sent is an event).  SmoothMoves needs OnPath: what is pending is being smoothed, and the      *)
(* sequence stands where the device is believed to be.  NeverStranded needs*)
(* the timers: one that is tracked, and whose callback does not run, is    *)
(* armed, so that leaving an earlier deadline alone is safe.               *)
(***************************************************************************)
EXTENDS ParameterManagerProofs, CommandLog


(* What a device reports is a number.                                      *)
LEMMA ReportedNumber ==
    ASSUME NEW rep \in Reports, rep.what = "value"
    PROVE  rep.n \in Int /\ IntValue(rep.n) \in Value /\ IntValue(rep.n).kind = "int"
<1>1. rep \in [what : {"value"}, n : ReportVals]
  BY DEF Reports
<1>2. ReportVals \subseteq Int
  BY InputAssumption, ConfigAssumption
<1>3. QED
  BY <1>1, <1>2, ValueTypes DEF IntValue

(* Two payloads: the buffers of parameters that are never invalidated.     *)
HasPayloads(r) == r.current.kind = "int" /\ r.target.kind = "int"

(* A buffer that fell back is pending no more.                             *)
LEMMA FallenBack ==
    ASSUME NEW r \in Buffer, r.current.kind = "int"
    PROVE  /\ FallBack(r).current = r.current /\ FallBack(r).target = r.current
           /\ FallBack(r).smoothing = NotSmoothing /\ ~Pending(FallBack(r))
BY DEF FallBack, Buffer, Pending, Equal

-----------------------------------------------------------------------------
(* Smoothing.                                                              *)

SmoothedParameter ==
    /\ ControlStyle = "Normal" /\ FeedbackStyle = "NoFeedback" /\ MaxStep > 0
    /\ StepVals = {}
    /\ "ValuePassthrough" \notin Flags
    /\ "invalid" \notin ReportKinds

OnPath(r) ==
    /\ HasPayloads(r)
    /\ r.assumed \/ Pending(r) => r.smoothing.active
    /\ r.smoothing.active => r.smoothing.n = r.current.n

(* Reading such a buffer leaves it on its path.                            *)
LEMMA ReflagOnPath ==
    ASSUME NEW r \in Buffer, OnPath(r)
    PROVE  OnPath(Reflag(r))
<1>1. /\ Reflag(r).assumed = Pending(r) /\ Reflag(r).smoothing = r.smoothing
      /\ Reflag(r).current = r.current /\ Reflag(r).target = r.target
  BY ReflagFacts
<1>2. QED
  BY <1>1 DEF OnPath, HasPayloads, Pending

(* A settled buffer is on its path, wherever it is.                        *)
LEMMA SettledOnPath ==
    ASSUME NEW r, HasPayloads(r), r.assumed = FALSE, ~Pending(r), r.smoothing = NotSmoothing
    PROVE  OnPath(r)
BY DEF OnPath, NotSmoothing

(* A target starts a sequence where the device is believed to be.          *)
LEMMA SetOnPath ==
    ASSUME SmoothedParameter, TypeOK, NEW e \in Dims, OnPath(buf[e]),
           NEW n \in SetVals, SetValue(e, n)
    PROVE  OnPath(buf'[e])
<1> DEFINE r == buf[e]
           s == Retarget(r, IntValue(n))
<1>1. r \in Buffer /\ IntValue(n) \in Value /\ IntValue(n).kind = "int"
  BY InputAssumption, ValueTypes DEF TypeOK, IntValue
<1>2. s \in Buffer
  BY <1>1, RetargetType
<1>3. /\ s.current = r.current /\ s.target = IntValue(n)
      /\ s.smoothing = IF r.smoothing.active THEN r.smoothing
                       ELSE [active |-> TRUE, n |-> r.current.n]
  BY <1>1 DEF Retarget, Buffer, SmoothedParameter
<1>4. OnPath(s)
  BY <1>1, <1>3 DEF OnPath, HasPayloads
<1>5. buf'[e] = Reflag(s)
  BY DEF SetValue, TypeOK
<1> HIDE DEF s
<1>6. QED
  BY <1>2, <1>4, <1>5, ReflagOnPath

(* What the device reports ends the sequence.                              *)
LEMMA AbsorbOnPath ==
    ASSUME SmoothedParameter, NEW r \in Buffer, OnPath(r), NEW age \in Nat, NEW rep \in Reports
    PROVE  OnPath(Absorb(r, age, rep))
<1>1. CASE rep.what = "value"
  <2> DEFINE seen == [r EXCEPT !.current = IntValue(rep.n)]
             kept == FallBack(seen)
  <2>1. IntValue(rep.n) \in Value /\ IntValue(rep.n).kind = "int"
    BY <1>1, ReportedNumber
  <2>2. seen \in Buffer /\ seen.current.kind = "int"
    BY <2>1 DEF Buffer
  <2>3. Absorb(r, age, rep) = Marked(kept)
    BY <1>1 DEF Absorb, AbsorbValue, Adopted, SmoothedParameter
  <2> HIDE DEF seen
  <2>4. /\ kept \in Buffer /\ HasPayloads(kept) /\ kept.smoothing = NotSmoothing
        /\ ~Pending(kept)
    BY <2>2, FallBackType, FallenBack DEF HasPayloads
  <2> HIDE DEF kept
  <2>5. /\ Marked(kept).smoothing = NotSmoothing /\ Marked(kept).assumed = FALSE
        /\ Marked(kept).current = kept.current /\ Marked(kept).target = kept.target
    BY <2>4 DEF Marked, Buffer
  <2>6. QED
    BY <2>3, <2>4, <2>5, SettledOnPath DEF HasPayloads, Pending
<1>2. CASE rep.what = "available"
  <2> DEFINE s == [r EXCEPT !.available = rep.is]
  <2>1. rep.is \in BOOLEAN
    BY <1>2 DEF Reports
  <2>2. /\ s \in Buffer /\ s.current = r.current /\ s.target = r.target
        /\ s.assumed = r.assumed /\ s.smoothing = r.smoothing
    BY <2>1 DEF Buffer
  <2>3. Absorb(r, age, rep) = Reflag(s)
    BY <1>2 DEF Absorb
  <2> HIDE DEF s
  <2>4. OnPath(s)
    BY <2>2 DEF OnPath, HasPayloads, Pending
  <2>5. QED
    BY <2>2, <2>3, <2>4, ReflagOnPath
<1>3. CASE rep.what = "other"
  BY <1>3 DEF Absorb
<1>4. rep.what \in {"value", "available", "other"}
  BY DEF Reports, SmoothedParameter
<1>5. QED
  BY <1>1, <1>2, <1>3, <1>4

(* A step moves the sequence and the device together.                      *)
LEMMA StepOnPath ==
    ASSUME SmoothedParameter, TypeOK, NEW e \in Dims, OnPath(buf[e]), SendStep(e)
    PROVE  OnPath(buf'[e])
<1> DEFINE r == buf[e]
           s == Stepped(r)
<1>1. r \in Buffer /\ r.smoothing.active /\ r.target.kind = "int"
  BY DEF TypeOK, SendStep, MidSmoothing, OnPath, HasPayloads
<1>2. s \in Buffer /\ s.target = r.target /\ s.current = Step(r)
  BY <1>1, SentTypes DEF SmoothedParameter
<1>3. s.smoothing.active /\ s.smoothing.n = NextStep(r)
  BY <1>1 DEF Stepped, Buffer, Smoothing
<1>4. Step(r).kind = "int" /\ Step(r).n = NextStep(r)
  BY DEF Step
<1>5. OnPath(s)
  BY <1>1, <1>2, <1>3, <1>4 DEF OnPath, HasPayloads
<1>6. buf'[e] \in {s, Reflag(s)}
  BY SendStepType
<1> HIDE DEF s
<1>7. QED
  BY <1>2, <1>5, <1>6, ReflagOnPath

(* The target itself is the device's value at once.                        *)
LEMMA TargetOnPath ==
    ASSUME SmoothedParameter, TypeOK, NEW e \in Dims, OnPath(buf[e]), SendTarget(e)
    PROVE  OnPath(buf'[e])
<1> DEFINE s == Tried(buf[e])
<1>1. buf[e] \in Buffer /\ buf[e].target.kind = "int"
  BY DEF TypeOK, OnPath, HasPayloads
<1>2. s \in Buffer /\ s.target = buf[e].target
  BY <1>1, SentTypes
<1>3. s.smoothing = NotSmoothing
  <2>1. Reflag(buf[e]) \in Buffer
    BY <1>1, ReflagFacts
  <2>2. QED
    BY <2>1 DEF Tried, Buffer
<1>4. buf'[e] = Settle(s)
  BY SendTargetType DEF SmoothedParameter
<1> HIDE DEF s
<1>5. /\ Settle(s).current = s.target /\ Settle(s).target = s.target
      /\ Settle(s).assumed = FALSE /\ Settle(s).smoothing = NotSmoothing
  BY <1>2, <1>3 DEF Settle, Buffer
<1>6. HasPayloads(Settle(s)) /\ ~Pending(Settle(s))
  BY <1>1, <1>2, <1>5 DEF HasPayloads, Pending, Equal
<1>7. QED
  BY <1>4, <1>5, <1>6, SettledOnPath

(* Every step keeps every element on its path.                             *)
LEMMA PathStep ==
    ASSUME SmoothedParameter, TypeOK, TypeOK', \A d \in Dims : OnPath(buf[d]), [Next]_vars
    PROVE  \A d \in Dims : OnPath(buf'[d])
<1> SUFFICES ASSUME NEW e \in Dims PROVE OnPath(buf'[e])
  OBVIOUS
<1>0. buf[e] \in Buffer /\ OnPath(buf[e]) /\ sinceUpdate[e] \in Nat
  BY HorizonFacts DEF TypeOK
<1>1. CASE Untouched(e)
  BY <1>0, <1>1 DEF Untouched
<1>2. ASSUME NEW rep \in Reports, Absorbed(e, rep) PROVE OnPath(buf'[e])
  BY <1>0, <1>2, AbsorbOnPath DEF Absorbed
<1>3. CASE \E n \in SetVals : SetValue(e, n)
  BY <1>0, <1>3, SetOnPath
<1>4. CASE AcceptCurrent(e)
  <2> DEFINE s == FallBack(buf[e])
  <2>1. s \in Buffer /\ HasPayloads(s) /\ ~Pending(s) /\ s.smoothing = NotSmoothing
    BY <1>0, FallBackType, FallenBack DEF OnPath, HasPayloads
  <2>2. buf'[e] = Reflag(s)
    BY <1>4 DEF AcceptCurrent, TypeOK
  <2> HIDE DEF s
  <2>3. /\ Reflag(s) \in Buffer /\ Reflag(s).assumed = Pending(s)
        /\ Reflag(s).current = s.current /\ Reflag(s).target = s.target
        /\ Reflag(s).smoothing = NotSmoothing
    BY <2>1, ReflagFacts
  <2>4. Reflag(s).assumed = FALSE
    BY <2>1, <2>3 DEF Buffer
  <2>5. QED
    BY <2>1, <2>2, <2>3, <2>4, SettledOnPath DEF HasPayloads, Pending
<1>5. CASE Delay(e) \/ Read(e)
  BY <1>0, <1>5, DelayType, ReadResult, ReflagOnPath
<1>6. CASE SendStep(e) \/ SendTarget(e)
  BY <1>0, <1>6, StepOnPath, TargetOnPath
<1>7. ~GiveUp(e) /\ ~SendIncremental(e) /\ ~Withhold(e) /\ ~\E s \in StepVals : StepsApplied(e, s)
  BY DEF SmoothedParameter, GiveUp, Exhausted, HasRetryLimit, SendIncremental, Withhold
<1>8. QED
  BY <1>1, <1>2, <1>3, <1>4, <1>5, <1>6, <1>7, ElementStep DEF Moved

(* A step of the sequence, or its last one, is no longer than allowed.     *)
LEMMA ShortStep ==
    ASSUME NEW from \in Int, NEW to \in Int
    PROVE  /\ SmoothingStep(from, to) # to => SmoothingStep(from, to) - from \in (-MaxStep)..MaxStep
           /\ SmoothingStep(from, to) = to => to - from \in (-MaxStep)..MaxStep
<1>1. MaxStep \in Nat
  BY ConfigAssumption
<1>2. QED
  BY <1>1 DEF SmoothingStep

(* What is sent is one step from where the device is believed to be.       *)
LEMMA SmoothSend ==
    ASSUME SmoothedParameter, TypeOK, NEW e \in Dims, OnPath(buf[e]),
           SendStep(e) \/ SendTarget(e)
    PROVE  out'.dim = e /\ out'.value.n - buf[e].current.n \in (-MaxStep)..MaxStep
<1> DEFINE r == buf[e]
<1>1. /\ r \in Buffer /\ r.assumed = TRUE
      /\ r.smoothing.n \in Int /\ r.target.n \in Int
  BY DEF TypeOK, SendStep, SendTarget, MayAct, Buffer, Smoothing, Value
<1>2. r.smoothing.active /\ r.smoothing.n = r.current.n
  BY <1>1 DEF OnPath
<1>3. CASE SendStep(e)
  <2>1. out' = Command(e, "value", Step(r))
    BY <1>3 DEF SendStep, Step
  <2>2. out'.dim = e /\ out'.value.n = NextStep(r)
    BY <2>1 DEF Command, Step
  <2>3. NextStep(r) # r.target.n
    BY <1>3 DEF SendStep, MidSmoothing
  <2>4. QED
    BY <1>1, <1>2, <2>2, <2>3, ShortStep DEF NextStep
<1>4. CASE SendTarget(e)
  <2>1. out' = Command(e, "value", Tried(r).target)
    BY <1>4 DEF SendTarget, Tried
  <2>2. out'.dim = e /\ out'.value.n = r.target.n
    BY <1>1, <2>1, SentTypes DEF Command
  <2>3. NextStep(r) = r.target.n
    BY <1>2, <1>4 DEF SendTarget, MidSmoothing
  <2>4. QED
    BY <1>1, <1>2, <2>2, <2>3, ShortStep DEF NextStep
<1>5. QED
  BY <1>3, <1>4

(* Only the worker sends anything of such a parameter.                     *)
LEMMA OnlySends ==
    ASSUME SmoothedParameter, Next, out' # NoCommand
    PROVE  \E d \in Dims : SendStep(d) \/ SendTarget(d)
<1>1. ASSUME NEW d \in Dims, Process(d) PROVE SendStep(d) \/ SendTarget(d)
  BY <1>1 DEF Process, NothingPending, AcceptCurrent, Delay, GiveUp, Withhold, SendIncremental,
              SmoothedParameter
<1>2. ASSUME NEW d \in Dims, IngestTarget(d) PROVE FALSE
  BY <1>2 DEF IngestTarget, SmoothedParameter, SetUnavailable, SetValueIgnored,
              SetValuePassthrough, SetValue, SetCommand, Refuse
<1>3. QED
  BY <1>1, <1>2 DEF Next, Report, IngestCurrent, ExpireTimer, FinishCallback, Read, Tick

(* A smoothed NoFeedback parameter is never moved by more than its step,   *)
(* whatever clients set and the device reports in the middle of a          *)
(* sequence.                                                               *)
THEOREM SmoothMovesHolds ==
    ASSUME SmoothedParameter
    PROVE  Spec => SmoothMoves
<1> DEFINE AllOnPath == \A d \in Dims : OnPath(buf[d])
           Moves == \A d \in Dims : out' # NoCommand /\ out'.dim = d =>
                       out'.value.n - buf[d].current.n \in (-MaxStep)..MaxStep
<1>1. Init => AllOnPath
  BY DEF Init, InitialBuffer, OnPath, HasPayloads, Pending, Equal, NotSmoothing
<1>2. TypeOK /\ TypeOK' /\ AllOnPath /\ [Next]_vars => AllOnPath'
  BY PathStep
<1>3. TypeOK /\ AllOnPath /\ [Next]_vars => [Moves]_vars
  <2> SUFFICES ASSUME TypeOK, AllOnPath, Next, NEW d \in Dims, out' # NoCommand, out'.dim = d
               PROVE  out'.value.n - buf[d].current.n \in (-MaxStep)..MaxStep
    OBVIOUS
  <2>1. PICK e \in Dims : SendStep(e) \/ SendTarget(e)
    BY OnlySends
  <2>2. out'.dim = e /\ out'.value.n - buf[e].current.n \in (-MaxStep)..MaxStep
    BY <2>1, SmoothSend
  <2>3. QED
    BY <2>2
<1> HIDE DEF AllOnPath, Moves
<1>4. Spec => [][Moves]_vars
  BY <1>1, <1>2, <1>3, TypeCorrect, PTL DEF Spec
<1>5. QED
  BY <1>4 DEF Moves, SmoothMoves
-----------------------------------------------------------------------------
(* Waking.                                                                 *)

(* A parameter that is commanded, reports of numbers only, one element a   *)
(* message where a report may leave something pending, and no increments   *)
(* the manager keeps for itself: the inputs that do not stop a timer for   *)
(* nothing.                                                                *)
PlainInputs ==
    /\ ControlStyle \in {"Normal", "Incremental"}
    /\ "IncrementalPassthrough" \in Flags \/ NoStepAccepted
    /\ ReportKinds = {}
    /\ MaxBatch = 1 \/ FeedbackStyle = "NoFeedback"

(* A timer that is tracked and whose callback does not run is armed.       *)
Ready(w) == w.firing = 0 /\ w.tracked => w.left # Off

(* The worker will look at the element.                                    *)
Queued(q, e) == \E i \in 1..Len(q) : q[i] = e
Attended(e) == Queued(events, e) \/ Armed(wake[e])

Waking ==
    /\ \A d \in Dims : HasPayloads(buf[d])
    /\ \A d \in Dims : Ready(wake[d])
    /\ \A d \in Dims : buf[d].assumed => Attended(d)

(* Scheduling arms, cancelling forgets.                                    *)
LEMMA ScheduleArms ==
    ASSUME NEW w \in Wakeup, w.firing = 0, Ready(w), NEW t \in Nat
    PROVE  /\ Schedule(w, t).left # Off /\ Ready(Schedule(w, t))
           /\ Schedule(w, t).strays = w.strays
BY DEF Schedule, Ready, Wakeup, Off

(* Both at once arm as well.                                               *)
LEMMA CancelArms ==
    ASSUME NEW w \in Wakeup, w.firing = 0, NEW t \in Nat
    PROVE  /\ Ready(Cancel(w)) /\ Cancel(w).strays = w.strays
           /\ Schedule(Cancel(w), t).left # Off /\ Ready(Schedule(Cancel(w), t))
<1>1. Cancel(w) \in Wakeup /\ Cancel(w).firing = 0 /\ Cancel(w).tracked = FALSE
      /\ Cancel(w).strays = w.strays
  BY DEF Cancel, Wakeup, Off
<1>2. Ready(Cancel(w))
  BY <1>1 DEF Ready
<1>3. QED
  BY <1>1, <1>2, ScheduleArms

(* Time and the second half of a callback keep what is armed armed.        *)
LEMMA StaysArmed ==
    ASSUME NEW w \in Wakeup
    PROVE  /\ Ready(w) => Ready(Elapsed(w))
           /\ Armed(w) => Armed(Elapsed(w))
           /\ w.firing > 0 => Ready(Forgotten(w))
           /\ w.firing > 0 /\ Armed(w) => Armed(Forgotten(w))
<1>1. /\ w.end \in Nat /\ w.left \in Nat \cup {Off}
      /\ w.firing \in Nat /\ w.strays \in Nat
  BY DEF Wakeup
<1>2. /\ Elapsed(w).left = (IF w.left > 0 THEN w.left - 1 ELSE w.left)
      /\ Elapsed(w).tracked = w.tracked /\ Elapsed(w).firing = w.firing
      /\ Elapsed(w).strays = w.strays
  BY DEF Elapsed, Wakeup
<1>3. Elapsed(w).left # Off <=> w.left # Off
  BY <1>1, <1>2 DEF Off
<1>4. /\ Forgotten(w).tracked = FALSE /\ Forgotten(w).left = Off
      /\ Forgotten(w).strays = IF w.left # Off THEN w.strays + 1 ELSE w.strays
  <2> DEFINE c == Cancel(w)
             s == IF w.left # Off THEN w.strays + 1 ELSE w.strays
  <2>1. c \in Wakeup /\ c.tracked = FALSE /\ c.left = Off /\ c.firing = w.firing
        /\ c.strays = w.strays
    BY DEF Cancel, Wakeup, Off
  <2>2. Forgotten(w) = [c EXCEPT !.firing = w.firing - 1, !.strays = s]
    BY <2>1 DEF Forgotten
  <2> HIDE DEF c
  <2>3. QED
    BY <2>1, <2>2 DEF Wakeup
<1>5. Ready(w) => Ready(Elapsed(w))
  BY <1>2, <1>3 DEF Ready
<1>6. Armed(w) => Armed(Elapsed(w))
  BY <1>2, <1>3 DEF Armed
<1>7. Ready(Forgotten(w))
  BY <1>4 DEF Ready
<1>8. Armed(w) => Armed(Forgotten(w))
  <2>1. w.left # Off => w.strays + 1 > 0
    BY <1>1
  <2>2. QED
    BY <1>4, <2>1 DEF Armed
<1>9. QED
  BY <1>5, <1>6, <1>7, <1>8

(* While the channel does not fill, everything posted enters it.           *)
LEMMA PostEnters ==
    ASSUME NEW q \in Seq(Dims), NEW s \in Seq(Dims), Len(Post(q, s)) < QueueCap
    PROVE  \A e : Queued(Post(q, s), e) <=> Queued(q, e) \/ Queued(s, e)
<1> DEFINE all == q \o s
           n == IF Len(all) <= QueueCap THEN Len(all) ELSE QueueCap
<1>1. all \in Seq(Dims) /\ Len(all) \in Nat /\ Len(q) \in Nat /\ Len(s) \in Nat
  BY LenProperties
<1>2. n \in 0..Len(all) /\ QueueCap \in Nat
  BY <1>1, InputAssumption
<1>3. Len(SubSeq(all, 1, n)) = n
  BY <1>1, <1>2, SubSeqProperties
<1>4. n = Len(all)
  BY <1>1, <1>2, <1>3 DEF Post
<1>5. /\ Len(all) = Len(q) + Len(s)
      /\ \A i \in 1..Len(all) : all[i] = IF i <= Len(q) THEN q[i] ELSE s[i - Len(q)]
  BY ConcatProperties
<1>6. Len(Post(q, s)) = Len(all) /\ \A i \in 1..Len(all) : Post(q, s)[i] = all[i]
  BY <1>1, <1>2, <1>3, <1>4, SubSeqProperties DEF Post
<1> HIDE DEF all, n
<1>7. ASSUME NEW e, Queued(s, e) PROVE Queued(Post(q, s), e)
  <2>1. PICK j \in 1..Len(s) : s[j] = e
    BY <1>7 DEF Queued
  <2>2. /\ Len(q) + j \in 1..Len(all) /\ ~(Len(q) + j <= Len(q))
        /\ (Len(q) + j) - Len(q) = j
    BY <1>1, <1>5
  <2>3. all[Len(q) + j] = e
    BY <1>5, <2>1, <2>2
  <2>4. QED
    BY <1>6, <2>2, <2>3 DEF Queued
<1>8. ASSUME NEW e, Queued(q, e) PROVE Queued(Post(q, s), e)
  <2>1. PICK j \in 1..Len(q) : q[j] = e
    BY <1>8 DEF Queued
  <2>2. j \in 1..Len(all) /\ j <= Len(q)
    BY <1>1, <1>5
  <2>3. QED
    BY <1>5, <1>6, <2>1, <2>2 DEF Queued
<1>9. ASSUME NEW e, Queued(Post(q, s), e) PROVE Queued(q, e) \/ Queued(s, e)
  <2>1. PICK i \in 1..Len(all) : all[i] = e
    BY <1>6, <1>9 DEF Queued
  <2>2. CASE i <= Len(q)
    BY <1>1, <1>5, <2>1, <2>2 DEF Queued
  <2>3. CASE ~(i <= Len(q))
    <3>1. i - Len(q) \in 1..Len(s) /\ s[i - Len(q)] = e
      BY <1>1, <1>5, <2>1, <2>3
    <3>2. QED
      BY <3>1 DEF Queued
  <2>4. QED
    BY <2>2, <2>3
<1>10. QED
  BY <1>7, <1>8, <1>9

(* Taking an element's event leaves the others theirs.                     *)
LEMMA TakeLeaves ==
    ASSUME TypeOK, NEW d \in Dims, Take(d), NEW e, e # d, Queued(events, e)
    PROVE  Queued(events', e)
<1>1. /\ events \in Seq(Dims) /\ events # <<>> /\ events' = Tail(events)
      /\ Head(events) = d
  BY DEF Take, TypeOK
<1>2. /\ Len(events') = Len(events) - 1 /\ Len(events) \in Nat \ {0} /\ events[1] = d
      /\ \A i \in 1..Len(events') : events'[i] = events[i + 1]
  BY <1>1, HeadTailProperties, LenProperties, EmptySeq
<1>3. PICK i \in 1..Len(events) : events[i] = e
  BY DEF Queued
<1>4. i - 1 \in 1..Len(events') /\ (i - 1) + 1 = i
  BY <1>2, <1>3
<1>5. events'[i - 1] = e
  BY <1>2, <1>3, <1>4
<1>6. QED
  BY <1>4, <1>5 DEF Queued

(* What falls back settles, whether accepted or given up.                  *)
LEMMA SettledNow ==
    ASSUME NEW r \in Buffer, HasPayloads(r)
    PROVE  /\ HasPayloads(Reflag(FallBack(r))) /\ Reflag(FallBack(r)).assumed = FALSE
           /\ LET g == [FallBack(r) EXCEPT !.tryCount = 0]
              IN HasPayloads(Reflag(g)) /\ Reflag(g).assumed = FALSE
<1> DEFINE f == FallBack(r)
           g == [f EXCEPT !.tryCount = 0]
<1>1. f \in Buffer /\ HasPayloads(f) /\ ~Pending(f)
  BY FallBackType, FallenBack DEF HasPayloads
<1> HIDE DEF f
<1>2. g \in Buffer /\ HasPayloads(g) /\ ~Pending(g)
  BY <1>1 DEF Buffer, HasPayloads, Pending
<1> HIDE DEF g
<1>3. ASSUME NEW b \in Buffer, HasPayloads(b), ~Pending(b)
      PROVE  HasPayloads(Reflag(b)) /\ Reflag(b).assumed = FALSE
  BY <1>3, ReflagFacts DEF HasPayloads, Buffer
<1>4. QED
  BY <1>1, <1>2, <1>3 DEF f, g

(* Rescheduling arms the element's timer and touches no other.             *)
LEMMA RescheduleArms ==
    ASSUME TypeOK, Calm, Waking, NEW d \in Dims, NEW r \in Buffer, NEW t \in Nat,
           Reschedule(d, r, t)
    PROVE  /\ Armed(wake'[d]) /\ \A e \in Dims : Ready(wake'[e])
           /\ \A e \in Dims : e # d => wake'[e] = wake[e]
<1>1. wake[d] \in Wakeup /\ wake[d].firing = 0 /\ Ready(wake[d])
  BY DEF TypeOK, Calm, Waking
<1>2. Schedule(wake[d], t).left # Off /\ Ready(Schedule(wake[d], t))
  BY <1>1, ScheduleArms
<1>3. wake' = [wake EXCEPT ![d] = Schedule(wake[d], t)] /\ DOMAIN wake = Dims
  BY DEF Reschedule, TypeOK
<1>4. wake'[d] = Schedule(wake[d], t) /\ \A e \in Dims : e # d => wake'[e] = wake[e]
  BY <1>3
<1>5. QED
  BY <1>2, <1>4 DEF Armed, Waking

(* An element the worker has looked at is settled or armed.                *)
LEMMA ProcessAttends ==
    ASSUME PlainInputs, TypeOK, Calm, Waking, NEW d \in Dims, Process(d)
    PROVE  /\ HasPayloads(buf'[d])
           /\ buf'[d].assumed => Armed(wake'[d])
           /\ \A e \in Dims : Ready(wake'[e])
           /\ \A e \in Dims : e # d => wake'[e] = wake[e] /\ buf'[e] = buf[e]
           /\ Take(d)
<1> DEFINE r == buf[d]
<1>1. /\ r \in Buffer /\ HasPayloads(r) /\ buf \in [Dims -> Buffer]
      /\ sinceUpdate[d] \in Nat /\ sinceEvent \in Nat
  BY HorizonFacts DEF TypeOK, Waking
<1>2. CASE NothingPending(d)
  BY <1>1, <1>2 DEF NothingPending, Waking
<1>3. CASE AcceptCurrent(d) \/ GiveUp(d)
  <2>1. /\ buf'[d] \in {Reflag(FallBack(r)), Reflag([FallBack(r) EXCEPT !.tryCount = 0])}
        /\ \A e \in Dims : e # d => buf'[e] = buf[e]
        /\ wake' = wake /\ Take(d)
    BY <1>1, <1>3 DEF AcceptCurrent, GiveUp, MayAct
  <2>2. HasPayloads(buf'[d]) /\ buf'[d].assumed = FALSE
    BY <1>1, <2>1, SettledNow
  <2>3. QED
    BY <2>1, <2>2 DEF Waking
<1>4. CASE Delay(d)
  <2>1. \E t \in Nat : Reschedule(d, r, t)
    BY <1>1, <1>4, ConfigAssumption, InputAssumption DEF Delay, Limited, TooSoon, InQuarantine
  <2>2. buf'[d] \in {r, Reflag(r)} /\ \A e \in Dims : e # d => buf'[e] = buf[e]
    BY <1>1, <1>4, DelayType
  <2>3. HasPayloads(buf'[d])
    BY <1>1, <2>2, ReflagFacts DEF HasPayloads
  <2>4. Take(d)
    BY <1>4 DEF Delay
  <2>5. QED
    BY <1>1, <2>1, <2>2, <2>3, <2>4, RescheduleArms
<1>5. CASE SendStep(d)
  <2>1. Reschedule(d, Stepped(r), ControlDelay) /\ Take(d)
    BY <1>5 DEF SendStep, MayAct, Stepped, Step
  <2>2. /\ buf'[d] \in {Stepped(r), Reflag(Stepped(r))}
        /\ \A e \in Dims : e # d => buf'[e] = buf[e]
    BY <1>1, <1>5, SendStepType
  <2>3. Stepped(r) \in Buffer /\ HasPayloads(Stepped(r))
    <3>1. Step(r).kind = "int"
      BY DEF Step
    <3>2. QED
      BY <1>1, <3>1, SentTypes DEF HasPayloads
  <2>4. HasPayloads(buf'[d])
    BY <2>2, <2>3, ReflagFacts DEF HasPayloads
  <2>5. ControlDelay \in Nat
    BY ConfigAssumption
  <2>6. QED
    BY <2>1, <2>2, <2>3, <2>4, <2>5, RescheduleArms
<1>6. CASE SendTarget(d)
  <2> DEFINE s == Tried(r)
  <2>1. s \in Buffer /\ HasPayloads(s)
    BY <1>1, SentTypes DEF HasPayloads
  <2>2. Take(d) /\ \A e \in Dims : e # d => buf'[e] = buf[e]
    BY <1>1, <1>6, SendTargetType DEF SendTarget, MayAct
  <2>3. CASE FeedbackStyle = "NoFeedback"
    <3>1. buf'[d] = Settle(s) /\ wake' = wake
      BY <1>6, <2>3, SendTargetType DEF SendTarget
    <3> HIDE DEF s
    <3>2. HasPayloads(Settle(s)) /\ Settle(s).assumed = FALSE
      BY <2>1 DEF Settle, HasPayloads, Buffer
    <3>3. QED
      BY <2>2, <3>1, <3>2 DEF Waking
  <2>4. CASE FeedbackStyle # "NoFeedback"
    <3>1. ControlDelay \in Nat \ {0}
      BY <2>4, ConfigAssumption DEF PlainInputs
    <3>2. Reschedule(d, s, ControlDelay + 1)
      BY <1>6, <2>4, <3>1 DEF SendTarget, Tried
    <3>3. buf'[d] \in {s, Reflag(s)}
      BY <1>6, <2>4, SendTargetType
    <3> HIDE DEF s
    <3>4. HasPayloads(buf'[d])
      BY <2>1, <3>3, ReflagFacts DEF HasPayloads
    <3>5. QED
      BY <2>1, <2>2, <3>1, <3>2, <3>4, RescheduleArms
  <2>5. QED
    BY <2>3, <2>4
<1>7. CASE SendIncremental(d)
  <2> DEFINE s == Counted(r)
  <2>1. Reschedule(d, s, ControlDelay) /\ Take(d)
    BY <1>7 DEF SendIncremental, MayAct, Counted
  <2>2. s \in Buffer /\ HasPayloads(s)
    BY <1>1, SentTypes DEF HasPayloads
  <2>3. /\ buf'[d] \in {s, Reflag(s)}
        /\ \A e \in Dims : e # d => buf'[e] = buf[e]
    BY <1>1, <1>7, SendIncrementalType
  <2> HIDE DEF s
  <2>4. HasPayloads(buf'[d])
    BY <2>2, <2>3, ReflagFacts DEF HasPayloads
  <2>5. ControlDelay \in Nat
    BY ConfigAssumption
  <2>6. QED
    BY <2>1, <2>2, <2>3, <2>4, <2>5, RescheduleArms
<1>8. ~Withhold(d)
  BY DEF PlainInputs, Withhold
<1>9. QED
  BY <1>2, <1>3, <1>4, <1>5, <1>6, <1>7, <1>8 DEF Process

(* A report's element is posted, or looked at when its delay is over.      *)
LEMMA ReportAttends ==
    ASSUME PlainInputs, TypeOK, Calm, Waking, Report, Len(events') < QueueCap
    PROVE  Waking'
<1>1. PICK rep \in Messages : \E again \in SetToSeqs(Reprocess(rep)) :
          \E n \in 0..Len(again) : IngestCurrent(rep, again, n)
  BY DEF Report
<1>2. PICK again \in SetToSeqs(Reprocess(rep)) :
          \E n \in 0..Len(again) : IngestCurrent(rep, again, n)
  BY <1>1
<1>3. PICK n \in 0..Len(again) : IngestCurrent(rep, again, n)
  BY <1>2
<1> DEFINE posted == SubSeq(again, 1, n)
<1>4. /\ buf' = [d \in Dims |-> IF d \in Touched(rep) THEN Absorb(buf[d], sinceUpdate[d], rep[d])
                               ELSE buf[d]]
      /\ wake' = [d \in Dims |-> Rescheduled(rep, again, n, d)]
      /\ events' = Post(events, posted)
      /\ LoopPosts(again, n)
  BY <1>3 DEF IngestCurrent
<1>5. \A d \in DOMAIN rep : d \in Dims /\ rep[d] \in Reports /\ rep[d].what = "value"
  BY MessageFacts DEF Reports, PlainInputs
<1>6. again \in Seq(Dims) /\ posted \in Seq(Dims) /\ events \in Seq(Dims)
  BY ReprocessType DEF TypeOK
<1>7. \A e : Queued(events', e) <=> Queued(events, e) \/ Queued(posted, e)
  BY <1>4, <1>6, PostEnters
<1>8. ASSUME NEW e \in Dims
      PROVE  /\ HasPayloads(buf'[e])
             /\ e \in Touched(rep) /\ FeedbackStyle = "NoFeedback" => ~buf'[e].assumed
  <2>1. buf[e] \in Buffer /\ sinceUpdate[e] \in Nat /\ HasPayloads(buf[e])
    BY HorizonFacts DEF TypeOK, Waking
  <2>2. CASE e \in Touched(rep)
    <3>1. rep[e] \in Reports /\ rep[e].what = "value"
      BY <1>5, <2>2 DEF Touched
    <3> DEFINE v == IntValue(rep[e].n)
               seen == [buf[e] EXCEPT !.current = v]
               kept == Adopted(seen, sinceUpdate[e])
    <3>2. v \in Value /\ v.kind = "int"
      BY <3>1, ReportedNumber
    <3> HIDE DEF v
    <3>3. seen \in Buffer /\ HasPayloads(seen)
      BY <2>1, <3>2 DEF Buffer, HasPayloads
    <3>4. Absorb(buf[e], sinceUpdate[e], rep[e]) = Marked(kept)
      BY <3>1 DEF Absorb, AbsorbValue, v
    <3> HIDE DEF seen
    <3>5. kept \in Buffer /\ HasPayloads(kept)
      BY <2>1, <3>3, AdoptedFacts DEF HasPayloads
    <3> HIDE DEF kept
    <3>6. HasPayloads(Marked(kept))
      BY <3>5, MarkedFacts DEF HasPayloads
    <3>7. FeedbackStyle = "NoFeedback" => ~Marked(kept).assumed
      <4>1. SUFFICES ASSUME FeedbackStyle = "NoFeedback" PROVE ~Marked(kept).assumed
        OBVIOUS
      <4>2. kept = FallBack(seen)
        BY <4>1 DEF Adopted, kept
      <4>3. kept.target = kept.current
        BY <3>3, <4>2, FallBackType
      <4>4. ~Pending(Marked(kept))
        BY <3>5, <3>6, <4>3, MarkedFacts DEF HasPayloads, Pending, Equal
      <4>5. QED
        BY <3>5, <4>4, MarkedFacts
    <3>8. QED
      BY <1>4, <2>2, <3>4, <3>6, <3>7
  <2>3. CASE e \notin Touched(rep)
    BY <1>4, <2>1, <2>3
  <2>4. QED
    BY <2>2, <2>3
<1>9. ASSUME NEW e \in Dims
      PROVE  /\ Ready(wake'[e])
             /\ e \notin Touched(rep) => wake'[e] = wake[e] /\ buf'[e] = buf[e]
             /\ e \in Touched(rep) =>
                    \/ Queued(posted, e) \/ Armed(wake'[e])
                    \/ FeedbackStyle = "NoFeedback"
  <2>1. wake[e] \in Wakeup /\ wake[e].firing = 0 /\ Ready(wake[e]) /\ sinceUpdate[e] \in Nat
    BY HorizonFacts DEF TypeOK, Calm, Waking
  <2>2. wake'[e] = Rescheduled(rep, again, n, e)
    BY <1>4
  <2>3. CASE e \notin Touched(rep)
    BY <1>4, <2>1, <2>2, <2>3 DEF Rescheduled
  <2>4. CASE e \in Touched(rep) /\ Held(rep, e)
    <3>1. QuarantineDelay - sinceUpdate[e] \in Nat
      BY <2>1, <2>4, ConfigAssumption DEF Held, Quarantined
    <3>2. wake'[e] = Schedule(Cancel(wake[e]), QuarantineDelay - sinceUpdate[e])
      BY <2>2, <2>4 DEF Rescheduled
    <3>3. QED
      BY <2>1, <2>4, <3>1, <3>2, CancelArms DEF Armed
  <2>5. CASE e \in Touched(rep) /\ ~Held(rep, e) /\ StopsAt(again, n, e)
    <3>1. TooSoon(e)
      BY <1>4, <2>5 DEF StopsAt, LoopPosts
    <3>2. ControlDelay - sinceUpdate[e] \in Nat
      BY <2>1, <3>1, ConfigAssumption DEF TooSoon
    <3>3. wake'[e] = Schedule(Cancel(wake[e]), ControlDelay - sinceUpdate[e])
      BY <2>2, <2>5 DEF Rescheduled
    <3>4. QED
      BY <2>1, <2>5, <3>2, <3>3, CancelArms DEF Armed
  <2>6. CASE e \in Touched(rep) /\ ~Held(rep, e) /\ ~StopsAt(again, n, e)
    <3>1. wake'[e] = Cancel(wake[e]) /\ Ready(wake'[e])
      BY <2>1, <2>2, <2>6, CancelArms DEF Rescheduled
    <3>2. CASE FeedbackStyle = "NoFeedback"
      BY <2>6, <3>1, <3>2
    <3>3. CASE MaxBatch = 1
      <4>1. e \in Reprocess(rep)
        BY <1>5, <2>6 DEF Reprocess, Touched
      <4>2. PICK E \in SUBSET Dims : Cardinality(E) \in 1..MaxBatch /\ rep \in [E -> Reports]
        BY DEF Messages
      <4>3. Cardinality(E) = 1 /\ IsFiniteSet(E)
        BY <3>3, <4>2, InputAssumption, FS_Subset
      <4>4. PICK x : E = {x}
        BY <4>3, FS_Singleton
      <4>5. Reprocess(rep) = {e}
        BY <4>1, <4>2, <4>4 DEF Reprocess, Touched
      <4>6. Cardinality({e}) = 1
        BY FS_Singleton
      <4>7. again \in [1..1 -> {e}]
        BY <4>5, <4>6 DEF SetToSeqs
      <4>8. Len(again) = 1 /\ again[1] = e
        BY <1>6, <4>7
      <4>9. n = 1
        BY <2>6, <4>8 DEF StopsAt
      <4>10. Len(posted) = 1 /\ posted[1] = e
        BY <1>6, <4>8, <4>9, SubSeqProperties
      <4>11. Queued(posted, e)
        BY <4>10 DEF Queued
      <4>12. QED
        BY <2>6, <3>1, <4>11
    <3>4. QED
      BY <3>2, <3>3 DEF PlainInputs
  <2>7. QED
    BY <2>3, <2>4, <2>5, <2>6
<1>10. ASSUME NEW e \in Dims, buf'[e].assumed
       PROVE  Attended(e)'
  <2>1. CASE e \in Touched(rep)
    BY <1>7, <1>8, <1>9, <1>10, <2>1 DEF Attended
  <2>2. CASE e \notin Touched(rep)
    BY <1>7, <1>9, <1>10, <2>2 DEF Attended, Waking
  <2>3. QED
    BY <2>1, <2>2
<1>11. QED
  BY <1>8, <1>9, <1>10 DEF Waking

(* What only touches one element's event, timer or mark.                   *)
LEMMA SmallStepsAttend ==
    ASSUME PlainInputs, TypeOK, AssumedCoherent, Calm, Waking, NEW d \in Dims,
           ExpireTimer(d) \/ Read(d), Len(events') < QueueCap
    PROVE  Waking'
<1>1. /\ buf \in [Dims -> Buffer] /\ wake \in [Dims -> Wakeup] /\ events \in Seq(Dims)
      /\ <<d>> \in Seq(Dims)
  BY DEF TypeOK
<1>2. CASE ExpireTimer(d)
  <2>1. /\ buf' = buf /\ events' = Post(events, <<d>>)
        /\ wake' = [wake EXCEPT ![d] = Fired(@)] \/ wake' = [wake EXCEPT ![d] = StrayFired(@)]
    BY <1>2 DEF ExpireTimer
  <2>2. \A e : Queued(events', e) <=> Queued(events, e) \/ Queued(<<d>>, e)
    BY <1>1, <2>1, PostEnters
  <2>3. Queued(<<d>>, d)
    BY DEF Queued
  <2>4. wake[d].firing \in Nat /\ wake'[d].firing = wake[d].firing + 1
    BY <1>1, <2>1 DEF Fired, StrayFired, Wakeup
  <2>5. wake'[d].firing # 0
    BY <2>4
  <2>6. \A e \in Dims : e # d => wake'[e] = wake[e]
    BY <1>1, <2>1
  <2>7. \A e \in Dims : Ready(wake'[e])
    BY <2>5, <2>6 DEF Ready, Waking
  <2>8. QED
    BY <2>1, <2>2, <2>3, <2>6, <2>7 DEF Waking, Attended
<1>3. CASE Read(d)
  <2>1. /\ buf' = [buf EXCEPT ![d] = Reflag(@)] /\ wake' = wake /\ events' = events
    BY <1>3 DEF Read
  <2>2. buf[d] \in Buffer /\ HasPayloads(buf[d])
    BY <1>1 DEF Waking
  <2>3. buf[d].assumed = Pending(buf[d])
    BY <2>2 DEF AssumedCoherent, PlainInputs, HasPayloads
  <2>4. HasPayloads(Reflag(buf[d])) /\ Reflag(buf[d]).assumed = buf[d].assumed
    BY <2>2, <2>3, ReflagFacts DEF HasPayloads
  <2>5. \A e \in Dims : HasPayloads(buf'[e]) /\ buf'[e].assumed = buf[e].assumed
    BY <1>1, <2>1, <2>4 DEF Waking
  <2>6. QED
    BY <2>1, <2>5 DEF Waking, Attended
<1>4. QED
  BY <1>2, <1>3

(* Every step of the prompt system leaves every pending element attended.  *)
LEMMA WakingStep ==
    ASSUME PlainInputs, TypeOK, AssumedCoherent, Waking, [PromptNext]_vars
    PROVE  Waking'
<1>0. /\ buf \in [Dims -> Buffer] /\ wake \in [Dims -> Wakeup] /\ events \in Seq(Dims)
  BY DEF TypeOK
<1>1. CASE UNCHANGED <<buf, wake, events>>
  BY <1>1 DEF Waking, Attended
<1>2. ASSUME NEW d \in Dims, FinishCallback(d)
      PROVE  Waking'
  <2>1. /\ wake[d].firing > 0 /\ wake' = [wake EXCEPT ![d] = Forgotten(@)]
        /\ buf' = buf /\ events' = events
    BY <1>2 DEF FinishCallback
  <2>2. /\ Ready(Forgotten(wake[d]))
        /\ Armed(wake[d]) => Armed(Forgotten(wake[d]))
    BY <1>0, <2>1, StaysArmed
  <2>3. ASSUME NEW e \in Dims
        PROVE  Ready(wake'[e]) /\ (Armed(wake[e]) => Armed(wake'[e]))
    <3>1. wake'[e] = IF e = d THEN Forgotten(wake[d]) ELSE wake[e]
      BY <1>0, <2>1
    <3>2. CASE e = d
      BY <2>2, <3>1, <3>2
    <3>3. CASE e # d
      BY <3>1, <3>3 DEF Waking
    <3>4. QED
      BY <3>2, <3>3
  <2>4. QED
    BY <2>1, <2>3 DEF Waking, Attended
<1>3. CASE Tick
  <2>1. \A e \in Dims : wake'[e] = Elapsed(wake[e]) /\ wake[e] \in Wakeup
    BY <1>0, <1>3 DEF Tick
  <2>2. \A e \in Dims : Ready(wake'[e]) /\ (Armed(wake[e]) => Armed(wake'[e]))
    BY <2>1, StaysArmed DEF Waking
  <2>3. UNCHANGED <<buf, events>>
    BY <1>3 DEF Tick
  <2>4. QED
    BY <2>2, <2>3 DEF Waking, Attended
<1>4. ASSUME NEW d \in Dims, NEW n \in SetVals, SetValue(d, n), Len(events') < QueueCap
      PROVE  Waking'
  <2> DEFINE s == Retarget(buf[d], IntValue(n))
  <2>1. /\ buf' = [buf EXCEPT ![d] = Reflag(s)] /\ events' = Post(events, <<d>>) /\ wake' = wake
    BY <1>4 DEF SetValue
  <2>2. /\ buf[d] \in Buffer /\ HasPayloads(buf[d]) /\ IntValue(n) \in Value
        /\ IntValue(n).kind = "int" /\ <<d>> \in Seq(Dims)
    BY <1>0, InputAssumption, ValueTypes DEF Waking, IntValue
  <2>3. s \in Buffer
    BY <2>2, RetargetType
  <2>4. HasPayloads(s)
    BY <2>2 DEF Retarget, Buffer, HasPayloads
  <2> HIDE DEF s
  <2>5. HasPayloads(Reflag(s))
    BY <2>3, <2>4, ReflagFacts DEF HasPayloads
  <2>6. \A e \in Dims : HasPayloads(buf'[e]) /\ (e # d => buf'[e] = buf[e])
    BY <1>0, <2>1, <2>5 DEF Waking
  <2>7. \A e : Queued(events', e) <=> Queued(events, e) \/ Queued(<<d>>, e)
    BY <1>0, <1>4, <2>1, <2>2, PostEnters
  <2>8. Queued(<<d>>, d)
    BY DEF Queued
  <2>9. QED
    BY <2>1, <2>6, <2>7, <2>8 DEF Waking, Attended
<1>5. ASSUME Calm, NEW d \in Dims, Process(d)
      PROVE  Waking'
  <2>1. /\ HasPayloads(buf'[d]) /\ (buf'[d].assumed => Armed(wake'[d]))
        /\ \A e \in Dims : Ready(wake'[e])
        /\ \A e \in Dims : e # d => wake'[e] = wake[e] /\ buf'[e] = buf[e]
        /\ Take(d)
    BY <1>5, ProcessAttends
  <2>2. \A e \in Dims : e # d /\ Queued(events, e) => Queued(events', e)
    BY <2>1, TakeLeaves
  <2>3. ASSUME NEW e \in Dims
        PROVE  HasPayloads(buf'[e]) /\ (buf'[e].assumed => Attended(e)')
    <3>1. CASE e = d
      BY <2>1, <3>1 DEF Attended
    <3>2. CASE e # d
      BY <2>1, <2>2, <3>2 DEF Attended, Waking
    <3>3. QED
      BY <3>1, <3>2
  <2>4. QED
    BY <2>1, <2>3 DEF Waking
<1>6. ASSUME NEW d \in Dims, IngestTarget(d)
      PROVE  UNCHANGED <<buf, wake, events>> \/ \E n \in SetVals : SetValue(d, n)
  BY <1>6 DEF IngestTarget, PlainInputs, NoStepAccepted, SetUnavailable, SetValueIgnored,
              SetValuePassthrough, StepsRefused, StepsForwarded, StepsApplied, SetCommand,
              Refuse, Forward
<1>7. CASE PromptNext
  <2>1. /\ Next /\ Len(events') < QueueCap
        /\ Calm \/ \E d \in Dims : FinishCallback(d)
    BY <1>7 DEF PromptNext
  <2>2. CASE \E d \in Dims : FinishCallback(d)
    BY <1>2, <2>2
  <2>3. CASE Calm
    <3>1. ASSUME NEW d \in Dims, ExpireTimer(d) \/ Read(d) PROVE Waking'
      BY <2>1, <2>3, <3>1, SmallStepsAttend
    <3>2. CASE Report
      BY <2>1, <2>3, <3>2, ReportAttends
    <3>3. ASSUME NEW d \in Dims, IngestTarget(d) PROVE Waking'
      BY <1>1, <1>4, <1>6, <2>1, <3>3
    <3>4. QED
      BY <1>2, <1>3, <1>5, <2>1, <2>3, <3>1, <3>2, <3>3 DEF Next
  <2>4. QED
    BY <2>1, <2>2, <2>3
<1>8. QED
  BY <1>1, <1>7 DEF vars

(* As long as callbacks are not overtaken and the channel does not fill,   *)
(* no target that a client set and the device has not confirmed is ever    *)
(* forgotten: the worker has its event, or a timer will post it.           *)
THEOREM NeverStrandedHolds ==
    ASSUME PlainInputs
    PROVE  PromptSpec => []NeverStranded
<1>1. Init => Waking
  <2>1. HasPayloads(InitialBuffer(DefaultValid)) /\ InitialBuffer(DefaultValid).assumed = FALSE
    BY DEF InitialBuffer, HasPayloads
  <2>2. Ready(NoWakeup)
    BY DEF Ready, NoWakeup
  <2>3. QED
    BY <2>1, <2>2 DEF Init, Waking
<1>2. TypeOK /\ AssumedCoherent /\ Waking /\ [PromptNext]_vars => Waking'
  BY WakingStep
<1>3. TypeOK /\ Waking => NeverStranded
  <2> SUFFICES ASSUME TypeOK, Waking, NEW e \in Dims, buf[e].assumed
               PROVE  e \in Range(events) \/ Armed(wake[e])
    BY DEF NeverStranded
  <2>1. Range(events) = {events[i] : i \in 1..Len(events)}
    BY RangeEquality DEF TypeOK
  <2>2. QED
    BY <2>1 DEF Waking, Attended, Queued
<1>4. [PromptNext]_vars => [Next]_vars
  BY DEF PromptNext
<1>5. PromptSpec => Spec
  BY <1>4, PTL DEF PromptSpec, Spec
<1>6. PromptSpec => []TypeOK /\ []AssumedCoherent
  BY <1>5, TypeCorrect, MarkIsCoherent, PTL
<1>7. QED
  BY <1>1, <1>2, <1>3, <1>6, PTL DEF PromptSpec

-----------------------------------------------------------------------------
(* A log changes nothing.                                                  *)
LEMMA LoggedIsSpec == LoggedSpec => Spec
<1>1. LoggedInit => Init
  BY DEF LoggedInit
<1>2. [Next /\ Log]_logged => [Next]_vars
  BY DEF logged
<1>3. QED
  BY <1>1, <1>2, PTL DEF LoggedSpec, Spec

(* Who sends, and for which element.                                       *)
LEMMA Senders ==
    ASSUME Next, WorkerSends
    PROVE  \E d \in Dims : (SendStep(d) \/ SendTarget(d) \/ SendIncremental(d)) /\ out'.dim = d
<1>1. ASSUME NEW d \in Dims, Process(d)
      PROVE  (SendStep(d) \/ SendTarget(d) \/ SendIncremental(d)) /\ out'.dim = d
  <2>1. SendStep(d) \/ SendTarget(d) \/ SendIncremental(d)
    BY <1>1 DEF Process, NothingPending, AcceptCurrent, Delay, GiveUp, Withhold, WorkerSends
  <2>2. \E v : out' = Command(d, "value", v)
    BY <2>1 DEF SendStep, SendTarget, SendIncremental
  <2>3. QED
    BY <2>1, <2>2 DEF Command
<1>2. ASSUME NEW d \in Dims, IngestTarget(d) PROVE FALSE
  BY <1>2 DEF IngestTarget, SetUnavailable, SetValueIgnored, SetValuePassthrough, SetValue,
              StepsRefused, StepsForwarded, StepsApplied, SetCommand, Refuse, Forward, WorkerSends
<1>3. QED
  BY <1>1, <1>2 DEF Next, Report, IngestCurrent, ExpireTimer, FinishCallback, Read, Tick, WorkerSends

-----------------------------------------------------------------------------
(* Spacing.                                                                *)

Stamped ==
    /\ sinceSent \in 0..Horizon
    /\ "RateLimitExclude" \notin Flags => sinceEvent <= sinceSent

(* The device's last event only ages with the clock, or is stamped anew.   *)
LEMMA EventAges ==
    ASSUME Next
    PROVE  Tick \/ sinceEvent' = sinceEvent \/ sinceEvent' = 0
<1>1. ASSUME NEW d \in Dims, Process(d) PROVE sinceEvent' = sinceEvent \/ sinceEvent' = 0
  BY <1>1 DEF Process, NothingPending, AcceptCurrent, Delay, GiveUp, SendStep, SendTarget,
              SendIncremental, Withhold, Stamp
<1>2. ASSUME NEW d \in Dims, IngestTarget(d) PROVE sinceEvent' = sinceEvent
  BY <1>2 DEF IngestTarget, SetUnavailable, SetValueIgnored, SetValuePassthrough, SetValue,
              StepsRefused, StepsForwarded, StepsApplied, SetCommand, Refuse, Forward
<1>3. QED
  BY <1>1, <1>2 DEF Next, Report, IngestCurrent, ExpireTimer, FinishCallback, Read

(* What the worker sends is an event of the device, unless it is excluded. *)
LEMMA StampedStep ==
    ASSUME TypeOK, Stamped, [Next /\ Log]_logged
    PROVE  Stamped'
<1>0. Horizon \in Nat /\ sinceEvent \in 0..Horizon /\ sinceSent \in 0..Horizon
  BY HorizonFacts DEF TypeOK, Stamped
<1>1. CASE UNCHANGED logged
  BY <1>1 DEF logged, vars, Stamped
<1>2. ASSUME Next, Log, WorkerSends PROVE Stamped'
  <2>1. PICK d \in Dims : SendStep(d) \/ SendTarget(d) \/ SendIncremental(d)
    BY <1>2, Senders
  <2>2. Stamp(d)
    BY <2>1 DEF SendStep, SendTarget, SendIncremental
  <2>3. "RateLimitExclude" \notin Flags => sinceEvent' = 0
    BY <2>2 DEF Stamp
  <2>4. sinceSent' = 0
    BY <1>2 DEF Log
  <2>5. QED
    BY <1>0, <2>3, <2>4 DEF Stamped
<1>3. ASSUME Next, Log, ~WorkerSends, Tick PROVE Stamped'
  <2>1. sinceSent' = Older(sinceSent) /\ sinceEvent' = Older(sinceEvent)
    BY <1>3 DEF Log, Tick
  <2>2. QED
    BY <1>0, <2>1 DEF Older, Stamped
<1>4. ASSUME Next, Log, ~WorkerSends, ~Tick PROVE Stamped'
  <2>1. sinceSent' = sinceSent
    BY <1>4 DEF Log
  <2>2. sinceEvent' = sinceEvent \/ sinceEvent' = 0
    BY <1>4, EventAges
  <2>3. QED
    BY <1>0, <2>1, <2>2 DEF Stamped
<1>5. QED
  BY <1>1, <1>2, <1>3, <1>4

(* However many elements share the limit, and whatever passes the manager  *)
(* by, two commands of the worker are at least the rate limit apart.       *)
THEOREM CommandsSpacedHolds == LoggedSpec => CommandsSpaced
<1>1. LoggedInit => Stamped
  BY HorizonFacts DEF LoggedInit, Init, Stamped
<1>2. TypeOK /\ Stamped /\ [Next /\ Log]_logged => Stamped'
  BY StampedStep
<1>3. TypeOK /\ Stamped /\ [Next /\ Log]_logged
      => [WorkerSends /\ "RateLimitExclude" \notin Flags => sinceSent >= RateLimit]_logged
  <2> SUFFICES ASSUME TypeOK, Stamped, Next, WorkerSends, "RateLimitExclude" \notin Flags
               PROVE  sinceSent >= RateLimit
    OBVIOUS
  <2>0. sinceEvent \in Nat /\ sinceSent \in Nat /\ RateLimit \in Nat /\ sinceEvent <= sinceSent
    BY HorizonFacts, InputAssumption DEF TypeOK, Stamped
  <2>1. PICK d \in Dims : SendStep(d) \/ SendTarget(d) \/ SendIncremental(d)
    BY Senders
  <2>2. ~Limited
    BY <2>1 DEF SendStep, SendTarget, SendIncremental, MayAct
  <2>3. sinceEvent >= RateLimit
    BY <2>0, <2>2 DEF Limited
  <2>4. QED
    BY <2>0, <2>3
<1>4. LoggedSpec => []TypeOK
  BY LoggedIsSpec, TypeCorrect, PTL
<1>5. QED
  BY <1>1, <1>2, <1>3, <1>4, PTL DEF LoggedSpec, CommandsSpaced

-----------------------------------------------------------------------------
(* Answering.                                                              *)

(* A command nothing has answered is a try that was counted, and comes     *)
(* after the last step of a smoothing sequence, whose steps start the      *)
(* count again.                                                            *)
AnsweredOr(n, r) ==
    /\ n <= r.tryCount
    /\ n > 0 /\ ControlStyle = "Normal" => ~r.smoothing.active
Answering ==
    /\ unanswered \in [Dims -> Nat]
    /\ HasRetryLimit => \A d \in Dims : AnsweredOr(unanswered[d], buf[d])

(* A report that leaves a value pending leaves the count, and starts no    *)
(* smoothing.                                                              *)
LEMMA AbsorbPending ==
    ASSUME NEW r \in Buffer, NEW age \in Nat, NEW rep \in Reports, Pending(Absorb(r, age, rep))
    PROVE  /\ Absorb(r, age, rep).tryCount = r.tryCount
           /\ Absorb(r, age, rep).smoothing.active => r.smoothing.active
<1>1. CASE rep.what = "value"
  <2> DEFINE seen == [r EXCEPT !.current = IntValue(rep.n)]
             kept == Adopted(seen, age)
  <2>1. rep.n \in Int
    BY <1>1, ReportedNumber
  <2>2. seen \in Buffer /\ seen.tryCount = r.tryCount /\ seen.smoothing = r.smoothing
    BY <2>1, ValueTypes DEF Buffer
  <2>3. Absorb(r, age, rep) = Marked(kept)
    BY <1>1 DEF Absorb, AbsorbValue
  <2> HIDE DEF seen
  <2>4. kept = seen \/ kept = FallBack(seen)
    BY DEF Adopted
  <2>5. kept \in Buffer /\ kept.tryCount = seen.tryCount
        /\ (kept.smoothing.active => seen.smoothing.active)
    <3>1. FallBack(seen) \in Buffer /\ FallBack(seen).tryCount = seen.tryCount
          /\ ~FallBack(seen).smoothing.active
      BY <2>2, FallBackType DEF FallBack, NotSmoothing, Buffer
    <3>2. QED
      BY <2>2, <2>4, <3>1
  <2> HIDE DEF kept
  <2>6. Marked(kept).smoothing = kept.smoothing /\ Marked(kept).current = kept.current
        /\ Marked(kept).target = kept.target
        /\ (Pending(kept) => Marked(kept).tryCount = kept.tryCount)
    BY <2>5 DEF Marked, Buffer
  <2>7. Pending(kept)
    BY <2>3, <2>6 DEF Pending
  <2>8. QED
    BY <2>2, <2>3, <2>5, <2>6, <2>7
<1>2. CASE rep.what = "invalid"
  <2> DEFINE lost == [r EXCEPT !.current = InvalidValue,
                               !.target = IF Adopts(r, age) THEN InvalidValue ELSE @]
  <2>1. lost \in Buffer /\ lost.tryCount = r.tryCount /\ lost.smoothing = r.smoothing
    BY ValueTypes DEF Buffer
  <2>2. Absorb(r, age, rep) = Reflag(lost)
    BY <1>2 DEF Absorb, AbsorbInvalid
  <2> HIDE DEF lost
  <2>3. QED
    BY <2>1, <2>2, ReflagFacts
<1>3. CASE rep.what = "available"
  <2> DEFINE s == [r EXCEPT !.available = rep.is]
  <2>1. rep.is \in BOOLEAN
    BY <1>3 DEF Reports
  <2>2. s \in Buffer /\ s.tryCount = r.tryCount /\ s.smoothing = r.smoothing
    BY <2>1 DEF Buffer
  <2>3. Absorb(r, age, rep) = Reflag(s)
    BY <1>3 DEF Absorb
  <2> HIDE DEF s
  <2>4. QED
    BY <2>2, <2>3, ReflagFacts
<1>4. CASE rep.what = "other"
  BY <1>4 DEF Absorb
<1>5. QED
  BY <1>1, <1>2, <1>3, <1>4 DEF Reports

(* A command of the target is counted, and ends the smoothing.             *)
LEMMA SentCounts ==
    ASSUME HasRetryLimit, TypeOK, Next, NEW e \in Dims, SendsTarget(e)
    PROVE  /\ buf'[e].tryCount = buf[e].tryCount + 1
           /\ ControlStyle = "Normal" => ~buf'[e].smoothing.active
<1>0. buf[e] \in Buffer /\ FeedbackStyle # "NoFeedback"
  BY DEF TypeOK, HasRetryLimit
<1>1. PICK d \in Dims : (SendStep(d) \/ SendTarget(d) \/ SendIncremental(d)) /\ out'.dim = d
  BY Senders DEF SendsTarget
<1>2. d = e /\ out'.value = buf[e].target
  BY <1>1 DEF SendsTarget, Command
<1>3. CASE SendStep(e)
  <2>1. out'.value.n = NextStep(buf[e])
    BY <1>3 DEF SendStep, Command
  <2>2. NextStep(buf[e]) # buf[e].target.n
    BY <1>3 DEF SendStep, MidSmoothing
  <2>3. QED
    BY <1>2, <2>1, <2>2
<1>4. CASE SendTarget(e)
  <2>1. Tried(buf[e]) \in Buffer /\ Tried(buf[e]).tryCount = buf[e].tryCount + 1
    BY <1>0, SentTypes
  <2>2. ~Tried(buf[e]).smoothing.active
    <3>1. Reflag(buf[e]) \in Buffer
      BY <1>0, ReflagFacts
    <3>2. QED
      BY <3>1 DEF Tried, NotSmoothing, Buffer
  <2>3. buf'[e] \in {Tried(buf[e]), Reflag(Tried(buf[e]))}
    BY <1>0, <1>4, SendTargetType
  <2>4. QED
    BY <2>1, <2>2, <2>3, ReflagFacts
<1>5. CASE SendIncremental(e)
  <2>1. buf'[e] \in {Counted(buf[e]), Reflag(Counted(buf[e]))}
    BY <1>5, SendIncrementalType
  <2>2. Counted(buf[e]) \in Buffer /\ Counted(buf[e]).tryCount = buf[e].tryCount + 1
    BY <1>0, SentTypes
  <2>3. ControlStyle # "Normal"
    BY <1>5 DEF SendIncremental
  <2>4. QED
    BY <2>1, <2>2, <2>3, ReflagFacts
<1>6. QED
  BY <1>1, <1>2, <1>3, <1>4, <1>5

(* Nothing else that leaves a target open takes a try back, except a       *)
(* smoothing step, before the first.                                       *)
LEMMA StaysAnswering ==
    ASSUME HasRetryLimit, TypeOK, TypeOK', [Next]_vars, NEW e \in Dims, ~Closes(e),
           NEW n \in Nat, AnsweredOr(n, buf[e])
    PROVE  AnsweredOr(n, buf'[e])
<1>0. /\ buf[e] \in Buffer /\ buf[e].tryCount \in Nat /\ sinceUpdate[e] \in Nat
      /\ FeedbackStyle # "NoFeedback"
      /\ attempts'[e] # 0 /\ Pending(buf'[e]) /\ ~GiveUp(e)
  BY HorizonFacts DEF TypeOK, Buffer, HasRetryLimit, Closes
<1>1. CASE Untouched(e)
  BY <1>1 DEF Untouched
<1>2. ASSUME NEW rep \in Reports, Absorbed(e, rep) PROVE AnsweredOr(n, buf'[e])
  <2>1. buf'[e] = Absorb(buf[e], sinceUpdate[e], rep)
    BY <1>2 DEF Absorbed
  <2>2. buf'[e].tryCount = buf[e].tryCount /\ (buf'[e].smoothing.active => buf[e].smoothing.active)
    BY <1>0, <2>1, AbsorbPending
  <2>3. QED
    BY <2>2 DEF AnsweredOr
<1>3. CASE (\E v \in SetVals : SetValue(e, v)) \/ \E s \in StepVals : StepsApplied(e, s)
  BY <1>0, <1>3, SetValueResult, StepsAppliedResult
<1>4. CASE AcceptCurrent(e)
  <2>1. FallBack(buf[e]) \in Buffer /\ ~FallBack(buf[e]).smoothing.active
    BY <1>0, FallBackType DEF FallBack, NotSmoothing, Buffer
  <2>2. buf'[e] = Reflag(FallBack(buf[e]))
    BY <1>4 DEF AcceptCurrent, TypeOK
  <2>3. buf'[e].tryCount = buf[e].tryCount
    BY <1>4, AcceptCurrentResult
  <2>4. QED
    BY <2>1, <2>2, <2>3, ReflagFacts DEF AnsweredOr
<1>5. CASE Delay(e) \/ Read(e)
  <2>1. buf'[e] \in {buf[e], Reflag(buf[e])}
    BY <1>5, DelayType, ReadResult
  <2>2. QED
    BY <1>0, <2>1, ReflagFacts DEF AnsweredOr
<1>6. CASE SendStep(e)
  <2>1. n = 0
    BY <1>0, <1>6 DEF AnsweredOr, SendStep, MidSmoothing
  <2>2. buf'[e].tryCount \in Nat
    BY DEF TypeOK, Buffer
  <2>3. QED
    BY <2>1, <2>2 DEF AnsweredOr
<1>7. CASE SendTarget(e) \/ SendIncremental(e)
  <2>1. SendsTarget(e)
    <3>1. out' = Command(e, "value", buf[e].target)
      <4>1. CASE SendTarget(e)
        BY <1>0, <4>1, SentTypes DEF SendTarget, Tried
      <4>2. CASE SendIncremental(e)
        BY <4>2 DEF SendIncremental
      <4>3. QED
        BY <1>7, <4>1, <4>2
    <3>2. events' # events
      <4>1. events # <<>> /\ events' = Tail(events) /\ events \in Seq(Dims)
        BY <1>7 DEF SendTarget, SendIncremental, MayAct, Take, TypeOK
      <4>2. Len(events') = Len(events) - 1 /\ Len(events) \in Nat
        BY <4>1
      <4>3. QED
        BY <4>2
    <3>3. QED
      BY <3>1, <3>2 DEF SendsTarget, WorkerSends, Command, NoCommand
  <2>2. Next
    BY <1>7 DEF Next, Process
  <2>3. QED
    BY <1>0, <2>1, <2>2, SentCounts DEF AnsweredOr
<1>8. CASE Withhold(e)
  <2>1. buf'[e] = buf[e]
    BY <1>0, <1>8, WithholdResult
  <2>2. QED
    BY <2>1
<1>9. QED
  BY <1>0, <1>1, <1>2, <1>3, <1>4, <1>5, <1>6, <1>7, <1>8, ElementStep DEF Moved

(* Every step keeps the log below the count.                               *)
LEMMA AnsweringStep ==
    ASSUME TypeOK, TypeOK', Answering, [Next /\ Log]_logged
    PROVE  Answering'
<1>1. CASE UNCHANGED logged
  BY <1>1 DEF logged, vars, Answering, HasRetryLimit
<1>2. CASE Next /\ Log
  <2>1. unanswered' \in [Dims -> Nat]
    BY <1>2 DEF Log, Answering
  <2>2. ASSUME HasRetryLimit, NEW e \in Dims PROVE AnsweredOr(unanswered'[e], buf'[e])
    <3>0. /\ unanswered[e] \in Nat /\ unanswered'[e] \in Nat /\ AnsweredOr(unanswered[e], buf[e])
          /\ buf[e].tryCount \in Nat /\ buf'[e].tryCount \in Nat
      BY <2>1, <2>2 DEF Answering, TypeOK, Buffer
    <3>1. CASE Closes(e)
      <4>1. unanswered'[e] = 0
        BY <1>2, <3>1 DEF Log
      <4>2. QED
        BY <3>0, <4>1 DEF AnsweredOr
    <3>2. CASE ~Closes(e) /\ SendsTarget(e)
      <4>1. unanswered'[e] <= unanswered[e] + 1
        BY <1>2, <3>0, <3>2 DEF Log
      <4>2. buf'[e].tryCount = buf[e].tryCount + 1
            /\ (ControlStyle = "Normal" => ~buf'[e].smoothing.active)
        BY <1>2, <2>2, <3>2, SentCounts
      <4>3. QED
        BY <3>0, <4>1, <4>2 DEF AnsweredOr
    <3>3. CASE ~Closes(e) /\ ~SendsTarget(e)
      <4>1. unanswered'[e] = unanswered[e]
        BY <1>2, <3>3 DEF Log
      <4>2. QED
        BY <1>2, <2>2, <3>0, <3>3, <4>1, StaysAnswering
    <3>4. QED
      BY <3>1, <3>2, <3>3
  <2>3. QED
    BY <2>1, <2>2 DEF Answering, HasRetryLimit
<1>3. QED
  BY <1>1, <1>2

(* Whatever sets, increments, reports, smoothing steps and timer callbacks *)
(* come in between, a core gets no target more than RetryCount times       *)
(* before it is confirmed, moved by a client, or given up.                 *)
THEOREM CommandsBoundedHolds == LoggedSpec => []CommandsBounded
<1>1. LoggedInit => Answering
  BY DEF LoggedInit, Init, Answering, AnsweredOr, InitialBuffer
<1>2. TypeOK /\ TypeOK' /\ Answering /\ [Next /\ Log]_logged => Answering'
  BY AnsweringStep
<1>3. TypeOK /\ RetryBound /\ Answering => CommandsBounded
  <2> SUFFICES ASSUME TypeOK, RetryBound, Answering, HasRetryLimit, NEW e \in Dims
               PROVE  unanswered[e] <= RetryCount
    BY DEF CommandsBounded
  <2>1. unanswered[e] <= buf[e].tryCount /\ buf[e].tryCount <= RetryCount
    BY DEF Answering, AnsweredOr, RetryBound
  <2>2. unanswered[e] \in Nat /\ buf[e].tryCount \in Nat /\ RetryCount \in Nat
    BY ConfigAssumption DEF Answering, TypeOK, Buffer
  <2>3. QED
    BY <2>1, <2>2
<1>4. LoggedSpec => []TypeOK /\ []RetryBound
  BY LoggedIsSpec, TypeCorrect, CountBounded, PTL
<1>5. QED
  BY <1>1, <1>2, <1>3, <1>4, PTL DEF LoggedSpec

=============================================================================
