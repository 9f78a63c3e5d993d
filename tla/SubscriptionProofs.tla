------------------------- MODULE SubscriptionProofs -------------------------
(***************************************************************************)
(* Proofs about Subscription, for every number of calls, parameters and    *)
(* identifiers, every filter and every capacity: the distributor never     *)
(* writes to a closed channel, no published value is lost on its way, and  *)
(* what the clients see is a behaviour of Feed.                            *)
(*                                                                         *)
(* Shape says which kind of value each variable holds.  Open relates where *)
(* a Subscribe call is to the distributor's map.  Ordered follows one      *)
(* parameter through the three places between a worker and a client: the   *)
(* versions in the client's channel, the distributor's hand and the        *)
(* watcher rise, all above what the client has heard and none above the    *)
(* value.  Answered is about the values that calls read themselves.        *)
(***************************************************************************)
EXTENDS Subscription, SequenceTheorems, TLAPS

-----------------------------------------------------------------------------
(* Sequences of messages of any kind.                                       *)
IsSeq(q) == q \in Seq(Range(q))
Is(m, p) == m.what = "value" /\ m.id = p
Older(m, n, p) == Is(m, p) /\ Is(n, p) => m.version < n.version
Rising(q, p) == \A i, j \in 1..Len(q) : i < j => Older(q[i], q[j], p)

(* What a sequence holds is what is at its places.                         *)
LEMMA RangeIs ==
    ASSUME NEW q, IsSeq(q)
    PROVE  /\ Len(q) \in Nat
           /\ \A m : m \in Range(q) <=> \E i \in 1..Len(q) : q[i] = m
<1>1. Len(q) \in Nat
  BY LenProperties DEF IsSeq
<1>2. Range(q) = {q[i] : i \in 1..Len(q)}
  BY RangeEquality DEF IsSeq
<1> HIDE DEF IsSeq
<1>3. QED
  BY <1>1, <1>2

(* The empty channel is a channel, and rises.                              *)
LEMMA EmptyIs ==
    IsSeq(<<>>) /\ Range(<<>>) = {} /\ \A p : Rising(<<>>, p)
<1>1. <<>> \in Seq(Range(<<>>)) /\ Len(<<>>) = 0
  BY EmptySeq
<1>2. Range(<<>>) = {<<>>[i] : i \in 1..0}
  BY <1>1, RangeEquality
<1>3. QED
  BY <1>1, <1>2 DEF IsSeq, Rising

(* Sending adds one message.                                               *)
LEMMA AppendIs ==
    ASSUME NEW q, IsSeq(q), NEW m
    PROVE  /\ IsSeq(Append(q, m))
           /\ \A n : n \in Range(Append(q, m)) <=> n \in Range(q) \/ n = m
<1> DEFINE S == Range(q) \cup {m}
<1>1. q \in Seq(S)
  BY SeqMonotonic DEF IsSeq
<1> HIDE DEF S
<1>2. m \in S
  BY DEF S
<1>3. /\ Append(q, m) \in Seq(S) /\ Len(Append(q, m)) = Len(q) + 1 /\ Len(q) \in Nat
      /\ \A i \in 1..Len(q) : Append(q, m)[i] = q[i]
      /\ Append(q, m)[Len(q) + 1] = m
  BY <1>1, <1>2, AppendProperties, LenProperties
<1>4. IsSeq(Append(q, m))
  BY <1>3, SeqOfRange DEF IsSeq
<1>5. \A n : n \in Range(Append(q, m)) <=> \E i \in 1..(Len(q) + 1) : Append(q, m)[i] = n
  <2>1. \A n : n \in Range(Append(q, m)) <=> \E i \in 1..Len(Append(q, m)) : Append(q, m)[i] = n
    BY <1>4, RangeIs
  <2>2. QED
    BY <1>3, <2>1
<1>6. \A n : n \in Range(q) <=> \E i \in 1..Len(q) : q[i] = n
  BY RangeIs
<1>7. \A i \in 1..(Len(q) + 1) : i = Len(q) + 1 \/ i \in 1..Len(q)
  BY <1>3
<1>8. \A i \in 1..Len(q) : i \in 1..(Len(q) + 1)
  BY <1>3
<1>9. Len(q) + 1 \in 1..(Len(q) + 1)
  BY <1>3
<1>10. QED
  BY <1>3, <1>4, <1>5, <1>6, <1>7, <1>8, <1>9

(* It goes on rising if the message is newer than all in it.               *)
LEMMA AppendRises ==
    ASSUME NEW q, IsSeq(q), NEW m, NEW p, Rising(q, p),
           \A n \in Range(q) : Older(n, m, p)
    PROVE  Rising(Append(q, m), p)
<1> DEFINE S == Range(q) \cup {m}
<1>1. q \in Seq(S)
  BY SeqMonotonic DEF IsSeq
<1> HIDE DEF S
<1>2. m \in S
  BY DEF S
<1>3. /\ Len(Append(q, m)) = Len(q) + 1 /\ Len(q) \in Nat
      /\ \A i \in 1..Len(q) : Append(q, m)[i] = q[i]
      /\ Append(q, m)[Len(q) + 1] = m
  BY <1>1, <1>2, AppendProperties, LenProperties
<1>4. \A i \in 1..Len(q) : Older(q[i], m, p)
  BY RangeIs
<1>5. ASSUME NEW i \in 1..(Len(q) + 1), NEW j \in 1..(Len(q) + 1), i < j
      PROVE  Older(Append(q, m)[i], Append(q, m)[j], p)
  <2>1. i \in 1..Len(q)
    BY <1>3, <1>5
  <2>2. CASE j \in 1..Len(q)
    BY <1>3, <1>5, <2>1, <2>2 DEF Rising
  <2>3. CASE j = Len(q) + 1
    BY <1>3, <1>4, <2>1, <2>3
  <2>4. QED
    BY <1>3, <2>2, <2>3
<1>6. QED
  BY <1>3, <1>5 DEF Rising

(* Receiving takes the oldest message; the rest goes on rising above it.   *)
LEMMA TailIs ==
    ASSUME NEW q, IsSeq(q), q # <<>>
    PROVE  /\ IsSeq(Tail(q))
           /\ \A n : n \in Range(q) <=> n = Head(q) \/ n \in Range(Tail(q))
           /\ \A p : Rising(q, p) =>
                  Rising(Tail(q), p) /\ \A n \in Range(Tail(q)) : Older(Head(q), n, p)
<1>1. /\ Tail(q) \in Seq(Range(q)) /\ Len(Tail(q)) = Len(q) - 1 /\ Len(q) \in Nat \ {0}
      /\ \A i \in 1..Len(Tail(q)) : Tail(q)[i] = q[i + 1]
  BY HeadTailProperties, EmptySeq DEF IsSeq
<1>2. Head(q) = q[1]
  OBVIOUS
<1>3. IsSeq(Tail(q))
  BY <1>1, SeqOfRange DEF IsSeq
<1>4. \A n : n \in Range(q) <=> \E i \in 1..Len(q) : q[i] = n
  BY RangeIs
<1>5. \A n : n \in Range(Tail(q)) <=> \E i \in 1..Len(Tail(q)) : Tail(q)[i] = n
  BY <1>3, RangeIs
<1>6. \A i \in 1..Len(Tail(q)) : i + 1 \in 1..Len(q) /\ 1 < i + 1
  BY <1>1
<1>7. \A i \in 1..Len(q) : i = 1 \/ (i - 1 \in 1..Len(Tail(q)) /\ (i - 1) + 1 = i)
  BY <1>1
<1>8. 1 \in 1..Len(q)
  BY <1>1
<1>9. ASSUME NEW n
      PROVE  n \in Range(q) <=> n = Head(q) \/ n \in Range(Tail(q))
  <2>1. ASSUME n \in Range(q) PROVE n = Head(q) \/ n \in Range(Tail(q))
    <3>1. PICK i \in 1..Len(q) : q[i] = n
      BY <1>4, <2>1
    <3>2. CASE i = 1
      BY <1>2, <3>1, <3>2
    <3>3. CASE i # 1
      <4>1. i - 1 \in 1..Len(Tail(q)) /\ Tail(q)[i - 1] = n
        BY <1>1, <1>7, <3>1, <3>3
      <4>2. QED
        BY <1>5, <4>1
    <3>4. QED
      BY <3>2, <3>3
  <2>2. ASSUME n \in Range(Tail(q)) PROVE n \in Range(q)
    BY <1>1, <1>4, <1>5, <1>6, <2>2
  <2>3. Head(q) \in Range(q)
    BY <1>2, <1>4, <1>8
  <2>4. QED
    BY <2>1, <2>2, <2>3
<1>10. ASSUME NEW p, Rising(q, p)
       PROVE  Rising(Tail(q), p) /\ \A n \in Range(Tail(q)) : Older(Head(q), n, p)
  <2>1. ASSUME NEW i \in 1..Len(Tail(q)), NEW j \in 1..Len(Tail(q)), i < j
        PROVE  Older(Tail(q)[i], Tail(q)[j], p)
    <3>1. i + 1 \in 1..Len(q) /\ j + 1 \in 1..Len(q) /\ i + 1 < j + 1
      BY <1>6, <2>1
    <3>2. Older(q[i + 1], q[j + 1], p)
      BY <1>10, <3>1 DEF Rising
    <3>3. QED
      BY <1>1, <3>2
  <2>2. ASSUME NEW n \in Range(Tail(q))
        PROVE  Older(Head(q), n, p)
    <3>1. PICK i \in 1..Len(Tail(q)) : Tail(q)[i] = n
      BY <1>5
    <3>2. Older(q[1], q[i + 1], p)
      BY <1>6, <1>8, <1>10, <3>1 DEF Rising
    <3>3. QED
      BY <1>1, <1>2, <3>1, <3>2
  <2>3. QED
    BY <2>1, <2>2 DEF Rising
<1>11. QED
  BY <1>3, <1>9, <1>10

-----------------------------------------------------------------------------
(* The invariants.                                                          *)
CallOf(s) == [at |-> call[s].at, filter |-> call[s].filter, header |-> call[s].header,
              units |-> call[s].units, answer |-> call[s].answer, target |-> call[s].target]

CallShape ==
    /\ DOMAIN call = Sessions /\ closed \in [Sessions -> BOOLEAN]
    /\ \A s \in Sessions : call[s] = CallOf(s) /\ call[s].filter \in Seq(Nat \X Nat)
    /\ dist = [phase |-> dist.phase, msg |-> dist.msg, todo |-> dist.todo, slow |-> dist.slow]
    /\ dist.phase \in {"idle", "loop", "cleanup"}

DataShape ==
    /\ value \in [Ids -> Nat]
    /\ view \in [Sessions -> [Ids -> Nat]] /\ heard \in [Sessions -> [Ids -> Nat]]
    /\ DOMAIN since = Sessions
    /\ DOMAIN queue = Sessions /\ DOMAIN filter = Sessions /\ DOMAIN posting = Workers
    /\ IsSeq(watcher)
    /\ \A s \in Sessions : IsSeq(queue[s]) /\ filter[s] \in Seq(Nat \X Nat)
    /\ \A d \in Workers : posting[d] = NoMessage \/ posting[d].what = "status"
    /\ \A m \in Range(watcher) : m.what \in {"value", "status"}
    /\ dist.phase = "loop" => dist.msg.what \in {"value", "status"}

Streaming == {"replay", "stream", "unregister"}
Begun == Streaming \cup {"close", "ended"}

Open ==
    /\ registered \subseteq Sessions /\ dist.slow \subseteq Sessions
    /\ \A s \in registered : ~closed[s] /\ call[s].at \in Streaming
    /\ dist.phase = "loop" => dist.todo \subseteq registered
    /\ dist.phase = "idle" => dist.slow = {}
    /\ \A s \in Sessions : closed[s] => call[s].at \in Begun
    /\ \A s \in dist.slow : call[s].at \in Begun

Ordered(s, p) ==
    /\ heard[s][p] <= value[p]
    /\ Rising(queue[s], p) /\ Rising(watcher, p)
    /\ \A m \in Range(queue[s]) \cup Range(watcher) :
           Is(m, p) => m.version \in Nat /\ heard[s][p] < m.version /\ m.version <= value[p]
    /\ \A m \in Range(queue[s]), n \in Range(watcher) : Older(m, n, p)
    /\ dist.phase = "loop" /\ Is(dist.msg, p) =>
           /\ dist.msg.version \in Nat /\ dist.msg.version <= value[p]
           /\ \A n \in Range(watcher) : Older(dist.msg, n, p)
           /\ s \in dist.todo => /\ heard[s][p] < dist.msg.version
                                 /\ \A m \in Range(queue[s]) : Older(m, dist.msg, p)

AllOrdered == \A s \in Sessions, p \in Ids : Ordered(s, p)

Waiting == {"idle", "lookup", "get", "register", "replay", "forward"}
Answered(s) ==
    /\ \A a \in call[s].answer : a[1] \in Ids => a[2] \in Nat /\ a[2] <= value[a[1]]
    /\ call[s].at \in {"get", "forward"} => call[s].target \subseteq refilled
    /\ \A m \in Range(queue[s]) : m.what \notin {"value", "status"} =>
           /\ s \in refilled
           /\ m.id \in Ids => m.version \in Nat /\ m.version <= value[m.id]
    /\ call[s].at \in Waiting => heard[s] = [p \in Ids |-> 0]

AllAnswered == \A s \in Sessions : Answered(s)

-----------------------------------------------------------------------------
(* What the steps of a call do to its record.                              *)
Becomes(s, place, f, w, t) ==
    /\ DOMAIN call' = Sessions
    /\ \A r \in Sessions \ {s} : call'[r] = call[r]
    /\ call'[s] = CallOf(s)'
    /\ call'[s].at = place /\ call'[s].filter = f /\ call'[s].answer = w /\ call'[s].target = t

(* The steps of a call, each as one instance of Becomes.                   *)
LEMMA GotoMoves ==
    ASSUME CallShape, NEW s \in Sessions, NEW place, Goto(s, place)
    PROVE  Becomes(s, place, call[s].filter, call[s].answer, call[s].target)
<1>1. /\ DOMAIN call = Sessions /\ call[s] = CallOf(s)
      /\ call' = [call EXCEPT ![s].at = place]
  BY DEF CallShape, Goto
<1>2. call'[s] = [at |-> place, filter |-> call[s].filter, header |-> call[s].header,
                  units |-> call[s].units, answer |-> call[s].answer, target |-> call[s].target]
  BY <1>1 DEF CallOf
<1>3. QED
  BY <1>1, <1>2 DEF Becomes, CallOf

(* Starting to read the values a filter asks for.                          *)
LEMMA GetMoves ==
    ASSUME CallShape, NEW s \in Sessions, NEW f, NEW t, Get(s, f, t)
    PROVE  Becomes(s, IF Malformed(f) THEN "ended" ELSE "get",
                   call[s].filter, call[s].answer, t)
<1> DEFINE place == IF Malformed(f) THEN "ended" ELSE "get"
           u == IF Malformed(f) THEN {} ELSE Units(f)
<1>1. /\ DOMAIN call = Sessions /\ call[s] = CallOf(s)
      /\ call' = [call EXCEPT ![s].at = place, ![s].units = u, ![s].target = t]
  BY DEF CallShape, Get
<1> HIDE DEF place, u
<1>2. call'[s] = [at |-> place, filter |-> call[s].filter, header |-> call[s].header,
                  units |-> u, answer |-> call[s].answer, target |-> t]
  BY <1>1 DEF CallOf
<1>3. Becomes(s, place, call[s].filter, call[s].answer, t)
  BY <1>1, <1>2 DEF Becomes, CallOf
<1>4. QED
  BY <1>3 DEF place

(* A call that begins.                                                     *)
LEMMA CallMoves ==
    ASSUME CallShape, NEW s \in Sessions, NEW f \in Filters, NEW h, Call(s, f, h)
    PROVE  Becomes(s, "lookup", f, call[s].answer, call[s].target)
<1>1. /\ DOMAIN call = Sessions /\ call[s] = CallOf(s)
      /\ call' = [call EXCEPT ![s].at = "lookup", ![s].filter = f, ![s].header = h]
  BY DEF CallShape, Call
<1>2. call'[s] = [at |-> "lookup", filter |-> f, header |-> h,
                  units |-> call[s].units, answer |-> call[s].answer, target |-> call[s].target]
  BY <1>1 DEF CallOf
<1>3. QED
  BY <1>1, <1>2 DEF Becomes, CallOf

(* Reading one unit's values adds them to the answer.                      *)
LEMMA ReadMoves ==
    ASSUME CallShape, NEW s \in Sessions, ReadUnit(s)
    PROVE  \E u, place :
              /\ Becomes(s, place, call[s].filter,
                         call[s].answer \cup {<<p, value[p]>> : p \in u}, call[s].target)
              /\ place \in {"register", "forward", "get"}
              /\ place = "register" => call[s].target = {}
<1>1. PICK u \in call[s].units :
         call' = [call EXCEPT ![s].units = call[s].units \ {u},
                              ![s].answer = @ \cup {<<p, value[p]>> : p \in u},
                              ![s].at = IF call[s].units \ {u} = {}
                                        THEN IF call[s].target = {} THEN "register" ELSE "forward"
                                        ELSE "get"]
  BY DEF ReadUnit
<1> DEFINE place == IF call[s].units \ {u} = {}
                    THEN IF call[s].target = {} THEN "register" ELSE "forward"
                    ELSE "get"
           w == call[s].answer \cup {<<p, value[p]>> : p \in u}
<1>2. DOMAIN call = Sessions /\ call[s] = CallOf(s)
  BY DEF CallShape
<1>3. call' = [call EXCEPT ![s].units = call[s].units \ {u}, ![s].answer = w, ![s].at = place]
  BY <1>1
<1>4. place \in {"register", "forward", "get"} /\ (place = "register" => call[s].target = {})
  OBVIOUS
<1> HIDE DEF place, w
<1>5. call'[s] = [at |-> place, filter |-> call[s].filter, header |-> call[s].header,
                  units |-> call[s].units \ {u}, answer |-> w, target |-> call[s].target]
  BY <1>2, <1>3 DEF CallOf
<1>6. Becomes(s, place, call[s].filter, w, call[s].target)
  BY <1>2, <1>3, <1>5 DEF Becomes, CallOf
<1>7. QED
  BY <1>4, <1>6 DEF w

(* A step that sets the answer.                                            *)
LEMMA AnswerMoves ==
    ASSUME CallShape, NEW s \in Sessions, NEW place, NEW w,
           call' = [call EXCEPT ![s].at = place, ![s].answer = w]
    PROVE  Becomes(s, place, call[s].filter, w, call[s].target)
<1>1. DOMAIN call = Sessions /\ call[s] = CallOf(s)
  BY DEF CallShape
<1>2. call'[s] = [at |-> place, filter |-> call[s].filter, header |-> call[s].header,
                  units |-> call[s].units, answer |-> w, target |-> call[s].target]
  BY <1>1 DEF CallOf
<1>3. QED
  BY <1>1, <1>2 DEF Becomes, CallOf

(* Handing one value of the answer on.                                     *)
LEMMA ForwardMoves ==
    ASSUME CallShape, NEW s \in Sessions, NEW a, call' = [call EXCEPT ![s].answer = @ \ {a}]
    PROVE  Becomes(s, call[s].at, call[s].filter, call[s].answer \ {a}, call[s].target)
<1>1. DOMAIN call = Sessions /\ call[s] = CallOf(s)
  BY DEF CallShape
<1>2. call'[s] = [at |-> call[s].at, filter |-> call[s].filter, header |-> call[s].header,
                  units |-> call[s].units, answer |-> call[s].answer \ {a},
                  target |-> call[s].target]
  BY <1>1 DEF CallOf
<1>3. QED
  BY <1>1, <1>2 DEF Becomes, CallOf

(* No step of a call disturbs the shapes.                                  *)
LEMMA ShapeMoves ==
    ASSUME CallShape, NEW s \in Sessions, NEW place, NEW f \in Seq(Nat \X Nat), NEW w, NEW t,
           Becomes(s, place, f, w, t), UNCHANGED dist, closed' \in [Sessions -> BOOLEAN]
    PROVE  CallShape'
<1>1. ASSUME NEW r \in Sessions
      PROVE  call'[r] = CallOf(r)' /\ call'[r].filter \in Seq(Nat \X Nat)
  <2>1. CASE r = s
    BY <2>1 DEF Becomes
  <2>2. CASE r # s
    <3>1. call'[r] = call[r]
      BY <2>2 DEF Becomes
    <3>2. QED
      BY <3>1 DEF CallShape, CallOf
  <2>3. QED
    BY <2>1, <2>2
<1>2. DOMAIN call' = Sessions
  BY DEF Becomes
<1>3. QED
  BY <1>1, <1>2 DEF CallShape

(* Nor Open, if the call goes forward.                                     *)
LEMMA OpenMoves ==
    ASSUME Open, NEW s \in Sessions, NEW place, NEW f, NEW w, NEW t,
           Becomes(s, place, f, w, t), UNCHANGED <<registered, closed, dist>>,
           call[s].at \in Streaming => place \in Streaming,
           call[s].at \in Begun => place \in Begun
    PROVE  Open'
<1>1. \A r \in Sessions : /\ call[r].at \in Streaming => call'[r].at \in Streaming
                          /\ call[r].at \in Begun => call'[r].at \in Begun
  BY DEF Becomes
<1>2. QED
  BY <1>1 DEF Open

-----------------------------------------------------------------------------
(* Open is an invariant.                                                   *)

(* The actions that touch neither the calls nor who is registered.         *)
LEMMA SameCalls ==
    ASSUME CallShape, Open, UNCHANGED <<call, registered, closed, dist>>
    PROVE  CallShape' /\ Open'
<1>1. QED
  BY DEF CallShape, Open, CallOf

(* The distributor keeps Open: it forgets whom it closes.                  *)
LEMMA OpenDistributes ==
    ASSUME CallShape, Open, Distribute
    PROVE  CallShape' /\ Open'
<1>1. CASE TakeMessage
  BY <1>1 DEF TakeMessage, subscribers, CallShape, Open, CallOf
<1>2. CASE Offer
  <2>1. PICK s \in dist.todo : Skip(s) \/ Put(s) \/ TimeOut(s)
    BY <1>2 DEF Offer
  <2>2. /\ dist' = [dist EXCEPT !.todo = @ \ {s}]
           \/ dist' = [dist EXCEPT !.todo = @ \ {s}, !.slow = @ \cup TooSlow(s)]
        /\ TooSlow(s) \subseteq {s}
    BY <2>1 DEF Skip, Put, TimeOut, TooSlow
  <2>3. /\ dist.phase = "loop" /\ UNCHANGED <<call, registered, closed>>
    BY <1>2 DEF Offer
  <2>4. s \in registered
    BY <2>3 DEF Open
  <2>5. call[s].at \in Begun
    BY <2>4 DEF Open, Begun
  <2>6. /\ dist' = [phase |-> dist.phase, msg |-> dist.msg, todo |-> dist'.todo, slow |-> dist'.slow]
        /\ dist'.todo \subseteq dist.todo
        /\ dist'.slow \subseteq dist.slow \cup {s}
    BY <2>2 DEF CallShape
  <2>7. QED
    BY <2>3, <2>4, <2>5, <2>6 DEF CallShape, Open, CallOf
<1>3. CASE EndRound
  BY <1>3 DEF EndRound, subscribers, CallShape, Open, CallOf, Resting
<1>4. CASE Cleanup
  BY <1>4 DEF Cleanup, Cleaned, ClosedSlow, CallShape, Open, CallOf, Resting
<1>5. QED
  BY <1>1, <1>2, <1>3, <1>4 DEF Distribute

(* So does every step of a call.                                           *)
LEMMA OpenCalls ==
    ASSUME SubscriptionAssumption, CallShape, Open,
           NEW s \in Sessions, Ask(s) \/ Subscribe(s) \/ Disconnect(s)
    PROVE  CallShape' /\ Open'
<1>0. call[s].filter \in Seq(Nat \X Nat) /\ closed \in [Sessions -> BOOLEAN]
  BY DEF CallShape
<1>1. CASE Ask(s)
  <2>1. PICK f \in Filters, h \in Headers : Call(s, f, h)
    BY <1>1 DEF Ask
  <2>2. Becomes(s, "lookup", f, call[s].answer, call[s].target)
    BY <2>1, CallMoves
  <2>3. f \in Seq(Nat \X Nat)
    BY DEF SubscriptionAssumption
  <2>4. call[s].at = "idle" /\ UNCHANGED <<registered, closed, dist>>
    BY <2>1 DEF Call, At, subscribers
  <2>5. QED
    BY <1>0, <2>2, <2>3, <2>4, ShapeMoves, OpenMoves DEF Begun, Streaming
<1>2. CASE NewStream(s)
  <2>1. PICK place : Becomes(s, place, call[s].filter, call[s].answer, {})
    BY <1>2, GetMoves DEF NewStream
  <2>2. /\ call[s].at = "lookup" /\ registered' \subseteq registered
        /\ UNCHANGED <<closed, dist>>
    BY <1>2 DEF NewStream, At
  <2>3. registered' = registered \/ dist.phase # "loop"
    BY <1>2 DEF NewStream, WriteLock
  <2>4. CallShape'
    BY <1>0, <2>1, <2>2, ShapeMoves
  <2>5. \A r \in Sessions : call[r].at \in Begun => call'[r].at = call[r].at
    BY <2>1, <2>2 DEF Becomes, Begun, Streaming
  <2>6. QED
    BY <2>2, <2>3, <2>4, <2>5 DEF Open, Begun
<1>3. CASE \E t \in registered : Resubscribe(s, t)
  <2>1. PICK t \in registered : Resubscribe(s, t)
    BY <1>3
  <2>2. /\ call[s].at = "lookup" /\ UNCHANGED <<registered, closed, dist>>
        /\ Goto(s, "ended") \/ \E f : Get(s, f, {t})
    BY <2>1 DEF Resubscribe, At
  <2>3. \E place, g : Becomes(s, place, call[s].filter, call[s].answer, g)
    BY <2>2, GotoMoves, GetMoves
  <2>4. QED
    BY <1>0, <2>2, <2>3, ShapeMoves, OpenMoves DEF Begun, Streaming
<1>4. CASE ReadUnit(s)
  <2>1. \E place, w : Becomes(s, place, call[s].filter, w, call[s].target)
    BY <1>4, ReadMoves
  <2>2. call[s].at = "get" /\ UNCHANGED <<registered, closed, dist>>
    BY <1>4 DEF ReadUnit, At, subscribers
  <2>3. QED
    BY <1>0, <2>1, <2>2, ShapeMoves, OpenMoves DEF Begun, Streaming
<1>5. CASE Forward(s)
  <2>1. call[s].at = "forward" /\ UNCHANGED <<registered, closed, dist>>
    BY <1>5 DEF Forward, At
  <2>2. \/ UNCHANGED call
        \/ \E a : call' = [call EXCEPT ![s].answer = @ \ {a}]
    BY <1>5 DEF Forward
  <2>3. CASE UNCHANGED call
    BY <2>1, <2>3, SameCalls
  <2>4. CASE \E a : call' = [call EXCEPT ![s].answer = @ \ {a}]
    BY <1>0, <2>1, <2>4, ForwardMoves, ShapeMoves, OpenMoves
  <2>5. QED
    BY <2>2, <2>3, <2>4
<1>6. CASE Receive(s)
  BY <1>6, SameCalls DEF Receive
<1>7. CASE Register(s)
  <2>1. /\ call[s].at = "register" /\ dist.phase # "loop" /\ UNCHANGED <<closed, dist>>
        /\ registered' = registered \cup {s} /\ Goto(s, "replay")
    BY <1>7 DEF Register, At, WriteLock
  <2>2. Becomes(s, "replay", call[s].filter, call[s].answer, call[s].target)
    BY <2>1, GotoMoves
  <2>3. CallShape'
    BY <1>0, <2>1, <2>2, ShapeMoves
  <2>4. /\ \A r \in Sessions \ {s} : call'[r] = call[r]
        /\ call'[s].at \in Streaming /\ ~closed[s] /\ call'[s].at \in Begun
    BY <2>1, <2>2 DEF Becomes, Open, Begun, Streaming
  <2>5. QED
    BY <2>1, <2>3, <2>4 DEF Open
<1>8. CASE Replay(s)
  <2>1. Becomes(s, "stream", call[s].filter, {}, call[s].target)
    BY <1>8, AnswerMoves DEF Replay
  <2>2. call[s].at = "replay" /\ UNCHANGED <<registered, closed, dist>>
    BY <1>8 DEF Replay, At, subscribers
  <2>3. QED
    BY <1>0, <2>1, <2>2, ShapeMoves, OpenMoves DEF Begun, Streaming
<1>9. CASE ForwardDone(s)
  <2>1. Goto(s, "ended") /\ call[s].at = "forward" /\ UNCHANGED <<registered, closed, dist>>
    BY <1>9 DEF ForwardDone, At, subscribers
  <2>2. QED
    BY <1>0, <2>1, GotoMoves, ShapeMoves, OpenMoves DEF Begun, Streaming
<1>10. CASE EndOfStream(s) \/ Disconnect(s)
  <2>1. Goto(s, "unregister") /\ call[s].at = "stream" /\ UNCHANGED <<registered, closed, dist>>
    BY <1>10 DEF EndOfStream, Disconnect, At, subscribers
  <2>2. QED
    BY <1>0, <2>1, GotoMoves, ShapeMoves, OpenMoves DEF Begun, Streaming
<1>11. CASE Unregister(s)
  <2>1. /\ call[s].at = "unregister" /\ dist.phase # "loop" /\ UNCHANGED <<closed, dist>>
        /\ registered' = registered \ {s} /\ Goto(s, "close")
    BY <1>11 DEF Unregister, At, WriteLock
  <2>2. Becomes(s, "close", call[s].filter, call[s].answer, call[s].target)
    BY <2>1, GotoMoves
  <2>3. CallShape'
    BY <1>0, <2>1, <2>2, ShapeMoves
  <2>4. /\ \A r \in Sessions \ {s} : call'[r] = call[r]
        /\ call'[s].at \in Begun
    BY <2>1, <2>2 DEF Becomes, Begun
  <2>5. QED
    BY <2>1, <2>3, <2>4 DEF Open
<1>12. CASE Close(s)
  <2>1. /\ call[s].at = "close" /\ UNCHANGED <<registered, dist>>
        /\ closed' = [closed EXCEPT ![s] = TRUE] /\ Goto(s, "ended")
    BY <1>12 DEF Close, At
  <2>2. Becomes(s, "ended", call[s].filter, call[s].answer, call[s].target)
    BY <2>1, GotoMoves
  <2>3. closed' \in [Sessions -> BOOLEAN] /\ \A r \in Sessions \ {s} : closed'[r] = closed[r]
    BY <1>0, <2>1
  <2>4. CallShape'
    BY <1>0, <2>1, <2>2, <2>3, ShapeMoves
  <2>5. /\ \A r \in Sessions \ {s} : call'[r] = call[r]
        /\ call'[s].at \in Begun /\ s \notin registered
    BY <2>1, <2>2 DEF Becomes, Begun, Open, Streaming
  <2>6. QED
    BY <2>1, <2>3, <2>4, <2>5 DEF Open
<1>13. QED
  BY <1>1, <1>2, <1>3, <1>4, <1>5, <1>6, <1>7, <1>8, <1>9, <1>10, <1>11, <1>12 DEF Subscribe

(* Open holds before anybody calls.                                        *)
LEMMA OpenInit ==
    ASSUME Init
    PROVE  CallShape /\ Open
<1>1. <<>> \in Seq(Nat \X Nat)
  BY EmptySeq
<1>2. QED
  BY <1>1 DEF Init, CallShape, Open, CallOf, Idle, Resting

(* And after every step.                                                   *)
LEMMA OpenStep ==
    ASSUME SubscriptionAssumption, CallShape, Open, [Next]_vars
    PROVE  CallShape' /\ Open'
<1>1. CASE Work
  <2>1. UNCHANGED <<call, registered, closed, dist>>
    BY <1>1 DEF Work, Publish, Raise, Resolve, Hold, Post, subscribers
  <2>2. QED
    BY <2>1, SameCalls
<1>2. CASE UNCHANGED vars
  BY <1>2, SameCalls DEF vars, subscribers
<1>3. QED
  BY <1>1, <1>2, OpenDistributes, OpenCalls DEF Next

(* The distributor never writes to a closed channel.                       *)
THEOREM RegisteredIsOpenHolds ==
    ASSUME SubscriptionAssumption
    PROVE  Spec => []RegisteredIsOpen
<1>1. Init => CallShape /\ Open
  BY OpenInit
<1>2. CallShape /\ Open /\ [Next]_vars => CallShape' /\ Open'
  BY SubscriptionAssumption, OpenStep
<1>3. Open => RegisteredIsOpen
  BY DEF Open, RegisteredIsOpen
<1>4. QED
  BY <1>1, <1>2, <1>3, PTL DEF Spec

-----------------------------------------------------------------------------
(* What the steps do to the messages on their way.                         *)
Inv == CallShape /\ DataShape /\ Open /\ AllOrdered /\ AllAnswered

(* What a client makes of the next message of its channel.                 *)
Shows(s, m) ==
    /\ m.id \in Ids /\ m.version \in Nat /\ m.version <= value[m.id]
    /\ view' = [view EXCEPT ![s] = [view[s] EXCEPT ![m.id] = m.version]]
Hears(s, m) ==
    /\ m.what = "value" /\ heard[s][m.id] < m.version
    /\ heard' = [heard EXCEPT ![s] = [heard[s] EXCEPT ![m.id] = m.version]]

(* What a client that reads one message may learn.                         *)
LEMMA Receives ==
    ASSUME Inv, NEW s \in Sessions, Receive(s)
    PROVE  LET m == Head(queue[s])
           IN /\ queue[s] # <<>> /\ m \in Range(queue[s])
              /\ queue' = [queue EXCEPT ![s] = Tail(@)]
              /\ \/ UNCHANGED <<view, heard>> /\ (m.what = "value" => m.id \notin Ids)
                 \/ Shows(s, m) /\ Hears(s, m)
                 \/ Shows(s, m) /\ UNCHANGED heard /\ s \in refilled
                    /\ m.what \notin {"value", "status"}
<1> DEFINE m == Head(queue[s])
<1>1. queue[s] # <<>> /\ queue' = [queue EXCEPT ![s] = Tail(@)]
  BY DEF Receive
<1>2. IsSeq(queue[s])
  BY DEF Inv, DataShape
<1>3. m \in Range(queue[s])
  BY <1>1, <1>2, TailIs
<1>4. CASE m.what = "status"
  <2>1. UNCHANGED <<view, heard>>
    BY <1>4 DEF Receive
  <2>2. QED
    BY <1>1, <1>3, <1>4, <2>1
<1>5. CASE m.what = "value"
  <2>1. /\ view' = [view EXCEPT ![s][m.id] = m.version]
        /\ heard' = [heard EXCEPT ![s][m.id] = m.version]
    BY <1>5 DEF Receive
  <2>2. view \in [Sessions -> [Ids -> Nat]] /\ heard \in [Sessions -> [Ids -> Nat]]
    BY DEF Inv, DataShape
  <2>3. CASE m.id \in Ids
    <3>1. Ordered(s, m.id)
      BY <2>3 DEF Inv, AllOrdered
    <3>2. m.version \in Nat /\ heard[s][m.id] < m.version /\ m.version <= value[m.id]
      BY <1>3, <1>5, <3>1 DEF Ordered, Is
    <3>3. Shows(s, m) /\ Hears(s, m)
      BY <1>5, <2>1, <2>3, <3>2 DEF Shows, Hears
    <3>4. QED
      BY <1>1, <1>3, <3>3
  <2>4. CASE m.id \notin Ids
    <3>1. UNCHANGED <<view, heard>>
      BY <2>1, <2>2, <2>4
    <3>2. QED
      BY <1>1, <1>3, <2>4, <3>1
  <2>5. QED
    BY <2>3, <2>4
<1>6. CASE m.what \notin {"value", "status"}
  <2>1. view' = [view EXCEPT ![s][m.id] = m.version] /\ UNCHANGED heard
    BY <1>6 DEF Receive
  <2>2. view \in [Sessions -> [Ids -> Nat]]
    BY DEF Inv, DataShape
  <2>3. /\ s \in refilled
        /\ m.id \in Ids => m.version \in Nat /\ m.version <= value[m.id]
    BY <1>3, <1>6 DEF Inv, AllAnswered, Answered
  <2>4. CASE m.id \in Ids
    BY <1>1, <1>3, <1>6, <2>1, <2>3, <2>4 DEF Shows
  <2>5. CASE m.id \notin Ids
    <3>1. UNCHANGED view
      BY <2>1, <2>2, <2>5
    <3>2. QED
      BY <1>1, <1>3, <1>6, <2>1, <3>1
  <2>6. QED
    BY <2>4, <2>5
<1>7. QED
  BY <1>4, <1>5, <1>6

(* A resubscription hands on one value it read, or none.                   *)
LEMMA Forwards ==
    ASSUME NEW s \in Sessions, Forward(s)
    PROVE  /\ UNCHANGED <<value, watcher, dist, registered, filter, closed, view, heard, since, refilled>>
           /\ \/ UNCHANGED <<queue, call>>
              \/ \E a \in call[s].answer, t \in call[s].target : \E m :
                    /\ m.what = "reread" /\ m.id = a[1] /\ m.version = a[2]
                    /\ queue' = [queue EXCEPT ![t] = Append(@, m)]
                    /\ call' = [call EXCEPT ![s].answer = @ \ {a}]
<1>1. UNCHANGED <<value, watcher, dist, registered, filter, closed, view, heard, since, refilled>>
  BY DEF Forward, core, clients
<1>2. PICK a \in call[s].answer, t \in call[s].target :
        IF closed[t]
        THEN crashed' = TRUE /\ UNCHANGED <<queue, call>>
        ELSE /\ Fits(t)
             /\ queue' = [queue EXCEPT ![t] = Append(@, [ValueMessage(a[1], a[2])
                                                           EXCEPT !.what = "reread"])]
             /\ call' = [call EXCEPT ![s].answer = @ \ {a}]
             /\ UNCHANGED crashed
  BY DEF Forward
<1> DEFINE m == [ValueMessage(a[1], a[2]) EXCEPT !.what = "reread"]
<1>3. m = [what |-> "reread", id |-> a[1], version |-> a[2]]
  BY DEF ValueMessage
<1>4. CASE closed[t]
  BY <1>1, <1>2, <1>4
<1>5. CASE ~closed[t]
  <2>1. queue' = [queue EXCEPT ![t] = Append(@, m)] /\ call' = [call EXCEPT ![s].answer = @ \ {a}]
    BY <1>2, <1>5
  <2>2. m.what = "reread" /\ m.id = a[1] /\ m.version = a[2]
    BY <1>3
  <2>3. QED
    BY <1>1, <2>1, <2>2
<1>6. QED
  BY <1>4, <1>5

-----------------------------------------------------------------------------
(* DataShape is kept.                                                      *)
LEMMA SameData ==
    ASSUME DataShape,
           UNCHANGED <<value, posting, watcher, queue, filter, view, heard, since>>,
           dist'.phase = "loop" => dist.phase = "loop" /\ dist'.msg = dist.msg
    PROVE  DataShape'
<1>1. QED
  BY DEF DataShape

(* Sending to one client leaves every channel a channel.                   *)
LEMMA Appended ==
    ASSUME DataShape, NEW t, NEW m,
           UNCHANGED queue \/ queue' = [queue EXCEPT ![t] = Append(@, m)]
    PROVE  DOMAIN queue' = Sessions /\ \A r \in Sessions : IsSeq(queue'[r])
<1>1. DOMAIN queue' = Sessions
  BY DEF DataShape
<1>2. ASSUME NEW r \in Sessions
      PROVE  IsSeq(queue'[r])
  <2>1. IsSeq(queue[r]) /\ DOMAIN queue = Sessions
    BY DEF DataShape
  <2>2. IsSeq(Append(queue[r], m))
    BY <2>1, AppendIs
  <2>3. queue'[r] = queue[r] \/ queue'[r] = Append(queue[r], m)
    BY <2>1
  <2>4. QED
    BY <2>1, <2>2, <2>3
<1>3. QED
  BY <1>1, <1>2

(* Workers keep the shapes.                                                *)
LEMMA DataWorks ==
    ASSUME SubscriptionAssumption, DataShape, Work
    PROVE  DataShape'
<1>1. ASSUME NEW p \in Params, Publish(p)
      PROVE  DataShape'
  <2>1. /\ value' = [value EXCEPT ![p] = @ + 1]
        /\ watcher' = Append(watcher, ValueMessage(p, value'[p]))
        /\ UNCHANGED <<posting, dist, filter, queue, view, heard, since>>
    BY <1>1 DEF Publish, Posted, subscribers, clients
  <2>2. p \in Ids
    BY DEF SubscriptionAssumption
  <2>3. value' \in [Ids -> Nat]
    BY <2>1, <2>2 DEF DataShape
  <2>4. IsSeq(watcher') /\ \A m \in Range(watcher') : m.what \in {"value", "status"}
    BY <2>1, AppendIs DEF DataShape, ValueMessage
  <2>5. QED
    BY <2>1, <2>3, <2>4 DEF DataShape
<1>2. ASSUME NEW st, NEW type, Hold(st, type)
      PROVE  DataShape'
  <2>1. /\ posting' = [posting EXCEPT ![st.id[1]] = StatusMessage(st, type)]
        /\ UNCHANGED <<value, watcher, dist, filter, queue, view, heard, since>>
    BY <1>2 DEF Hold, subscribers, clients
  <2>2. StatusMessage(st, type).what = "status"
    BY DEF StatusMessage
  <2>3. DOMAIN posting' = Workers /\ \A d \in Workers : posting'[d] = NoMessage \/ posting'[d].what = "status"
    BY <2>1, <2>2 DEF DataShape
  <2>4. QED
    BY <2>1, <2>3 DEF DataShape
<1>3. ASSUME NEW d \in Workers, Post(d)
      PROVE  DataShape'
  <2>1. /\ posting[d] # NoMessage
        /\ watcher' = Append(watcher, posting[d])
        /\ posting' = [posting EXCEPT ![d] = NoMessage]
        /\ UNCHANGED <<value, dist, filter, queue, view, heard, since>>
    BY <1>3 DEF Post, Posted, subscribers, clients
  <2>2. posting[d].what = "status"
    BY <2>1 DEF DataShape
  <2>3. IsSeq(watcher') /\ \A m \in Range(watcher') : m.what \in {"value", "status"}
    BY <2>1, <2>2, AppendIs DEF DataShape
  <2>4. DOMAIN posting' = Workers /\ \A e \in Workers : posting'[e] = NoMessage \/ posting'[e].what = "status"
    BY <2>1 DEF DataShape
  <2>5. QED
    BY <2>1, <2>3, <2>4 DEF DataShape
<1>4. QED
  BY <1>1, <1>2, <1>3 DEF Work, Raise, Resolve

(* So does the distributor.                                                *)
LEMMA DataDistributes ==
    ASSUME DataShape, CallShape, Distribute
    PROVE  DataShape'
<1>1. CASE TakeMessage
  <2>1. /\ watcher # <<>> /\ watcher' = Tail(watcher) /\ dist'.msg = Head(watcher)
        /\ UNCHANGED <<value, posting, filter, queue, view, heard, since>>
    BY <1>1 DEF TakeMessage, core, subscribers, clients
  <2>2. IsSeq(watcher)
    BY DEF DataShape
  <2>3. /\ IsSeq(watcher') /\ Head(watcher) \in Range(watcher)
        /\ \A m \in Range(watcher') : m \in Range(watcher)
    BY <2>1, <2>2, TailIs
  <2>4. QED
    BY <2>1, <2>3 DEF DataShape
<1>2. CASE Offer
  <2>1. PICK s \in dist.todo : Skip(s) \/ Put(s) \/ TimeOut(s)
    BY <1>2 DEF Offer
  <2>2. /\ UNCHANGED <<value, posting, watcher, filter, view, heard, since>>
        /\ dist.phase = "loop"
    BY <1>2 DEF Offer, core, clients
  <2>3. dist'.msg = dist.msg
    BY <2>1 DEF Skip, Put, TimeOut, CallShape
  <2>4. DOMAIN queue' = Sessions /\ \A r \in Sessions : IsSeq(queue'[r])
    <3>1. UNCHANGED queue \/ queue' = [queue EXCEPT ![s] = Append(@, dist.msg)]
      BY <2>1 DEF Skip, Put, TimeOut
    <3>2. QED
      BY <3>1, Appended
  <2>5. QED
    BY <2>2, <2>3, <2>4 DEF DataShape
<1>3. CASE EndRound \/ Cleanup
  <2>1. UNCHANGED <<value, posting, watcher, queue, filter, view, heard, since>>
    BY <1>3 DEF EndRound, Cleanup, core, subscribers, clients
  <2>2. dist'.phase # "loop"
    <3>1. CASE EndRound
      BY <3>1 DEF EndRound, Resting
    <3>2. CASE Cleanup
      BY <3>2 DEF Cleanup, Resting
    <3>3. QED
      BY <1>3, <3>1, <3>2
  <2>3. QED
    BY <2>1, <2>2, SameData
<1>4. QED
  BY <1>1, <1>2, <1>3 DEF Distribute

(* So do the calls.                                                        *)
LEMMA DataCalls ==
    ASSUME SubscriptionAssumption, Inv, NEW s \in Sessions, Ask(s) \/ Subscribe(s) \/ Disconnect(s)
    PROVE  DataShape'
<1>1. CASE \/ Ask(s) \/ NewStream(s) \/ ReadUnit(s) \/ ForwardDone(s) \/ EndOfStream(s)
           \/ Unregister(s) \/ Close(s) \/ Disconnect(s)
  <2>1. UNCHANGED <<value, posting, watcher, queue, filter, view, heard, since, dist>>
    BY <1>1 DEF Ask, Call, NewStream, ReadUnit, ForwardDone, EndOfStream, Unregister, Close,
                Disconnect, core, subscribers, clients
  <2>2. QED
    BY <2>1, SameData DEF Inv
<1>2. CASE \E t \in registered : Resubscribe(s, t)
  <2>1. PICK t \in registered : Resubscribe(s, t)
    BY <1>2
  <2>2. /\ filter' = [filter EXCEPT ![t] = call[s].filter]
        /\ DOMAIN since' = DOMAIN since
        /\ UNCHANGED <<value, posting, watcher, queue, view, heard, dist>>
    BY <2>1 DEF Resubscribe, core
  <2>3. DOMAIN filter' = Sessions /\ \A r \in Sessions : filter'[r] \in Seq(Nat \X Nat)
    BY <2>2 DEF Inv, DataShape, CallShape
  <2>4. QED
    BY <2>2, <2>3 DEF Inv, DataShape
<1>3. CASE Forward(s)
  <2>1. UNCHANGED <<value, posting, watcher, filter, view, heard, since, dist>>
    BY <1>3 DEF Forward, core, clients
  <2>2. UNCHANGED queue \/ \E t, m : queue' = [queue EXCEPT ![t] = Append(@, m)]
    BY <1>3, Forwards
  <2>3. DOMAIN queue' = Sessions /\ \A r \in Sessions : IsSeq(queue'[r])
    BY <2>2, Appended DEF Inv
  <2>4. QED
    BY <2>1, <2>3 DEF Inv, DataShape
<1>4. CASE Register(s)
  <2>1. /\ filter' = [filter EXCEPT ![s] = call[s].filter]
        /\ since' = [since EXCEPT ![s] = value]
        /\ UNCHANGED <<value, posting, watcher, queue, view, heard, dist>>
    BY <1>4 DEF Register, core
  <2>2. DOMAIN filter' = Sessions /\ \A r \in Sessions : filter'[r] \in Seq(Nat \X Nat)
    BY <2>1 DEF Inv, DataShape, CallShape
  <2>3. QED
    BY <2>1, <2>2 DEF Inv, DataShape
<1>5. CASE Replay(s)
  <2>1. /\ view' = [view EXCEPT ![s] = [p \in Ids |->
                    IF \E v \in Versions : <<p, v>> \in call[s].answer
                    THEN CHOOSE v \in Versions : <<p, v>> \in call[s].answer
                    ELSE view[s][p]]]
        /\ UNCHANGED <<value, posting, watcher, queue, filter, heard, since, dist>>
    BY <1>5 DEF Replay, core, subscribers
  <2>2. Versions \subseteq Nat
    BY DEF Versions, SubscriptionAssumption
  <2>3. view' \in [Sessions -> [Ids -> Nat]]
    BY <2>1, <2>2 DEF Inv, DataShape
  <2>4. QED
    BY <2>1, <2>3 DEF Inv, DataShape
<1>6. CASE Receive(s)
  <2>1. UNCHANGED <<value, posting, watcher, filter, since, dist>>
    BY <1>6 DEF Receive, core
  <2>2. IsSeq(queue[s])
    BY DEF Inv, DataShape
  <2>3. queue[s] # <<>> /\ queue' = [queue EXCEPT ![s] = Tail(@)]
    BY <1>6, Receives
  <2>4. DOMAIN queue' = Sessions /\ \A r \in Sessions : IsSeq(queue'[r])
    BY <2>2, <2>3, TailIs DEF Inv, DataShape
  <2>5. \/ UNCHANGED <<view, heard>>
        \/ \E m : Shows(s, m) /\ (Hears(s, m) \/ UNCHANGED heard)
    BY <1>6, Receives
  <2>6. view' \in [Sessions -> [Ids -> Nat]] /\ heard' \in [Sessions -> [Ids -> Nat]]
    <3>1. view \in [Sessions -> [Ids -> Nat]] /\ heard \in [Sessions -> [Ids -> Nat]]
      BY DEF Inv, DataShape
    <3>2. ASSUME NEW m, Shows(s, m)
          PROVE  /\ view' \in [Sessions -> [Ids -> Nat]]
                 /\ Hears(s, m) => heard' \in [Sessions -> [Ids -> Nat]]
      <4>1. m.version \in Nat
        BY <3>2 DEF Shows
      <4>2. [view[s] EXCEPT ![m.id] = m.version] \in [Ids -> Nat]
        BY <3>1, <4>1
      <4>3. [heard[s] EXCEPT ![m.id] = m.version] \in [Ids -> Nat]
        BY <3>1, <4>1
      <4>4. QED
        BY <3>1, <3>2, <4>2, <4>3 DEF Shows, Hears
    <3>3. QED
      BY <2>5, <3>1, <3>2
  <2>7. QED
    BY <2>1, <2>4, <2>6 DEF Inv, DataShape
<1>7. QED
  BY <1>1, <1>2, <1>3, <1>4, <1>5, <1>6 DEF Subscribe

-----------------------------------------------------------------------------
(* Ordered is kept.                                                        *)
LEMMA SameOrder ==
    ASSUME NEW s, NEW p, Ordered(s, p), UNCHANGED <<value, heard, queue, watcher>>,
           dist'.phase = "loop" => /\ dist.phase = "loop" /\ dist'.msg = dist.msg
                                   /\ dist'.todo \subseteq dist.todo
    PROVE  Ordered(s, p)'
<1>1. QED
  BY DEF Ordered

(* A message that is no value of p changes nothing for p.                  *)
LEMMA OtherEnters ==
    ASSUME NEW q, IsSeq(q), NEW m, NEW p, Rising(q, p), ~Is(m, p)
    PROVE  /\ Rising(Append(q, m), p)
           /\ \A n \in Range(Append(q, m)) : Is(n, p) => n \in Range(q)
<1>1. \A n \in Range(q) : Older(n, m, p)
  BY DEF Older
<1>2. QED
  BY <1>1, AppendIs, AppendRises

(* A new version is above all on the way.                                  *)
LEMMA OrderedWorks ==
    ASSUME SubscriptionAssumption, DataShape, AllOrdered, Work,
           NEW s \in Sessions, NEW p \in Ids
    PROVE  Ordered(s, p)'
<1>0. IsSeq(watcher) /\ Ordered(s, p) /\ value \in [Ids -> Nat] /\ heard[s][p] \in Nat
  BY DEF DataShape, AllOrdered
<1>1. ASSUME NEW x \in Params, Publish(x)
      PROVE  Ordered(s, p)'
  <2> DEFINE m == ValueMessage(x, value'[x])
  <2>1. /\ value' = [value EXCEPT ![x] = @ + 1] /\ watcher' = Append(watcher, m)
        /\ UNCHANGED <<dist, queue, heard>>
    BY <1>1 DEF Publish, Posted, subscribers, clients
  <2>2. m.what = "value" /\ m.id = x /\ m.version = value'[x]
    BY DEF ValueMessage
  <2>3. x \in Ids
    BY DEF SubscriptionAssumption
  <2>4. CASE x = p
    <3>1. value'[p] = value[p] + 1 /\ value[p] \in Nat /\ m.version = value[p] + 1
      BY <1>0, <2>1, <2>2, <2>4
    <3>2. \A n : Is(n, p) /\ n.version \in Nat /\ n.version <= value[p] => Older(n, m, p)
      BY <3>1 DEF Older
    <3>3. \A n \in Range(queue[s]) \cup Range(watcher) : Older(n, m, p)
      BY <1>0, <3>2 DEF Ordered, Older
    <3>4. dist.phase = "loop" /\ Is(dist.msg, p) => Older(dist.msg, m, p)
      BY <1>0, <3>2 DEF Ordered
    <3>5. Rising(watcher', p) /\ \A n : n \in Range(watcher') <=> n \in Range(watcher) \/ n = m
      BY <1>0, <2>1, <3>3, AppendIs, AppendRises DEF Ordered
    <3>6. QED
      BY <1>0, <2>1, <3>1, <3>3, <3>4, <3>5 DEF Ordered
  <2>5. CASE x # p
    <3>1. ~Is(m, p) /\ value'[p] = value[p]
      BY <1>0, <2>1, <2>2, <2>5 DEF Is
    <3>2. \A n : Older(n, m, p)
      BY <3>1 DEF Older
    <3>3. Rising(watcher', p) /\ \A n : n \in Range(watcher') <=> n \in Range(watcher) \/ n = m
      BY <1>0, <2>1, <3>2, AppendIs, AppendRises DEF Ordered
    <3>4. QED
      BY <1>0, <2>1, <3>1, <3>2, <3>3 DEF Ordered
  <2>6. QED
    BY <2>4, <2>5
<1>2. ASSUME NEW st, NEW type, Hold(st, type)
      PROVE  Ordered(s, p)'
  BY <1>0, <1>2, SameOrder DEF Hold, subscribers, clients
<1>3. ASSUME NEW d \in Workers, Post(d)
      PROVE  Ordered(s, p)'
  <2>1. /\ posting[d].what = "status" /\ watcher' = Append(watcher, posting[d])
        /\ UNCHANGED <<value, dist, queue, heard>>
    BY <1>3 DEF Post, Posted, subscribers, clients, DataShape
  <2>2. ~Is(posting[d], p) /\ \A n : Older(n, posting[d], p)
    BY <2>1 DEF Is, Older
  <2>3. Rising(watcher', p) /\ \A n : n \in Range(watcher') <=> n \in Range(watcher) \/ n = posting[d]
    BY <1>0, <2>1, <2>2, AppendIs, AppendRises DEF Ordered
  <2>4. QED
    BY <1>0, <2>1, <2>2, <2>3 DEF Ordered
<1>4. QED
  BY <1>1, <1>2, <1>3 DEF Work, Raise, Resolve

(* The distributor takes from the watcher's head and adds at a channel's end. *)
LEMMA OrderedDistributes ==
    ASSUME CallShape, DataShape, Open, AllOrdered, Distribute,
           NEW s \in Sessions, NEW p \in Ids
    PROVE  Ordered(s, p)'
<1>0. /\ IsSeq(watcher) /\ IsSeq(queue[s]) /\ Ordered(s, p)
      /\ DOMAIN queue = Sessions
  BY DEF DataShape, AllOrdered
<1>1. CASE TakeMessage
  <2>1. /\ watcher # <<>> /\ watcher' = Tail(watcher)
        /\ dist'.msg = Head(watcher) /\ UNCHANGED <<value, queue, heard>>
    BY <1>1 DEF TakeMessage, core, subscribers, clients
  <2>2. /\ \A n : n \in Range(watcher) <=> n = Head(watcher) \/ n \in Range(watcher')
        /\ Rising(watcher', p) /\ \A n \in Range(watcher') : Older(Head(watcher), n, p)
    BY <1>0, <2>1, TailIs DEF Ordered
  <2>3. QED
    BY <1>0, <2>1, <2>2 DEF Ordered
<1>2. CASE Offer
  <2>1. PICK r \in dist.todo : Skip(r) \/ Put(r) \/ TimeOut(r)
    BY <1>2 DEF Offer
  <2>2. dist.phase = "loop" /\ UNCHANGED <<value, watcher, heard>>
    BY <1>2 DEF Offer, core, clients
  <2>3. /\ dist'.phase = "loop" /\ dist'.msg = dist.msg /\ dist'.todo = dist.todo \ {r}
    BY <2>1, <2>2 DEF Skip, Put, TimeOut, CallShape
  <2>4. CASE UNCHANGED queue
    BY <1>0, <2>2, <2>3, <2>4, SameOrder
  <2>5. CASE queue' = [queue EXCEPT ![r] = Append(@, dist.msg)]
    <3>1. CASE s # r
      <4>1. queue'[s] = queue[s]
        BY <2>5, <3>1
      <4>2. QED
        BY <1>0, <2>2, <2>3, <4>1 DEF Ordered
    <3>2. CASE s = r
      <4>1. queue'[s] = Append(queue[s], dist.msg)
        BY <1>0, <2>5, <3>2
      <4>2. \A n \in Range(queue[s]) : Older(n, dist.msg, p)
        BY <1>0, <2>1, <2>2, <3>2 DEF Ordered, Older
      <4>3. /\ Rising(queue'[s], p)
            /\ \A n : n \in Range(queue'[s]) <=> n \in Range(queue[s]) \/ n = dist.msg
        BY <1>0, <4>1, <4>2, AppendIs, AppendRises DEF Ordered
      <4>4. Is(dist.msg, p) => heard[s][p] < dist.msg.version
        BY <1>0, <2>1, <2>2, <3>2 DEF Ordered
      <4>5. \A n \in Range(watcher) : Older(dist.msg, n, p)
        BY <1>0, <2>2 DEF Ordered, Older
      <4>6. s \notin dist'.todo
        BY <2>3, <3>2
      <4>7. QED
        BY <1>0, <2>2, <2>3, <4>3, <4>4, <4>5, <4>6 DEF Ordered
    <3>3. QED
      BY <3>1, <3>2
  <2>6. QED
    BY <2>1, <2>4, <2>5 DEF Skip, Put, TimeOut
<1>3. CASE EndRound
  BY <1>0, <1>3, SameOrder DEF EndRound, Resting, core, subscribers, clients
<1>4. CASE Cleanup
  BY <1>0, <1>4, SameOrder DEF Cleanup, Resting, core, clients
<1>5. QED
  BY <1>1, <1>2, <1>3, <1>4 DEF Distribute

(* A call adds no update of its own; what it reads is marked as such.      *)
LEMMA OrderedCalls ==
    ASSUME Inv, NEW r \in Sessions, Ask(r) \/ Subscribe(r) \/ Disconnect(r),
           NEW s \in Sessions, NEW p \in Ids
    PROVE  Ordered(s, p)'
<1>0. /\ IsSeq(queue[s]) /\ Ordered(s, p) /\ DOMAIN queue = Sessions
      /\ value \in [Ids -> Nat] /\ heard \in [Sessions -> [Ids -> Nat]]
  BY DEF Inv, DataShape, AllOrdered
<1>1. CASE \/ Ask(r) \/ NewStream(r) \/ ReadUnit(r) \/ ForwardDone(r) \/ EndOfStream(r)
           \/ Unregister(r) \/ Close(r) \/ Disconnect(r)
  <2>1. UNCHANGED <<value, watcher, queue, heard, dist>>
    BY <1>1 DEF Ask, Call, NewStream, ReadUnit, ForwardDone, EndOfStream, Unregister, Close,
                Disconnect, core, subscribers, clients
  <2>2. QED
    BY <1>0, <2>1, SameOrder
<1>2. CASE (\E t \in registered : Resubscribe(r, t)) \/ Register(r) \/ Replay(r)
  <2>1. UNCHANGED <<value, watcher, queue, heard, dist>>
    BY <1>2 DEF Resubscribe, Register, Replay, core, subscribers
  <2>2. QED
    BY <1>0, <2>1, SameOrder
<1>3. CASE Forward(r)
  <2>1. UNCHANGED <<value, watcher, heard, dist>>
    BY <1>3, Forwards
  <2>2. CASE UNCHANGED queue
    BY <1>0, <2>1, <2>2, SameOrder
  <2>3. CASE \E t, m : m.what = "reread" /\ queue' = [queue EXCEPT ![t] = Append(@, m)]
    <3>1. PICK t, m : m.what = "reread" /\ queue' = [queue EXCEPT ![t] = Append(@, m)]
      BY <2>3
    <3>2. ~Is(m, p) /\ \A n : Older(m, n, p)
      BY <3>1 DEF Is, Older
    <3>3. queue'[s] = queue[s] \/ queue'[s] = Append(queue[s], m)
      BY <1>0, <3>1
    <3>4. /\ Rising(queue'[s], p)
          /\ \A n \in Range(queue'[s]) : Is(n, p) => n \in Range(queue[s])
      BY <1>0, <3>2, <3>3, OtherEnters DEF Ordered
    <3>5. \A n \in Range(queue'[s]) : n \in Range(queue[s]) \/ ~Is(n, p)
      BY <3>4
    <3>6. QED
      BY <1>0, <2>1, <3>4, <3>5 DEF Ordered, Older
  <2>4. QED
    BY <1>3, <2>2, <2>3, Forwards
<1>4. CASE Receive(r)
  <2> DEFINE m == Head(queue[r])
  <2>1. UNCHANGED <<value, watcher, dist>>
    BY <1>4 DEF Receive, core
  <2>2. /\ queue[r] # <<>> /\ m \in Range(queue[r])
        /\ queue' = [queue EXCEPT ![r] = Tail(@)]
        /\ \/ UNCHANGED heard
           \/ Shows(r, m) /\ Hears(r, m)
    BY <1>4, Receives
  <2>3. CASE s # r
    <3>1. queue'[s] = queue[s] /\ heard'[s] = heard[s]
      BY <1>0, <2>2, <2>3 DEF Hears
    <3>2. QED
      BY <1>0, <2>1, <3>1 DEF Ordered
  <2>4. CASE s = r
    <3>1. queue'[s] = Tail(queue[s])
      BY <1>0, <2>2, <2>4
    <3>2. /\ \A n : n \in Range(queue[s]) <=> n = m \/ n \in Range(queue'[s])
          /\ Rising(queue'[s], p) /\ \A n \in Range(queue'[s]) : Older(m, n, p)
      BY <1>0, <2>2, <2>4, <3>1, TailIs DEF Ordered
    <3>3. CASE heard'[s][p] = heard[s][p]
      BY <1>0, <2>1, <3>2, <3>3 DEF Ordered
    <3>4. CASE heard'[s][p] # heard[s][p]
      <4>1. Shows(r, m) /\ Hears(r, m)
        BY <2>2, <2>4, <3>4
      <4>2. m.id = p /\ heard'[s][p] = m.version
        BY <1>0, <2>4, <3>4, <4>1 DEF Hears
      <4>3. Is(m, p) /\ m.version \in Nat /\ m.version <= value[p]
        BY <4>1, <4>2 DEF Hears, Shows, Is
      <4>4. /\ \A n \in Range(queue'[s]) : Is(n, p) => m.version < n.version
            /\ \A n \in Range(watcher) : Is(n, p) => m.version < n.version
        BY <1>0, <2>2, <2>4, <3>2, <4>3 DEF Ordered, Older
      <4>5. dist.phase = "loop" /\ Is(dist.msg, p) /\ s \in dist.todo => m.version < dist.msg.version
        BY <1>0, <2>2, <2>4, <4>3 DEF Ordered, Older
      <4>6. QED
        BY <1>0, <2>1, <3>2, <4>2, <4>3, <4>4, <4>5 DEF Ordered
    <3>5. QED
      BY <3>3, <3>4
  <2>5. QED
    BY <2>3, <2>4
<1>5. QED
  BY <1>1, <1>2, <1>3, <1>4 DEF Subscribe

-----------------------------------------------------------------------------
(* Answered is kept.                                                       *)
Grows == \A p \in Ids : value[p] \in Nat /\ value'[p] \in Nat /\ value[p] <= value'[p]

(* Values only grow, so an answer stays no newer than they are.            *)
LEMMA SameAnswers ==
    ASSUME NEW s, Answered(s), Grows, UNCHANGED <<call, heard, queue, refilled>>
    PROVE  Answered(s)'
<1>1. QED
  BY DEF Answered, Grows

(* A step of one call keeps Answered if its answer is not ahead of the values. *)
LEMMA AnsweredMoves ==
    ASSUME AllAnswered, NEW r \in Sessions, NEW place, NEW f, NEW w, NEW t,
           Becomes(r, place, f, w, t),
           UNCHANGED <<value, heard, queue>>, refilled \subseteq refilled',
           \A a \in w : a[1] \in Ids => a[2] \in Nat /\ a[2] <= value[a[1]],
           place \in {"get", "forward"} => t \subseteq refilled',
           place \in Waiting => call[r].at \in Waiting
    PROVE  AllAnswered'
<1>1. ASSUME NEW s \in Sessions
      PROVE  Answered(s)'
  <2>1. Answered(s)
    BY DEF AllAnswered
  <2>2. CASE s = r
    BY <2>1, <2>2 DEF Answered, Becomes
  <2>3. CASE s # r
    <3>1. call'[s] = call[s]
      BY <2>3 DEF Becomes
    <3>2. QED
      BY <2>1, <3>1 DEF Answered
  <2>4. QED
    BY <2>2, <2>3
<1>2. QED
  BY <1>1 DEF AllAnswered

(* Workers keep Answered.                                                  *)
LEMMA AnsweredWorks ==
    ASSUME SubscriptionAssumption, DataShape, AllAnswered, Work
    PROVE  AllAnswered'
<1>1. UNCHANGED <<call, heard, queue, refilled>>
  BY DEF Work, Publish, Raise, Resolve, Hold, Post, subscribers, clients
<1>2. value \in [Ids -> Nat]
  BY DEF DataShape
<1>3. UNCHANGED value \/ \E p \in Params : value' = [value EXCEPT ![p] = @ + 1]
  BY DEF Work, Publish, Raise, Resolve, Hold, Post
<1>4. Params \subseteq Ids
  BY DEF SubscriptionAssumption
<1>5. Grows
  BY <1>2, <1>3, <1>4 DEF Grows
<1>6. QED
  BY <1>1, <1>5, SameAnswers DEF AllAnswered

(* So does the distributor.                                                *)
LEMMA AnsweredDistributes ==
    ASSUME DataShape, CallShape, AllAnswered, Distribute
    PROVE  AllAnswered'
<1>1. UNCHANGED <<value, call, heard, refilled>>
  BY DEF Distribute, TakeMessage, Offer, EndRound, Cleanup, core, clients
<1>2. value \in [Ids -> Nat] /\ DOMAIN queue = Sessions
  BY DEF DataShape
<1>3. Grows
  BY <1>1, <1>2 DEF Grows
<1>4. CASE UNCHANGED queue
  BY <1>1, <1>3, <1>4, SameAnswers DEF AllAnswered
<1>5. CASE Offer
  <2>1. PICK r \in dist.todo : Skip(r) \/ Put(r) \/ TimeOut(r)
    BY <1>5 DEF Offer
  <2>2. UNCHANGED queue \/ queue' = [queue EXCEPT ![r] = Append(@, dist.msg)]
    BY <2>1 DEF Skip, Put, TimeOut
  <2>3. dist.msg.what \in {"value", "status"}
    BY <1>5 DEF Offer, DataShape
  <2>4. ASSUME NEW s \in Sessions
        PROVE  Answered(s)'
    <3>1. Answered(s) /\ IsSeq(queue[s])
      BY DEF AllAnswered, DataShape
    <3>2. queue'[s] = queue[s] \/ queue'[s] = Append(queue[s], dist.msg)
      BY <1>2, <2>2
    <3>3. \A m \in Range(queue'[s]) : m \in Range(queue[s]) \/ m.what \in {"value", "status"}
      BY <2>3, <3>1, <3>2, AppendIs
    <3>4. QED
      BY <1>1, <3>1, <3>3 DEF Answered
  <2>5. QED
    BY <2>4 DEF AllAnswered
<1>6. QED
  BY <1>4, <1>5 DEF Distribute, TakeMessage, EndRound, Cleanup, subscribers

(* So do the calls.                                                        *)
LEMMA AnsweredCalls ==
    ASSUME Inv, NEW r \in Sessions, Ask(r) \/ Subscribe(r) \/ Disconnect(r)
    PROVE  AllAnswered'
<1> USE DEF Waiting
<1>0. /\ CallShape /\ AllAnswered /\ Answered(r)
      /\ value \in [Ids -> Nat] /\ DOMAIN queue = Sessions
      /\ \A s \in Sessions : IsSeq(queue[s]) /\ Answered(s)
  BY DEF Inv, AllAnswered, DataShape
<1>1. /\ \A a \in call[r].answer : a[1] \in Ids => a[2] \in Nat /\ a[2] <= value[a[1]]
      /\ call[r].at \in {"get", "forward"} => call[r].target \subseteq refilled
  BY <1>0 DEF Answered
<1>2. CASE Ask(r)
  <2>1. PICK f \in Filters, h \in Headers : Call(r, f, h)
    BY <1>2 DEF Ask
  <2>2. /\ UNCHANGED <<value, heard, queue, refilled>> /\ call[r].at = "idle"
        /\ Becomes(r, "lookup", f, call[r].answer, call[r].target)
    BY <1>0, <2>1, CallMoves DEF Call, At, core, subscribers, clients
  <2>3. QED
    BY <1>0, <1>1, <2>2, AnsweredMoves
<1>3. CASE NewStream(r)
  <2>1. /\ UNCHANGED <<value, heard, queue, refilled>> /\ call[r].at = "lookup"
        /\ Get(r, call[r].filter, {})
    BY <1>3 DEF NewStream, At, core, clients
  <2>2. PICK place : Becomes(r, place, call[r].filter, call[r].answer, {})
    BY <1>0, <2>1, GetMoves
  <2>3. QED
    BY <1>0, <1>1, <2>1, <2>2, AnsweredMoves
<1>4. CASE \E t \in registered : Resubscribe(r, t)
  <2>1. PICK t \in registered : Resubscribe(r, t)
    BY <1>4
  <2>2. /\ UNCHANGED <<value, heard, queue>> /\ call[r].at = "lookup"
        /\ refilled' = refilled \cup {t}
        /\ Goto(r, "ended") \/ \E f : Get(r, f, {t})
    BY <2>1 DEF Resubscribe, At, core
  <2>3. CASE Goto(r, "ended")
    <3>1. Becomes(r, "ended", call[r].filter, call[r].answer, call[r].target)
      BY <1>0, <2>3, GotoMoves
    <3>2. QED
      BY <1>0, <1>1, <2>2, <3>1, AnsweredMoves
  <2>4. CASE \E f : Get(r, f, {t})
    <3>1. PICK place : Becomes(r, place, call[r].filter, call[r].answer, {t})
      BY <1>0, <2>4, GetMoves
    <3>2. QED
      BY <1>0, <1>1, <2>2, <3>1, AnsweredMoves
  <2>5. QED
    BY <2>2, <2>3, <2>4
<1>5. CASE ReadUnit(r)
  <2>1. PICK u, place :
           /\ Becomes(r, place, call[r].filter,
                      call[r].answer \cup {<<p, value[p]>> : p \in u}, call[r].target)
           /\ place \in {"register", "forward", "get"}
    BY <1>0, <1>5, ReadMoves
  <2>2. UNCHANGED <<value, heard, queue, refilled>> /\ call[r].at = "get"
    BY <1>5 DEF ReadUnit, At, core, subscribers, clients
  <2>3. \A a \in call[r].answer \cup {<<p, value[p]>> : p \in u} :
           a[1] \in Ids => a[2] \in Nat /\ a[2] <= value[a[1]]
    BY <1>0, <1>1
  <2>4. QED
    BY <1>0, <1>1, <2>1, <2>2, <2>3, AnsweredMoves
<1>6. CASE Forward(r)
  <2>1. UNCHANGED <<value, heard, refilled>> /\ call[r].at = "forward"
    BY <1>6, Forwards DEF Forward, At
  <2>2. CASE UNCHANGED <<queue, call>>
    <3>1. Grows
      BY <1>0, <2>1 DEF Grows
    <3>2. QED
      BY <1>0, <2>1, <2>2, <3>1, SameAnswers DEF AllAnswered
  <2>3. CASE \E a \in call[r].answer, t \in call[r].target : \E m :
                /\ m.what = "reread" /\ m.id = a[1] /\ m.version = a[2]
                /\ queue' = [queue EXCEPT ![t] = Append(@, m)]
                /\ call' = [call EXCEPT ![r].answer = @ \ {a}]
    <3>0. PICK a \in call[r].answer, t \in call[r].target : \E m :
                /\ m.what = "reread" /\ m.id = a[1] /\ m.version = a[2]
                /\ queue' = [queue EXCEPT ![t] = Append(@, m)]
                /\ call' = [call EXCEPT ![r].answer = @ \ {a}]
      BY <2>3
    <3>1. PICK m :
                /\ m.what = "reread" /\ m.id = a[1] /\ m.version = a[2]
                /\ queue' = [queue EXCEPT ![t] = Append(@, m)]
                /\ call' = [call EXCEPT ![r].answer = @ \ {a}]
      BY <3>0
    <3>2. Becomes(r, call[r].at, call[r].filter, call[r].answer \ {a}, call[r].target)
      BY <1>0, <3>1, ForwardMoves
    <3>3. t \in refilled /\ (m.id \in Ids => m.version \in Nat /\ m.version <= value[m.id])
      BY <1>1, <2>1, <3>1
    <3>4. ASSUME NEW s \in Sessions
          PROVE  Answered(s)'
      <4>1. Answered(s) /\ IsSeq(queue[s])
        BY <1>0
      <4>2. queue'[s] = queue[s] \/ (s = t /\ queue'[s] = Append(queue[s], m))
        BY <1>0, <3>1
      <4>3. \A n \in Range(queue'[s]) : n.what \notin {"value", "status"} =>
               s \in refilled /\ (n.id \in Ids => n.version \in Nat /\ n.version <= value[n.id])
        <5>1. CASE queue'[s] = queue[s]
          BY <4>1, <5>1 DEF Answered
        <5>2. CASE s = t /\ queue'[s] = Append(queue[s], m)
          <6>1. \A n \in Range(queue'[s]) : n \in Range(queue[s]) \/ n = m
            BY <4>1, <5>2, AppendIs
          <6>2. QED
            BY <3>3, <4>1, <5>2, <6>1 DEF Answered
        <5>3. QED
          BY <4>2, <5>1, <5>2
      <4>4. /\ call'[s].at = call[s].at /\ call'[s].target = call[s].target
            /\ call'[s].answer \subseteq call[s].answer
        BY <3>2 DEF Becomes
      <4>5. QED
        BY <2>1, <4>1, <4>3, <4>4 DEF Answered
    <3>5. QED
      BY <3>4 DEF AllAnswered
  <2>4. QED
    BY <1>6, <2>2, <2>3, Forwards
<1>7. CASE ForwardDone(r) \/ EndOfStream(r) \/ Disconnect(r) \/ Unregister(r) \/ Close(r)
  <2>1. /\ UNCHANGED <<value, heard, queue, refilled>>
        /\ \E place \in {"ended", "unregister", "close"} : Goto(r, place)
    BY <1>7 DEF ForwardDone, EndOfStream, Disconnect, Unregister, Close, core, subscribers, clients
  <2>2. PICK place \in {"ended", "unregister", "close"} : Goto(r, place)
    BY <2>1
  <2>3. Becomes(r, place, call[r].filter, call[r].answer, call[r].target)
    BY <1>0, <2>2, GotoMoves
  <2>4. QED
    BY <1>0, <1>1, <2>1, <2>3, AnsweredMoves
<1>8. CASE Register(r)
  <2>1. UNCHANGED <<value, heard, queue, refilled>> /\ Goto(r, "replay") /\ call[r].at = "register"
    BY <1>8 DEF Register, At, core
  <2>2. Becomes(r, "replay", call[r].filter, call[r].answer, call[r].target)
    BY <1>0, <2>1, GotoMoves
  <2>3. QED
    BY <1>0, <1>1, <2>1, <2>2, AnsweredMoves
<1>9. CASE Replay(r)
  <2>1. Becomes(r, "stream", call[r].filter, {}, call[r].target)
    BY <1>0, <1>9, AnswerMoves DEF Replay
  <2>2. UNCHANGED <<value, heard, queue, refilled>>
    BY <1>9 DEF Replay, core, subscribers
  <2>3. QED
    BY <1>0, <2>1, <2>2, AnsweredMoves
<1>10. CASE Receive(r)
  <2>1. /\ queue[r] # <<>> /\ queue' = [queue EXCEPT ![r] = Tail(@)]
        /\ UNCHANGED heard \/ heard' = [heard EXCEPT ![r] = heard'[r]]
    <3>1. heard \in [Sessions -> [Ids -> Nat]]
      BY DEF Inv, DataShape
    <3>2. QED
      BY <1>10, <3>1, Receives DEF Hears
  <2>2. UNCHANGED <<value, call, refilled>> /\ call[r].at = "stream"
    BY <1>10 DEF Receive, At, core
  <2>3. ASSUME NEW s \in Sessions
        PROVE  Answered(s)'
    <3>1. Answered(s) /\ IsSeq(queue[s])
      BY <1>0
    <3>2. \A n \in Range(queue'[s]) : n \in Range(queue[s])
      <4>1. CASE s = r
        <5>1. queue'[s] = Tail(queue[s]) /\ queue[s] # <<>>
          BY <1>0, <2>1, <4>1
        <5>2. QED
          BY <3>1, <5>1, TailIs
      <4>2. CASE s # r
        BY <1>0, <2>1, <4>2
      <4>3. QED
        BY <4>1, <4>2
    <3>3. s # r => heard'[s] = heard[s]
      BY <2>1 DEF Inv, DataShape
    <3>4. QED
      BY <2>2, <3>1, <3>2, <3>3 DEF Answered
  <2>4. QED
    BY <2>3 DEF AllAnswered
<1>11. QED
  BY <1>2, <1>3, <1>4, <1>5, <1>6, <1>7, <1>8, <1>9, <1>10 DEF Subscribe

-----------------------------------------------------------------------------
(* Everything together.                                                    *)
LEMMA InvInit ==
    ASSUME SubscriptionAssumption, Init
    PROVE  Inv
<1>1. <<>> \in Seq(Nat \X Nat)
  BY EmptySeq
<1>2. CallShape /\ Open
  BY OpenInit
<1>3. /\ value \in [Ids -> Nat] /\ heard = [s \in Sessions |-> [p \in Ids |-> 0]]
      /\ view = heard /\ since = heard /\ watcher = <<>> /\ queue = [s \in Sessions |-> <<>>]
      /\ filter = [s \in Sessions |-> <<>>] /\ posting = [d \in Workers |-> NoMessage]
      /\ dist = Resting /\ call = [s \in Sessions |-> Idle] /\ refilled = {}
  BY DEF Init
<1>4. dist.phase = "idle"
  BY <1>3 DEF Resting
<1>5. heard \in [Sessions -> [Ids -> Nat]]
  BY <1>3
<1>6. DataShape
  BY <1>1, <1>3, <1>4, <1>5, EmptyIs DEF DataShape
<1>7. AllOrdered
  BY <1>3, <1>4, EmptyIs DEF AllOrdered, Ordered
<1>8. AllAnswered
  BY <1>3, EmptyIs DEF AllAnswered, Answered, Idle
<1>9. QED
  BY <1>2, <1>6, <1>7, <1>8 DEF Inv

(* The whole invariant is inductive.                                       *)
LEMMA InvStep ==
    ASSUME SubscriptionAssumption, Inv, [Next]_vars
    PROVE  Inv'
<1>0. CallShape /\ DataShape /\ Open /\ AllOrdered /\ AllAnswered
  BY DEF Inv
<1>1. CallShape' /\ Open'
  BY <1>0, OpenStep
<1>2. CASE Work
  <2>1. AllOrdered'
    BY <1>0, <1>2, OrderedWorks DEF AllOrdered
  <2>2. QED
    BY <1>0, <1>1, <1>2, <2>1, DataWorks, AnsweredWorks DEF Inv
<1>3. CASE Distribute
  <2>1. AllOrdered'
    BY <1>0, <1>3, OrderedDistributes DEF AllOrdered
  <2>2. QED
    BY <1>0, <1>1, <1>3, <2>1, DataDistributes, AnsweredDistributes DEF Inv
<1>4. CASE \E r \in Sessions : Ask(r) \/ Subscribe(r) \/ Disconnect(r)
  <2>1. PICK r \in Sessions : Ask(r) \/ Subscribe(r) \/ Disconnect(r)
    BY <1>4
  <2>2. AllOrdered'
    BY <2>1, OrderedCalls DEF AllOrdered
  <2>3. DataShape' /\ AllAnswered'
    BY <2>1, DataCalls, AnsweredCalls
  <2>4. QED
    BY <1>1, <2>2, <2>3 DEF Inv
<1>5. CASE UNCHANGED vars
  <2>1. UNCHANGED <<value, posting, watcher, dist, filter, queue, call, view, heard, since, refilled>>
    BY <1>5 DEF vars, core, subscribers, clients
  <2>2. DataShape' /\ AllOrdered'
    BY <1>0, <2>1, SameData, SameOrder DEF AllOrdered
  <2>3. Grows
    BY <1>0, <2>1 DEF Grows, DataShape
  <2>4. AllAnswered'
    BY <1>0, <2>1, <2>3, SameAnswers DEF AllAnswered
  <2>5. QED
    BY <1>1, <2>2, <2>4 DEF Inv
<1>6. QED
  BY <1>2, <1>3, <1>4, <1>5 DEF Next

(* And holds of every behaviour.                                           *)
LEMMA InvHolds ==
    ASSUME SubscriptionAssumption
    PROVE  Spec => []Inv
<1>1. Init => Inv
  BY SubscriptionAssumption, InvInit
<1>2. Inv /\ [Next]_vars => Inv'
  BY SubscriptionAssumption, InvStep
<1>3. QED
  BY <1>1, <1>2, PTL DEF Spec

-----------------------------------------------------------------------------
(* No value is lost on its way.                                            *)
Fed(s, p) == s \in registered \ dist.slow /\ Asked(filter[s], p) /\ value[p] > since[s][p]

(* A filter that names a device is the one id of that device.              *)
LEMMA NamesOne ==
    ASSUME NEW f \in Seq(Nat \X Nat)
    PROVE  NamesDevice(f) <=> Len(f) = 1 /\ f[1][2] = 0
<1>1. DOMAIN f = 1..Len(f) /\ Len(f) \in Nat
  BY LenProperties
<1>2. ASSUME NamesDevice(f) PROVE Len(f) = 1 /\ f[1][2] = 0
  <2>1. PICK i \in DOMAIN f : DOMAIN f = {i} /\ f[i][2] = 0
    BY <1>2 DEF NamesDevice
  <2>2. \A j \in 1..Len(f) : j = i
    BY <1>1, <2>1
  <2>3. 1 \in 1..Len(f) /\ Len(f) \in 1..Len(f)
    BY <1>1, <2>1
  <2>4. QED
    BY <2>1, <2>2, <2>3
<1>3. ASSUME Len(f) = 1, f[1][2] = 0 PROVE NamesDevice(f)
  <2>1. DOMAIN f = {1}
    BY <1>1, <1>3
  <2>2. QED
    BY <1>3, <2>1 DEF NamesDevice
<1>4. QED
  BY <1>2, <1>3

(* A client that asked for a parameter wants its values.                   *)
LEMMA AskedIsWanted ==
    ASSUME SubscriptionAssumption, NEW f \in Seq(Nat \X Nat), NEW p \in Params, Asked(f, p),
           NEW m, Is(m, p)
    PROVE  Wants(f, m) /\ ~Global(m)
<1>1. m.what = "value" /\ m.id = p /\ p[2] # 0
  BY DEF Is, SubscriptionAssumption
<1>2. ~Global(m)
  BY <1>1 DEF Global
<1>3. CASE f = <<>>
  <2>1. ~NamesDevice(f)
    <3>1. Len(f) # 1
      BY <1>3
    <3>2. QED
      BY <3>1, NamesOne
  <2>2. QED
    BY <1>2, <1>3, <2>1 DEF Wants
<1>4. CASE NamesDevice(f) /\ f[1][1] = p[1]
  <2>1. f[1][2] = 0
    BY <1>4, NamesOne
  <2>2. f[1][1] = m.id[1]
    BY <1>1, <1>4
  <2>3. QED
    BY <1>2, <2>1, <2>2 DEF Wants
<1>5. CASE p \in Range(f)
  <2>1. PICK i \in 1..Len(f) : f[i] = p
    BY <1>5, RangeEquality
  <2>2. ~NamesDevice(f)
    <3>1. ASSUME NamesDevice(f) PROVE FALSE
      <4>1. Len(f) = 1 /\ f[1][2] = 0
        BY <3>1, NamesOne
      <4>2. i = 1
        BY <2>1, <4>1
      <4>3. QED
        BY <1>1, <2>1, <4>1, <4>2
    <3>2. QED
      BY <3>1
  <2>3. QED
    <3>1. m.id \in Range(f)
      BY <1>1, <1>5
    <3>2. QED
      BY <1>2, <2>2, <3>1 DEF Wants
<1>6. QED
  BY <1>2, <1>3, <1>4, <1>5 DEF Asked

(* A version that is on its way stays there if nothing there changes.      *)
LEMMA SameWay ==
    ASSUME NothingLost, UNCHANGED <<value, filter, since, heard, queue, watcher>>,
           registered' \ dist'.slow \subseteq registered \ dist.slow,
           dist.phase = "loop" => /\ dist'.phase = "loop" /\ dist'.msg = dist.msg
                                  /\ dist'.todo = dist.todo
    PROVE  NothingLost'
<1>1. QED
  BY DEF NothingLost, OnItsWay

(* What workers publish enters the watcher.                                *)
LEMMA LostWorks ==
    ASSUME SubscriptionAssumption, Inv, NothingLost, Work
    PROVE  NothingLost'
<1>0. IsSeq(watcher) /\ value \in [Ids -> Nat]
  BY DEF Inv, DataShape
<1>1. ASSUME NEW x \in Params, Publish(x)
      PROVE  NothingLost'
  <2> DEFINE m == ValueMessage(x, value'[x])
  <2>1. /\ value' = [value EXCEPT ![x] = @ + 1] /\ watcher' = Append(watcher, m)
        /\ UNCHANGED <<dist, registered, filter, queue, heard, since>>
    BY <1>1 DEF Publish, Posted, subscribers, clients
  <2>2. \A n : n \in Range(watcher') <=> n \in Range(watcher) \/ n = m
    BY <1>0, <2>1, AppendIs
  <2>3. ASSUME NEW s, NEW p \in Params, Fed(s, p)'
        PROVE  OnItsWay(s, p)'
    <3>1. CASE p = x
      BY <2>2, <3>1 DEF OnItsWay
    <3>2. CASE p # x
      <4>1. value'[p] = value[p]
        BY <1>0, <2>1, <3>2
      <4>2. OnItsWay(s, p)
        BY <2>1, <2>3, <4>1 DEF Fed, NothingLost
      <4>3. QED
        BY <2>1, <2>2, <4>1, <4>2 DEF OnItsWay
    <3>3. QED
      BY <3>1, <3>2
  <2>4. QED
    BY <2>3 DEF NothingLost, Fed
<1>2. ASSUME NEW st, NEW type, Hold(st, type)
      PROVE  NothingLost'
  BY <1>2, SameWay DEF Hold, subscribers, clients
<1>3. ASSUME NEW d \in Workers, Post(d)
      PROVE  NothingLost'
  <2>1. /\ watcher' = Append(watcher, posting[d])
        /\ UNCHANGED <<value, dist, registered, filter, queue, heard, since>>
    BY <1>3 DEF Post, Posted, subscribers, clients
  <2>2. \A n \in Range(watcher) : n \in Range(watcher')
    BY <1>0, <2>1, AppendIs
  <2>3. QED
    BY <2>1, <2>2 DEF NothingLost, OnItsWay
<1>4. QED
  BY <1>1, <1>2, <1>3 DEF Work, Raise, Resolve

(* What the distributor takes is in its hand until it is in the channel.   *)
LEMMA LostDistributes ==
    ASSUME SubscriptionAssumption, Inv, NothingLost, Distribute
    PROVE  NothingLost'
<1>0. /\ IsSeq(watcher) /\ \A s \in Sessions : IsSeq(queue[s])
      /\ DOMAIN queue = Sessions /\ registered \subseteq Sessions
      /\ \A s \in Sessions : filter[s] \in Seq(Nat \X Nat)
  BY DEF Inv, DataShape, Open
<1>1. CASE TakeMessage
  <2>1. /\ watcher # <<>> /\ watcher' = Tail(watcher) /\ dist.phase = "idle"
        /\ dist'.phase = "loop" /\ dist'.msg = Head(watcher) /\ dist'.todo = registered
        /\ UNCHANGED <<value, registered, filter, queue, heard, since>>
    BY <1>1 DEF TakeMessage, core, subscribers, clients
  <2>2. \A n \in Range(watcher) : n = Head(watcher) \/ n \in Range(watcher')
    BY <1>0, <2>1, TailIs
  <2>3. dist.slow = {}
    BY <2>1 DEF Inv, Open
  <2>4. ASSUME NEW s, NEW p \in Params, Fed(s, p)'
        PROVE  OnItsWay(s, p)'
    <3>1. s \in registered /\ OnItsWay(s, p)
      BY <2>1, <2>3, <2>4 DEF Fed, NothingLost
    <3>2. QED
      BY <2>1, <2>2, <3>1 DEF OnItsWay
  <2>5. QED
    BY <2>4 DEF NothingLost, Fed
<1>2. CASE Offer
  <2>1. PICK r \in dist.todo : Skip(r) \/ Put(r) \/ TimeOut(r)
    BY <1>2 DEF Offer
  <2>2. dist.phase = "loop" /\ UNCHANGED <<value, watcher, registered, filter, heard, since>>
    BY <1>2 DEF Offer, core, clients
  <2>3. /\ dist'.phase = "loop" /\ dist'.msg = dist.msg /\ dist'.todo = dist.todo \ {r}
        /\ dist.slow \subseteq dist'.slow
    BY <2>1, <2>2 DEF Skip, Put, TimeOut, Inv, CallShape
  <2>4. r \in registered /\ r \in Sessions /\ ~closed[r]
    BY <1>0, <2>1, <2>2 DEF Inv, Open
  <2>5. ASSUME NEW s, NEW p \in Params, Fed(s, p)'
        PROVE  OnItsWay(s, p)'
    <3>1. s \in Sessions /\ OnItsWay(s, p) /\ Asked(filter[s], p) /\ s \notin dist'.slow
      BY <1>0, <2>2, <2>3, <2>5 DEF Fed, NothingLost
    <3>2. \A m \in Range(queue[s]) : m \in Range(queue'[s])
      <4>1. queue'[s] = queue[s] \/ queue'[s] = Append(queue[s], dist.msg)
        BY <1>0, <2>1, <3>1 DEF Skip, Put, TimeOut
      <4>2. \A m \in Range(queue[s]) : m \in Range(Append(queue[s], dist.msg))
        BY <1>0, <3>1, AppendIs
      <4>3. QED
        BY <4>1, <4>2
    <3>3. CASE s = r /\ dist.msg = ValueMessage(p, value[p])
      <4>1. Is(dist.msg, p)
        BY <3>3 DEF Is, ValueMessage
      <4>2. Wants(filter[s], dist.msg) /\ ~Global(dist.msg)
        BY <1>0, <3>1, <4>1, AskedIsWanted
      <4>3. Put(s)
        <5>1. ~Skip(s)
          BY <2>4, <3>3, <4>2 DEF Skip
        <5>2. ~TimeOut(s)
          BY <3>1, <4>2 DEF TimeOut, TooSlow, Inv, CallShape
        <5>3. QED
          BY <2>1, <3>3, <5>1, <5>2
      <4>4. dist.msg \in Range(queue'[s])
        <5>1. queue'[s] = Append(queue[s], dist.msg)
          BY <1>0, <3>1, <4>3 DEF Put
        <5>2. QED
          BY <1>0, <3>1, <5>1, AppendIs
      <4>5. QED
        BY <2>2, <3>3, <4>4 DEF OnItsWay
    <3>4. CASE ~(s = r /\ dist.msg = ValueMessage(p, value[p]))
      BY <2>2, <2>3, <3>1, <3>2, <3>4 DEF OnItsWay
    <3>5. QED
      BY <3>3, <3>4
  <2>6. QED
    BY <2>5 DEF NothingLost, Fed
<1>3. CASE EndRound
  <2>1. /\ dist.phase = "loop" /\ dist.todo = {}
        /\ UNCHANGED <<value, watcher, registered, filter, queue, heard, since>>
    BY <1>3 DEF EndRound, core, subscribers, clients
  <2>2. dist'.slow = dist.slow
    BY <1>3 DEF EndRound, Resting
  <2>3. QED
    BY <2>1, <2>2 DEF NothingLost, OnItsWay
<1>4. CASE Cleanup
  <2>1. /\ dist.phase = "cleanup" /\ registered' = registered \ dist.slow /\ dist'.slow = {}
        /\ UNCHANGED <<value, watcher, filter, queue, heard, since>>
    BY <1>4 DEF Cleanup, Cleaned, Resting, core, clients
  <2>2. QED
    BY <2>1, SameWay
<1>5. QED
  BY <1>1, <1>2, <1>3, <1>4 DEF Distribute

(* What a client takes it has heard.                                       *)
LEMMA LostCalls ==
    ASSUME SubscriptionAssumption, Inv, NothingLost,
           NEW r \in Sessions, Ask(r) \/ Subscribe(r) \/ Disconnect(r)
    PROVE  NothingLost'
<1>0. /\ registered \subseteq Sessions /\ DOMAIN queue = Sessions /\ DOMAIN filter = Sessions
      /\ DOMAIN since = Sessions /\ Params \subseteq Ids
      /\ value \in [Ids -> Nat] /\ heard \in [Sessions -> [Ids -> Nat]]
      /\ \A s \in Sessions : IsSeq(queue[s])
  BY DEF Inv, DataShape, Open, SubscriptionAssumption
<1>1. CASE \/ Ask(r) \/ ReadUnit(r) \/ ForwardDone(r) \/ EndOfStream(r)
           \/ Close(r) \/ Disconnect(r) \/ Replay(r)
  <2>1. UNCHANGED <<value, watcher, queue, filter, registered, heard, since, dist>>
    BY <1>1 DEF Ask, Call, ReadUnit, ForwardDone, EndOfStream, Close, Disconnect, Replay,
                core, subscribers, clients
  <2>2. QED
    BY <2>1, SameWay
<1>2. CASE NewStream(r) \/ Unregister(r)
  <2>1. /\ UNCHANGED <<value, watcher, queue, filter, heard, since, dist>>
        /\ registered' \subseteq registered
    BY <1>2 DEF NewStream, Unregister, core, clients
  <2>2. QED
    BY <2>1, SameWay
<1>3. CASE \E t \in registered : Resubscribe(r, t)
  <2>1. PICK t \in registered : Resubscribe(r, t)
    BY <1>3
  <2>2. /\ filter' = [filter EXCEPT ![t] = call[r].filter]
        /\ since' = [since EXCEPT ![t] = [p \in Ids |->
                         IF Asked(filter[t], p) THEN @[p] ELSE value[p]]]
        /\ UNCHANGED <<value, watcher, registered, queue, heard, dist>>
    BY <2>1 DEF Resubscribe, core
  <2>3. ASSUME NEW s, NEW p \in Params, Fed(s, p)'
        PROVE  OnItsWay(s, p)'
    <3>1. s \in registered \ dist.slow /\ s \in Sessions /\ p \in Ids
      BY <1>0, <2>2, <2>3 DEF Fed
    <3>2. Fed(s, p)
      <4>1. CASE s = t
        <5>1. since'[s][p] = IF Asked(filter[s], p) THEN since[s][p] ELSE value[p]
          BY <1>0, <2>2, <3>1, <4>1
        <5>2. value[p] > since'[s][p] /\ value[p] \in Nat
          BY <1>0, <2>2, <2>3, <3>1 DEF Fed
        <5>3. QED
          BY <3>1, <5>1, <5>2 DEF Fed
      <4>2. CASE s # t
        BY <1>0, <2>2, <2>3, <3>1, <4>2 DEF Fed
      <4>3. QED
        BY <4>1, <4>2
    <3>3. QED
      BY <2>2, <3>2 DEF Fed, NothingLost, OnItsWay
  <2>4. QED
    BY <2>3 DEF NothingLost, Fed
<1>4. CASE Register(r)
  <2>1. /\ registered' = registered \cup {r}
        /\ filter' = [filter EXCEPT ![r] = call[r].filter]
        /\ since' = [since EXCEPT ![r] = value]
        /\ UNCHANGED <<value, watcher, queue, heard, dist>>
    BY <1>4 DEF Register, core
  <2>2. ASSUME NEW s, NEW p \in Params, Fed(s, p)'
        PROVE  OnItsWay(s, p)'
    <3>1. p \in Ids /\ value[p] \in Nat
      BY <1>0
    <3>2. s # r
      BY <1>0, <2>1, <2>2, <3>1 DEF Fed
    <3>3. Fed(s, p)
      BY <1>0, <2>1, <2>2, <3>2 DEF Fed
    <3>4. QED
      BY <2>1, <3>3 DEF Fed, NothingLost, OnItsWay
  <2>3. QED
    BY <2>2 DEF NothingLost, Fed
<1>5. CASE Forward(r)
  <2>1. UNCHANGED <<value, watcher, heard, dist, registered, filter, since>>
    BY <1>5, Forwards
  <2>2. \A s \in Sessions : \A m : m \in Range(queue[s]) => m \in Range(queue'[s])
    <3>1. UNCHANGED queue \/ \E t, m : queue' = [queue EXCEPT ![t] = Append(@, m)]
      BY <1>5, Forwards
    <3>2. ASSUME NEW t, NEW m, queue' = [queue EXCEPT ![t] = Append(@, m)], NEW s \in Sessions
          PROVE  \A n \in Range(queue[s]) : n \in Range(queue'[s])
      <4>1. queue'[s] = queue[s] \/ queue'[s] = Append(queue[s], m)
        BY <1>0, <3>2
      <4>2. QED
        BY <1>0, <4>1, AppendIs
    <3>3. QED
      BY <3>1, <3>2
  <2>3. QED
    BY <1>0, <2>1, <2>2 DEF NothingLost, OnItsWay
<1>6. CASE Receive(r)
  <2> DEFINE m == Head(queue[r])
  <2>1. UNCHANGED <<value, watcher, dist, registered, filter, since>>
    BY <1>6 DEF Receive, core
  <2>2. /\ queue[r] # <<>> /\ m \in Range(queue[r])
        /\ queue' = [queue EXCEPT ![r] = Tail(@)]
        /\ \/ UNCHANGED heard /\ (m.what = "value" => m.id \notin Ids)
           \/ Shows(r, m) /\ Hears(r, m)
    BY <1>6, Receives
  <2>3. ASSUME NEW s, NEW p \in Params, Fed(s, p)'
        PROVE  OnItsWay(s, p)'
    <3>1. s \in Sessions /\ OnItsWay(s, p) /\ p \in Ids
      BY <1>0, <2>1, <2>3 DEF Fed, NothingLost
    <3>2. CASE s # r
      <4>1. queue'[s] = queue[s] /\ heard'[s] = heard[s]
        BY <1>0, <2>2, <3>1, <3>2 DEF Hears
      <4>2. QED
        BY <2>1, <3>1, <4>1 DEF OnItsWay
    <3>3. CASE s = r
      <4>1. \A n \in Range(queue[s]) : n = m \/ n \in Range(queue'[s])
        BY <1>0, <2>2, <3>3, TailIs
      <4>2. CASE heard'[s][p] = heard[s][p]
        <5>1. m # ValueMessage(p, value[p])
          <6>1. ASSUME m = ValueMessage(p, value[p]) PROVE FALSE
            <7>1. m.what = "value" /\ m.id = p /\ m.version = value[p]
              BY <6>1 DEF ValueMessage
            <7>2. Hears(r, m) /\ Shows(r, m)
              BY <2>2, <3>1, <7>1
            <7>3. heard'[s][p] = m.version /\ heard[s][p] < m.version
              BY <1>0, <3>1, <3>3, <7>1, <7>2 DEF Hears
            <7>4. heard[s][p] \in Nat /\ m.version \in Nat
              BY <1>0, <3>1, <7>2 DEF Shows
            <7>5. QED
              BY <4>2, <7>3, <7>4
          <6>2. QED
            BY <6>1
        <5>2. QED
          BY <2>1, <3>1, <4>1, <4>2, <5>1 DEF OnItsWay
      <4>3. CASE heard'[s][p] # heard[s][p]
        <5>1. Shows(r, m) /\ Hears(r, m)
          BY <2>2, <3>3, <4>3
        <5>2. m.id = p /\ heard'[s][p] = m.version
          BY <1>0, <3>1, <3>3, <4>3, <5>1 DEF Hears
        <5>3. /\ heard[s][p] < m.version /\ m.version <= value[p] /\ m.version \in Nat
              /\ heard[s][p] \in Nat /\ value[p] \in Nat
          BY <1>0, <3>1, <3>3, <5>1, <5>2 DEF Shows, Hears
        <5>4. heard[s][p] # value[p]
          BY <5>3
        <5>5. CASE m.version = value[p]
          BY <2>1, <5>2, <5>5 DEF OnItsWay
        <5>6. CASE m.version # value[p]
          <6>1. m # ValueMessage(p, value[p])
            BY <5>6 DEF ValueMessage
          <6>2. QED
            BY <2>1, <3>1, <4>1, <5>4, <6>1 DEF OnItsWay
        <5>7. QED
          BY <5>5, <5>6
      <4>4. QED
        BY <4>2, <4>3
    <3>4. QED
      BY <3>2, <3>3
  <2>4. QED
    BY <2>3 DEF NothingLost, Fed
<1>7. QED
  BY <1>1, <1>2, <1>3, <1>4, <1>5, <1>6 DEF Subscribe

(* A value published after a subscriber began to be fed with its parameter *)
(* has reached the client, or is in one of the channels or in the          *)
(* distributor's hand.                                                     *)
THEOREM NothingLostHolds ==
    ASSUME SubscriptionAssumption
    PROVE  Spec => []NothingLost
<1>1. Init => NothingLost
  BY DEF Init, NothingLost
<1>2. ASSUME Inv, NothingLost, [Next]_vars PROVE NothingLost'
  <2>1. CASE UNCHANGED vars
    BY <1>2, <2>1, SameWay DEF vars, core, subscribers, clients
  <2>2. QED
    BY SubscriptionAssumption, <1>2, <2>1, LostWorks, LostDistributes, LostCalls DEF Next
<1>3. QED
  BY <1>1, <1>2, InvHolds, SubscriptionAssumption, PTL DEF Spec

-----------------------------------------------------------------------------
(* The subscriptions implement Feed.                                       *)
LEMMA FeedWorks ==
    ASSUME SubscriptionAssumption, Work
    PROVE  Promise!Next \/ UNCHANGED Promise!vars
<1>1. UNCHANGED <<view, heard, refilled>>
  BY DEF Work, Publish, Raise, Resolve, Hold, Post, clients
<1>2. UNCHANGED value \/ \E p \in Params : value' = [value EXCEPT ![p] = @ + 1]
  BY DEF Work, Publish, Raise, Resolve, Hold, Post
<1>3. Params \subseteq Ids
  BY DEF SubscriptionAssumption
<1>4. CASE UNCHANGED value
  BY <1>1, <1>4 DEF Promise!vars
<1>5. CASE \E p \in Params : value' = [value EXCEPT ![p] = @ + 1]
  <2>1. \E p \in Ids : Promise!Publish(p)
    BY <1>1, <1>3, <1>5 DEF Promise!Publish
  <2>2. QED
    BY <2>1 DEF Promise!Next
<1>6. QED
  BY <1>2, <1>4, <1>5

(* The replay to a new subscriber is a step of Feed.                       *)
LEMMA FeedReplays ==
    ASSUME SubscriptionAssumption, Inv, NEW s \in Sessions, Replay(s)
    PROVE  Promise!Snapshot(s)
<1> DEFINE seen == [p \in Ids |-> IF \E v \in Versions : <<p, v>> \in call[s].answer
                                  THEN CHOOSE v \in Versions : <<p, v>> \in call[s].answer
                                  ELSE view[s][p]]
<1>1. view' = [view EXCEPT ![s] = seen] /\ UNCHANGED <<value, heard, refilled>>
  BY DEF Replay, core
<1>2. /\ view \in [Sessions -> [Ids -> Nat]] /\ value \in [Ids -> Nat]
      /\ Answered(s) /\ Versions \subseteq Nat
  BY DEF Inv, DataShape, AllAnswered, Versions, SubscriptionAssumption
<1>3. heard[s] = [p \in Ids |-> 0]
  BY <1>2 DEF Answered, Replay, At, Waiting
<1>4. view'[s] = seen
  BY <1>1, <1>2
<1>5. ASSUME NEW p \in Ids
      PROVE  view'[s][p] \in {view[s][p]} \cup 0..value[p]
  <2>1. CASE \E v \in Versions : <<p, v>> \in call[s].answer
    <3>1. PICK v \in Versions : <<p, v>> \in call[s].answer /\ seen[p] = v
      BY <2>1
    <3>2. <<p, v>>[1] = p /\ <<p, v>>[2] = v
      OBVIOUS
    <3>3. v \in Nat /\ v <= value[p] /\ value[p] \in Nat
      BY <1>2, <3>1, <3>2 DEF Answered
    <3>4. view'[s][p] = v
      BY <1>4, <3>1
    <3>5. v \in 0..value[p]
      BY <3>3
    <3>6. QED
      BY <3>4, <3>5
  <2>2. CASE ~\E v \in Versions : <<p, v>> \in call[s].answer
    <3>1. seen[p] = view[s][p]
      BY <2>2
    <3>2. QED
      BY <1>4, <3>1
  <2>3. QED
    BY <2>1, <2>2
<1>6. view' = [view EXCEPT ![s] = view'[s]]
  BY <1>1, <1>4
<1>7. QED
  BY <1>1, <1>3, <1>5, <1>6 DEF Promise!Snapshot, Promise!Blank

(* So is a client's reading, or it changes nothing Feed sees.              *)
LEMMA FeedReceives ==
    ASSUME Inv, NEW s \in Sessions, Receive(s)
    PROVE  Promise!Next \/ UNCHANGED Promise!vars
<1> DEFINE m == Head(queue[s])
           p == m.id
<1>1. UNCHANGED <<value, refilled>>
  BY DEF Receive, core
<1>2. /\ view \in [Sessions -> [Ids -> Nat]] /\ heard \in [Sessions -> [Ids -> Nat]]
      /\ value \in [Ids -> Nat]
  BY DEF Inv, DataShape
<1>3. \/ UNCHANGED <<view, heard>>
      \/ Shows(s, m) /\ Hears(s, m)
      \/ Shows(s, m) /\ UNCHANGED heard /\ s \in refilled
  BY Receives
<1>4. CASE UNCHANGED <<view, heard>>
  BY <1>1, <1>4 DEF Promise!vars
<1> HIDE DEF m
<1>5. ASSUME Shows(s, m)
      PROVE  /\ p \in Ids /\ view'[s][p] = m.version /\ m.version \in 0..value[p]
             /\ view' = [view EXCEPT ![s][p] = view'[s][p]]
  <2>1. /\ p \in Ids /\ m.version \in Nat /\ m.version <= value[p]
        /\ view' = [view EXCEPT ![s] = [view[s] EXCEPT ![p] = m.version]]
    BY <1>5 DEF Shows
  <2>2. view'[s][p] = m.version
    BY <1>2, <2>1
  <2>3. view' = [view EXCEPT ![s][p] = m.version]
    BY <2>1
  <2>4. value[p] \in Nat
    BY <1>2, <2>1
  <2>5. m.version \in 0..value[p]
    BY <2>1, <2>4
  <2>6. view' = [view EXCEPT ![s][p] = view'[s][p]]
    BY <2>2, <2>3, Zenon
  <2>7. QED
    BY <2>1, <2>2, <2>5, <2>6, Zenon
<1>6. CASE Shows(s, m) /\ Hears(s, m)
  <2>1. heard[s][p] < m.version /\ heard' = [heard EXCEPT ![s][p] = m.version]
    BY <1>6 DEF Hears
  <2>2. Promise!Update(s, p) /\ p \in Ids
    <3>1. /\ p \in Ids /\ view'[s][p] = m.version /\ m.version \in 0..value[p]
          /\ view' = [view EXCEPT ![s][p] = view'[s][p]]
      BY <1>5, <1>6, Zenon
    <3>2. heard[s][p] < view'[s][p] /\ view'[s][p] <= value[p]
      <4>1. value[p] \in Nat
        BY <1>2, <3>1
      <4>2. QED
        BY <2>1, <3>1, <4>1
    <3>3. heard' = [heard EXCEPT ![s][p] = view'[s][p]]
      BY <2>1, <3>1, Zenon
    <3>4. QED
      BY <1>1, <3>1, <3>2, <3>3, Zenon DEF Promise!Update
  <2>3. QED
    BY <2>2 DEF Promise!Next
<1>7. CASE Shows(s, m) /\ UNCHANGED heard /\ s \in refilled
  <2>1. Promise!Reread(s, p) /\ p \in Ids
    BY <1>1, <1>5, <1>7 DEF Promise!Reread
  <2>2. QED
    BY <2>1 DEF Promise!Next
<1>8. QED
  BY <1>3, <1>4, <1>6, <1>7

(* Every step is a step of Feed or a stutter.                              *)
LEMMA FeedStep ==
    ASSUME SubscriptionAssumption, Inv, [Next]_vars
    PROVE  Promise!Next \/ UNCHANGED Promise!vars
<1>1. CASE UNCHANGED vars
  BY <1>1 DEF vars, core, clients, Promise!vars
<1>2. CASE Work
  BY <1>2, FeedWorks
<1>3. CASE Distribute
  BY <1>3 DEF Distribute, TakeMessage, Offer, EndRound, Cleanup, core, clients, Promise!vars
<1>4. ASSUME NEW s \in Sessions, Ask(s) \/ Subscribe(s) \/ Disconnect(s)
      PROVE  Promise!Next \/ UNCHANGED Promise!vars
  <2>1. CASE \/ Ask(s) \/ NewStream(s) \/ ReadUnit(s) \/ Forward(s) \/ ForwardDone(s) \/ Register(s)
             \/ EndOfStream(s) \/ Unregister(s) \/ Close(s) \/ Disconnect(s)
    <3>1. UNCHANGED <<value, view, heard, refilled>>
      BY <2>1 DEF Ask, Call, NewStream, ReadUnit, Forward, ForwardDone, Register, EndOfStream,
                  Unregister, Close, Disconnect, core, clients
    <3>2. QED
      BY <3>1 DEF Promise!vars
  <2>2. CASE \E t \in registered : Resubscribe(s, t)
    <3>1. PICK t \in registered : Resubscribe(s, t)
      BY <2>2
    <3>2. t \in Sessions
      BY DEF Inv, Open
    <3>3. Promise!Refill(t)
      BY <3>1 DEF Resubscribe, core, Promise!Refill
    <3>4. QED
      BY <3>2, <3>3 DEF Promise!Next
  <2>3. CASE Replay(s)
    BY <2>3, FeedReplays DEF Promise!Next
  <2>4. CASE Receive(s)
    BY <2>4, FeedReceives
  <2>5. QED
    BY <1>4, <2>1, <2>2, <2>3, <2>4 DEF Subscribe
<1>5. QED
  BY <1>1, <1>2, <1>3, <1>4 DEF Next

(* Whatever the goroutines do, what the clients see is a behaviour of the  *)
(* feed: a snapshot of what was current, then updates that strictly        *)
(* advance and were published, and old values only for a client whose      *)
(* filter was changed.                                                     *)
THEOREM FeedsClientsHolds ==
    ASSUME SubscriptionAssumption
    PROVE  Spec => FeedsClients
<1>1. Init => Promise!Init
  BY DEF Init, Promise!Init, Promise!Blank
<1>2. Inv /\ [Next]_vars => [Promise!Next]_(Promise!vars)
  BY SubscriptionAssumption, FeedStep
<1>3. QED
  BY <1>1, <1>2, InvHolds, SubscriptionAssumption, PTL DEF Spec, FeedsClients, Promise!Spec
=============================================================================
