----------------------------- MODULE StatusProofs -----------------------------
(***************************************************************************)
(* More about Subscription: the types of its variables, and that a client  *)
(* ends up showing the statuses that are active.                           *)
(*                                                                         *)
(* Typed is TypeOK with what its steps need: the messages in the channels, *)
(* and the ids that the calls have still to read.  Traced follows one      *)
(* status of a device from the cache to the clients.                       *)
(***************************************************************************)
EXTENDS SubscriptionProofs

-----------------------------------------------------------------------------
(* The types.                                                              *)
Received == Messages \cup [what : {"reread"}, id : Ids, version : Versions]
Askable(ids) == \A id \in ids : id[1] # 0 /\ id[2] # 0 => id \in Ids

Asking(s) ==
    /\ call[s].at \in Places /\ call[s].answer \subseteq Ids \X Versions
    /\ Askable(Range(call[s].filter))
    /\ \A u \in call[s].units : u \subseteq Ids

Holding ==
    /\ value \in [Ids -> Versions] /\ active \in [Keys -> Levels]
    /\ posting \in [Workers -> Messages \cup {NoMessage}]
    /\ watcher \in Seq(Messages) /\ Len(watcher) <= WatcherCap
    /\ dist.msg \in Messages \cup {NoMessage}
    /\ dist.phase = "loop" => dist.msg \in Messages
    /\ dist.phase # "loop" => dist.todo = {}
    /\ queue \in [Sessions -> Seq(Received)]
    /\ \A s \in Sessions : Len(queue[s]) <= ChanCap

Showing ==
    /\ view \in [Sessions -> [Ids -> Versions]]
    /\ heard \in [Sessions -> [Ids -> Versions]]
    /\ shown \in [Sessions -> [Keys -> Levels]]

Typed == Holding /\ Showing /\ \A s \in Sessions : Asking(s)

(* The constants, as the types need them.                                  *)
LEMMA Bounds ==
    ASSUME SubscriptionAssumption
    PROVE  /\ MaxVersion \in Nat \ {0} /\ WatcherCap \in Nat \ {0} /\ ChanCap \in Nat \ {0}
           /\ Versions = 0..MaxVersion /\ 0 \in Versions /\ 1 \in Versions
           /\ Params \subseteq Ids /\ Devices \subseteq Workers
           /\ Severities \subseteq Levels /\ "none" \in Levels
           /\ "none" \notin Severities /\ "resolve" \notin Severities
<1>1. MaxVersion \in Nat \ {0} /\ WatcherCap \in Nat \ {0} /\ ChanCap \in Nat \ {0}
  BY DEF SubscriptionAssumption
<1>2. 0 \in 0..MaxVersion /\ 1 \in 0..MaxVersion
  BY <1>1
<1>3. QED
  BY <1>1, <1>2 DEF SubscriptionAssumption, Versions, Workers, Levels

(* What the kinds of messages are made of.                                 *)
LEMMA MessageIs ==
    ASSUME NEW m \in Received
    PROVE  \/ /\ m.what = "status" /\ m \in Messages
              /\ \E st \in Statuses : /\ m.id = st.id /\ m.key = Key(st) /\ m.key \in Keys
                                      /\ m.type \in Severities \cup {"resolve"}
           \/ /\ m.what = "value" /\ m \in Messages
              /\ m.id \in Ids /\ m.version \in Versions
           \/ /\ m.what = "reread" /\ m.id \in Ids /\ m.version \in Versions
<1>1. CASE m \in [what : {"value"}, id : Ids, version : Versions]
  BY <1>1 DEF Messages
<1>2. CASE m \in [what : {"reread"}, id : Ids, version : Versions]
  BY <1>2
<1>3. CASE m \in {StatusMessage(st, type) : st \in Statuses, type \in Severities \cup {"resolve"}}
  <2>1. PICK st \in Statuses, type \in Severities \cup {"resolve"} : m = StatusMessage(st, type)
    BY <1>3
  <2>2. m.what = "status" /\ m.id = st.id /\ m.key = Key(st) /\ m.type = type
    BY <2>1 DEF StatusMessage
  <2>3. Key(st) \in Keys
    BY DEF Keys
  <2>4. m \in Messages
    BY <1>3 DEF Messages
  <2>5. QED
    BY <2>1, <2>2, <2>3, <2>4
<1>4. QED
  BY <1>1, <1>2, <1>3 DEF Received, Messages

(* What is asked for in units is what can be asked for.                    *)
LEMMA UnitsAreIds ==
    ASSUME SubscriptionAssumption, NEW f, Askable(Range(f)), ~Malformed(f)
    PROVE  \A u \in Units(f) : u \subseteq Ids
<1>1. \A d : OfDevice(d) \subseteq Ids
  BY DEF OfDevice, SubscriptionAssumption
<1>2. CASE f = <<>>
  BY <1>1, <1>2 DEF Units
<1>3. CASE f # <<>> /\ NamesDevice(f)
  BY <1>1, <1>3 DEF Units
<1>4. CASE f # <<>> /\ ~NamesDevice(f)
  <2>1. \A id \in Range(f) : id[1] # 0 /\ id[2] # 0
    BY <1>4 DEF Malformed
  <2>2. \A id \in Range(f) : id \in Ids
    BY <2>1 DEF Askable
  <2>3. Units(f) = {{id} : id \in Range(f)}
    BY <1>4 DEF Units
  <2>4. QED
    BY <2>2, <2>3
<1>5. QED
  BY <1>2, <1>3, <1>4

(* What a new filter adds is part of it.                                   *)
LEMMA AddedIsPart ==
    ASSUME NEW f, NEW old
    PROVE  Range(Added(f, old)) \subseteq Range(f)
<1>1. QED
  BY DEF Added, Restrict, Range

-----------------------------------------------------------------------------
(* The calls keep their types.                                             *)

(* A call moves, and the others stand still.                               *)
LEMMA AskingMoves ==
    ASSUME NEW s \in Sessions, \A r \in Sessions : Asking(r),
           \A r \in Sessions \ {s} : call'[r] = call[r], Asking(s)'
    PROVE  \A r \in Sessions : Asking(r)'
<1>1. ASSUME NEW r \in Sessions PROVE Asking(r)'
  <2>1. CASE r = s
    BY <2>1
  <2>2. CASE r # s
    BY <2>2 DEF Asking
  <2>3. QED
    BY <2>1, <2>2
<1>2. QED
  BY <1>1

(* A call that only goes elsewhere.                                        *)
LEMMA AskingGoto ==
    ASSUME CallShape, NEW s \in Sessions, NEW place \in Places, Goto(s, place),
           \A r \in Sessions : Asking(r)
    PROVE  \A r \in Sessions : Asking(r)'
<1>1. /\ DOMAIN call = Sessions /\ call[s] = CallOf(s)
      /\ call' = [call EXCEPT ![s].at = place]
  BY DEF CallShape, Goto
<1>2. /\ call'[s].at = place /\ call'[s].answer = call[s].answer
      /\ call'[s].filter = call[s].filter /\ call'[s].units = call[s].units
  BY <1>1 DEF CallOf
<1>3. Asking(s)'
  BY <1>2 DEF Asking
<1>4. \A r \in Sessions \ {s} : call'[r] = call[r]
  BY <1>1
<1>5. QED
  BY <1>3, <1>4, AskingMoves

(* A call that begins to read what it asks for.                            *)
LEMMA AskingGets ==
    ASSUME SubscriptionAssumption, CallShape, NEW s \in Sessions, NEW f, NEW t, Get(s, f, t),
           Askable(Range(f)), \A r \in Sessions : Asking(r)
    PROVE  \A r \in Sessions : Asking(r)'
<1> DEFINE place == IF Malformed(f) THEN "ended" ELSE "get"
           u == IF Malformed(f) THEN {} ELSE Units(f)
<1>1. /\ DOMAIN call = Sessions /\ call[s] = CallOf(s)
      /\ call' = [call EXCEPT ![s].at = place, ![s].units = u, ![s].target = t]
  BY DEF CallShape, Get
<1>2. place \in Places /\ \A w \in u : w \subseteq Ids
  BY UnitsAreIds DEF Places
<1> HIDE DEF place, u
<1>3. /\ call'[s].at = place /\ call'[s].answer = call[s].answer
      /\ call'[s].filter = call[s].filter /\ call'[s].units = u
  BY <1>1 DEF CallOf
<1>4. Asking(s)'
  BY <1>2, <1>3 DEF Asking
<1>5. \A r \in Sessions \ {s} : call'[r] = call[r]
  BY <1>1
<1>6. QED
  BY <1>4, <1>5, AskingMoves

(* A call that begins, with one of the filters clients use.                *)
LEMMA AskingCalls ==
    ASSUME SubscriptionAssumption, CallShape, NEW s \in Sessions, Ask(s),
           \A r \in Sessions : Asking(r)
    PROVE  \A r \in Sessions : Asking(r)'
<1>1. PICK f \in Filters, h \in Headers : Call(s, f, h)
  BY DEF Ask
<1>2. /\ DOMAIN call = Sessions /\ call[s] = CallOf(s)
      /\ call' = [call EXCEPT ![s].at = "lookup", ![s].filter = f, ![s].header = h]
  BY <1>1 DEF CallShape, Call
<1>3. /\ call'[s].at = "lookup" /\ call'[s].answer = call[s].answer
      /\ call'[s].filter = f /\ call'[s].units = call[s].units
  BY <1>2 DEF CallOf
<1>4. Askable(Range(f))
  BY DEF SubscriptionAssumption, Askable
<1>5. Asking(s)'
  BY <1>3, <1>4 DEF Asking, Places
<1>6. \A r \in Sessions \ {s} : call'[r] = call[r]
  BY <1>2
<1>7. QED
  BY <1>5, <1>6, AskingMoves

(* A call that reads one unit.                                             *)
LEMMA AskingReads ==
    ASSUME CallShape, NEW s \in Sessions, ReadUnit(s), value \in [Ids -> Versions],
           \A r \in Sessions : Asking(r)
    PROVE  \A r \in Sessions : Asking(r)'
<1>1. PICK u \in call[s].units :
         call' = [call EXCEPT ![s].units = call[s].units \ {u},
                              ![s].answer = @ \cup {<<p, value[p]>> : p \in u},
                              ![s].at = IF call[s].units \ {u} = {}
                                        THEN IF call[s].target = {} THEN "register" ELSE "forward"
                                        ELSE "get"]
  BY DEF ReadUnit
<1> DEFINE place == IF call[s].units \ {u} = {}
                    THEN IF call[s].target = {} THEN "register" ELSE "forward"
                    ELSE "get"
           w == call[s].answer \cup {<<p, value[p]>> : p \in u}
<1>2. DOMAIN call = Sessions /\ call[s] = CallOf(s)
  BY DEF CallShape
<1>3. call' = [call EXCEPT ![s].units = call[s].units \ {u}, ![s].answer = w, ![s].at = place]
  BY <1>1
<1>4. place \in Places
  BY DEF Places
<1>5. w \subseteq Ids \X Versions
  <2>1. u \subseteq Ids /\ call[s].answer \subseteq Ids \X Versions
    BY DEF Asking
  <2>2. \A p \in u : value[p] \in Versions
    BY <2>1
  <2>3. QED
    BY <2>1, <2>2
<1> HIDE DEF place, w
<1>6. /\ call'[s].at = place /\ call'[s].answer = w
      /\ call'[s].filter = call[s].filter /\ call'[s].units \subseteq call[s].units
  BY <1>2, <1>3 DEF CallOf
<1>7. Asking(s)'
  BY <1>4, <1>5, <1>6 DEF Asking
<1>8. \A r \in Sessions \ {s} : call'[r] = call[r]
  BY <1>2, <1>3
<1>9. QED
  BY <1>7, <1>8, AskingMoves

(* A call whose answer shrinks.                                            *)
LEMMA AskingAnswers ==
    ASSUME CallShape, NEW s \in Sessions, NEW place \in Places, NEW w \in SUBSET call[s].answer,
           Becomes(s, place, call[s].filter, w, call[s].target), call'[s].units = call[s].units,
           \A r \in Sessions : Asking(r)
    PROVE  \A r \in Sessions : Asking(r)'
<1>1. Asking(s)'
  BY DEF Asking, Becomes
<1>2. QED
  BY <1>1, AskingMoves DEF Becomes

-----------------------------------------------------------------------------
(* The steps keep the types.                                               *)
(* Sending and receiving keep a channel's type and bound.                  *)
LEMMA Channels ==
    ASSUME NEW S, NEW q \in Seq(S), NEW n \in Nat, Len(q) <= n
    PROVE  /\ \A m \in S : Len(q) < n => Append(q, m) \in Seq(S) /\ Len(Append(q, m)) <= n
           /\ q # <<>> => Tail(q) \in Seq(S) /\ Len(Tail(q)) <= n /\ Head(q) \in S
<1>1. Len(q) \in Nat
  BY LenProperties
<1>2. ASSUME NEW m \in S, Len(q) < n
      PROVE  Append(q, m) \in Seq(S) /\ Len(Append(q, m)) <= n
  <2>1. Append(q, m) \in Seq(S) /\ Len(Append(q, m)) = Len(q) + 1
    BY AppendProperties
  <2>2. QED
    BY <1>1, <1>2, <2>1
<1>3. ASSUME q # <<>>
      PROVE  Tail(q) \in Seq(S) /\ Len(Tail(q)) <= n /\ Head(q) \in S
  <2>1. Tail(q) \in Seq(S) /\ Len(Tail(q)) = Len(q) - 1 /\ Head(q) \in S
    BY <1>3, HeadTailProperties
  <2>2. QED
    BY <1>1, <2>1
<1>4. QED
  BY <1>2, <1>3

(* A worker's step.                                                        *)
LEMMA TypedWorks ==
    ASSUME SubscriptionAssumption, Typed, Work
    PROVE  Typed'
<1>0. /\ UNCHANGED <<dist, queue, view, heard, shown, call>>
      /\ WatcherCap \in Nat /\ MaxVersion \in Nat /\ Versions = 0..MaxVersion
      /\ Severities \subseteq Levels /\ "none" \in Levels
  BY Bounds DEF Work, Publish, Raise, Resolve, Hold, Post, subscribers, clients
<1>1. ASSUME NEW p \in Params, Publish(p)
      PROVE  Holding'
  <2>1. /\ value[p] < MaxVersion /\ value' = [value EXCEPT ![p] = @ + 1]
        /\ Len(watcher) < WatcherCap
        /\ watcher' = Append(watcher, ValueMessage(p, value'[p]))
        /\ UNCHANGED <<active, posting>>
    BY <1>1 DEF Publish, Room, Posted
  <2>2. p \in Ids /\ value[p] \in 0..MaxVersion
    BY <1>0, Bounds DEF Typed, Holding
  <2>3. value[p] + 1 \in Versions
    BY <1>0, <2>1, <2>2
  <2>4. value' \in [Ids -> Versions] /\ value'[p] \in Versions
    BY <2>1, <2>2, <2>3 DEF Typed, Holding
  <2>5. ValueMessage(p, value'[p]) \in Messages
    BY <2>2, <2>4 DEF ValueMessage, Messages
  <2>6. watcher' \in Seq(Messages) /\ Len(watcher') <= WatcherCap
    BY <1>0, <2>1, <2>5, Channels DEF Typed, Holding
  <2>7. QED
    BY <1>0, <2>1, <2>4, <2>6 DEF Typed, Holding
<1>2. ASSUME NEW st \in Statuses, NEW type \in Severities \cup {"resolve"}, Hold(st, type),
             active' \in [Keys -> Levels]
      PROVE  Holding'
  <2>1. StatusMessage(st, type) \in Messages
    BY DEF Messages
  <2>2. /\ posting' = [posting EXCEPT ![st.id[1]] = StatusMessage(st, type)]
        /\ UNCHANGED <<value, watcher>>
    BY <1>2 DEF Hold
  <2>3. posting' \in [Workers -> Messages \cup {NoMessage}]
    BY <2>1, <2>2 DEF Typed, Holding
  <2>4. QED
    BY <1>0, <1>2, <2>2, <2>3 DEF Typed, Holding
<1>3. ASSUME NEW st \in Statuses, NEW v \in Severities, Raise(st, v)
      PROVE  Holding'
  <2>1. Hold(st, v) /\ active' = [active EXCEPT ![Key(st)] = v]
    BY <1>3 DEF Raise
  <2>2. active' \in [Keys -> Levels]
    BY <1>0, <2>1 DEF Typed, Holding
  <2>3. QED
    BY <1>2, <2>1, <2>2
<1>4. ASSUME NEW st \in Statuses, Resolve(st)
      PROVE  Holding'
  <2>1. /\ Hold(st, "resolve")
        /\ active' = [k \in Keys |-> IF k \in Covers(Key(st)) THEN "none" ELSE active[k]]
    BY <1>4 DEF Resolve
  <2>2. active' \in [Keys -> Levels]
    BY <1>0, <2>1 DEF Typed, Holding
  <2>3. QED
    BY <1>2, <2>1, <2>2
<1>5. ASSUME NEW d \in Workers, Post(d)
      PROVE  Holding'
  <2>1. /\ posting[d] # NoMessage /\ Len(watcher) < WatcherCap
        /\ watcher' = Append(watcher, posting[d])
        /\ posting' = [posting EXCEPT ![d] = NoMessage]
        /\ UNCHANGED <<value, active>>
    BY <1>5 DEF Post, Room, Posted
  <2>2. posting[d] \in Messages /\ posting' \in [Workers -> Messages \cup {NoMessage}]
    BY <2>1 DEF Typed, Holding
  <2>3. watcher' \in Seq(Messages) /\ Len(watcher') <= WatcherCap
    BY <1>0, <2>1, <2>2, Channels DEF Typed, Holding
  <2>4. QED
    BY <1>0, <2>1, <2>2, <2>3 DEF Typed, Holding
<1>6. Holding'
  BY <1>1, <1>3, <1>4, <1>5 DEF Work
<1>7. Showing' /\ \A s \in Sessions : Asking(s)'
  BY <1>0 DEF Typed, Showing, Asking
<1>8. QED
  BY <1>6, <1>7 DEF Typed

(* The distributor's steps.                                                *)
LEMMA TypedDistributes ==
    ASSUME SubscriptionAssumption, CallShape, Typed, Distribute
    PROVE  Typed'
<1>0. /\ UNCHANGED <<value, active, posting, view, heard, shown, call>>
      /\ WatcherCap \in Nat /\ ChanCap \in Nat
  BY Bounds DEF Distribute, TakeMessage, Offer, EndRound, Cleanup, core, clients
<1>1. CASE TakeMessage
  <2>1. /\ watcher # <<>> /\ watcher' = Tail(watcher) /\ UNCHANGED queue
        /\ dist' = [phase |-> "loop", msg |-> Head(watcher), todo |-> registered, slow |-> {}]
    BY <1>1 DEF TakeMessage, subscribers
  <2>2. watcher' \in Seq(Messages) /\ Len(watcher') <= WatcherCap /\ Head(watcher) \in Messages
    BY <1>0, <2>1, Channels DEF Typed, Holding
  <2>3. QED
    BY <1>0, <2>1, <2>2 DEF Typed, Holding, Showing, Asking
<1>2. CASE Offer
  <2>1. PICK s \in dist.todo : Skip(s) \/ Put(s) \/ TimeOut(s)
    BY <1>2 DEF Offer
  <2>2. dist.phase = "loop" /\ UNCHANGED watcher
    BY <1>2 DEF Offer
  <2>3. dist'.phase = "loop" /\ dist'.msg = dist.msg
    BY <2>1, <2>2 DEF CallShape, Skip, Put, TimeOut
  <2>4. \/ UNCHANGED queue
        \/ Fits(s) /\ queue' = [queue EXCEPT ![s] = Append(@, dist.msg)]
    BY <2>1 DEF Skip, Put, TimeOut
  <2>5. dist.msg \in Received
    BY <2>2 DEF Typed, Holding, Received
  <2>6. ASSUME NEW r \in Sessions
        PROVE  queue'[r] \in Seq(Received) /\ Len(queue'[r]) <= ChanCap
    <3>1. queue[r] \in Seq(Received) /\ Len(queue[r]) <= ChanCap
      BY DEF Typed, Holding
    <3>2. CASE queue'[r] = queue[r]
      BY <3>1, <3>2
    <3>3. CASE queue'[r] # queue[r]
      <4>1. r = s /\ Len(queue[r]) < ChanCap /\ queue'[r] = Append(queue[r], dist.msg)
        BY <2>4, <3>3 DEF Typed, Holding, Fits
      <4>2. QED
        BY <1>0, <2>5, <3>1, <4>1, Channels
    <3>4. QED
      BY <3>2, <3>3
  <2>7. queue' \in [Sessions -> Seq(Received)]
    <3>1. queue' = [r \in Sessions |-> queue'[r]]
      BY <2>4 DEF Typed, Holding
    <3>2. QED
      BY <2>6, <3>1
  <2>8. QED
    BY <1>0, <2>2, <2>3, <2>6, <2>7 DEF Typed, Holding, Showing, Asking
<1>3. CASE EndRound
  <2>1. /\ dist'.phase # "loop" /\ dist'.msg = NoMessage /\ dist'.todo = {}
        /\ UNCHANGED <<watcher, queue>>
    BY <1>3 DEF EndRound, subscribers, Resting
  <2>2. QED
    BY <1>0, <2>1 DEF Typed, Holding, Showing, Asking
<1>4. CASE Cleanup
  <2>1. /\ dist'.phase # "loop" /\ dist'.msg = NoMessage /\ dist'.todo = {}
        /\ UNCHANGED <<watcher, queue>>
    BY <1>4 DEF Cleanup, Resting
  <2>2. QED
    BY <1>0, <2>1 DEF Typed, Holding, Showing, Asking
<1>5. QED
  BY <1>1, <1>2, <1>3, <1>4 DEF Distribute

(* What a client shows after a status message.                             *)
LEMMA ShowsLevels ==
    ASSUME SubscriptionAssumption, NEW shows \in [Keys -> Levels],
           NEW m \in Received, m.what = "status"
    PROVE  ShowStatus(shows, m) \in [Keys -> Levels]
<1>1. m.type \in Severities \cup {"resolve"}
  BY MessageIs
<1>2. CASE m.type = "resolve"
  BY <1>2, Bounds DEF ShowStatus
<1>3. CASE m.type # "resolve"
  <2>1. m.type \in Levels
    BY <1>1, <1>3, Bounds
  <2>2. QED
    BY <1>3, <2>1 DEF ShowStatus
<1>4. QED
  BY <1>2, <1>3

(* A client that reads a message.                                          *)
LEMMA TypedReceives ==
    ASSUME SubscriptionAssumption, Typed, NEW s \in Sessions, Receive(s)
    PROVE  Typed'
<1> DEFINE m == Head(queue[s])
<1>1. /\ queue[s] # <<>> /\ queue' = [queue EXCEPT ![s] = Tail(@)]
      /\ UNCHANGED <<value, active, posting, watcher, dist, call>>
  BY DEF Receive, core
<1>2. /\ Tail(queue[s]) \in Seq(Received) /\ Len(Tail(queue[s])) <= ChanCap
      /\ m \in Received
  BY <1>1, Bounds, Channels DEF Typed, Holding
<1>3. Holding'
  <2>1. queue' \in [Sessions -> Seq(Received)] /\ \A r \in Sessions : Len(queue'[r]) <= ChanCap
    BY <1>1, <1>2 DEF Typed, Holding
  <2>2. QED
    BY <1>1, <2>1 DEF Typed, Holding
<1>4. Showing'
  <2>1. CASE m.what = "status"
    <3>1. shown' = [shown EXCEPT ![s] = ShowStatus(shown[s], m)] /\ UNCHANGED <<view, heard>>
      BY <2>1 DEF Receive
    <3>2. ShowStatus(shown[s], m) \in [Keys -> Levels]
      BY <1>2, <2>1, ShowsLevels DEF Typed, Showing
    <3>3. QED
      BY <3>1, <3>2 DEF Typed, Showing
  <2>2. CASE m.what # "status"
    <3>1. m.id \in Ids /\ m.version \in Versions
      BY <1>2, <2>2, MessageIs
    <3>2. /\ UNCHANGED shown /\ view' = [view EXCEPT ![s][m.id] = m.version]
          /\ UNCHANGED heard \/ heard' = [heard EXCEPT ![s][m.id] = m.version]
      BY <2>2 DEF Receive
    <3>3. ASSUME NEW w \in [Sessions -> [Ids -> Versions]]
          PROVE  [w EXCEPT ![s][m.id] = m.version] \in [Sessions -> [Ids -> Versions]]
      <4>1. [w[s] EXCEPT ![m.id] = m.version] \in [Ids -> Versions]
        BY <3>1
      <4>2. QED
        BY <4>1
    <3>4. view \in [Sessions -> [Ids -> Versions]] /\ heard \in [Sessions -> [Ids -> Versions]]
      BY DEF Typed, Showing
    <3>5. view' \in [Sessions -> [Ids -> Versions]] /\ heard' \in [Sessions -> [Ids -> Versions]]
      BY <3>2, <3>3, <3>4
    <3>6. QED
      BY <3>2, <3>5 DEF Typed, Showing
  <2>3. QED
    BY <2>1, <2>2
<1>5. \A r \in Sessions : Asking(r)'
  BY <1>1 DEF Typed, Asking
<1>6. QED
  BY <1>3, <1>4, <1>5 DEF Typed

(* A value handed to the stream of an earlier call.                        *)
LEMMA TypedForwards ==
    ASSUME SubscriptionAssumption, CallShape, Typed, NEW s \in Sessions, Forward(s)
    PROVE  Typed'
<1>1. PICK a \in call[s].answer, t \in call[s].target :
        IF closed[t]
        THEN crashed' = TRUE /\ UNCHANGED <<queue, call>>
        ELSE /\ Fits(t)
             /\ queue' = [queue EXCEPT ![t] = Append(@, [ValueMessage(a[1], a[2])
                                                           EXCEPT !.what = "reread"])]
             /\ call' = [call EXCEPT ![s].answer = @ \ {a}]
             /\ UNCHANGED crashed
  BY DEF Forward
<1>2. UNCHANGED <<value, active, posting, watcher, dist, view, heard, shown>>
  BY DEF Forward, core, clients
<1>3. CASE closed[t]
  BY <1>1, <1>2, <1>3 DEF Typed, Holding, Showing, Asking
<1>4. CASE ~closed[t]
  <2> DEFINE m == [ValueMessage(a[1], a[2]) EXCEPT !.what = "reread"]
  <2>1. m = [what |-> "reread", id |-> a[1], version |-> a[2]]
    BY DEF ValueMessage
  <2>2. a[1] \in Ids /\ a[2] \in Versions
    BY DEF Typed, Asking
  <2>3. m \in Received
    BY <2>1, <2>2 DEF Received
  <2>4. /\ Fits(t) /\ queue' = [queue EXCEPT ![t] = Append(@, m)]
        /\ call' = [call EXCEPT ![s].answer = @ \ {a}]
    BY <1>1, <1>4
  <2> HIDE DEF m
  <2>5. ASSUME NEW r \in Sessions
        PROVE  queue'[r] \in Seq(Received) /\ Len(queue'[r]) <= ChanCap
    <3>1. queue[r] \in Seq(Received) /\ Len(queue[r]) <= ChanCap
      BY DEF Typed, Holding
    <3>2. CASE r # t
      BY <2>4, <3>1, <3>2 DEF Typed, Holding
    <3>3. CASE r = t
      <4>1. Len(queue[r]) < ChanCap /\ queue'[r] = Append(queue[r], m)
        BY <2>4, <3>3 DEF Typed, Holding, Fits
      <4>2. QED
        BY <2>3, <3>1, <4>1, Bounds, Channels
    <3>4. QED
      BY <3>2, <3>3
  <2>6. queue' \in [Sessions -> Seq(Received)]
    <3>1. queue' = [r \in Sessions |-> queue'[r]]
      BY <2>4 DEF Typed, Holding
    <3>2. QED
      BY <2>5, <3>1
  <2>7. /\ Becomes(s, call[s].at, call[s].filter, call[s].answer \ {a}, call[s].target)
        /\ call[s].at \in Places
    BY <2>4, ForwardMoves DEF Typed, Asking
  <2>8. call'[s].units = call[s].units
    BY <2>4 DEF CallShape, CallOf
  <2>9. \A r \in Sessions : Asking(r)'
    <3> DEFINE place == call[s].at
               w == call[s].answer \ {a}
    <3>1. /\ place \in Places /\ w \in SUBSET call[s].answer
          /\ Becomes(s, place, call[s].filter, w, call[s].target)
          /\ \A r \in Sessions : Asking(r)
      BY <2>7 DEF Typed
    <3> HIDE DEF place, w
    <3>2. QED
      BY <2>8, <3>1, AskingAnswers
  <2>10. QED
    BY <1>2, <2>5, <2>6, <2>9 DEF Typed, Holding, Showing
<1>5. QED
  BY <1>3, <1>4

(* What a new client is shown first.                                       *)
LEMMA TypedReplays ==
    ASSUME SubscriptionAssumption, CallShape, Typed, NEW s \in Sessions, Replay(s)
    PROVE  Typed'
<1>1. /\ view' = [view EXCEPT ![s] = [p \in Ids |->
                    IF \E v \in Versions : <<p, v>> \in call[s].answer
                    THEN CHOOSE v \in Versions : <<p, v>> \in call[s].answer
                    ELSE view[s][p]]]
      /\ shown' = [shown EXCEPT ![s] = active]
      /\ call' = [call EXCEPT ![s].at = "stream", ![s].answer = {}]
      /\ UNCHANGED <<value, active, posting, watcher, dist, queue, heard>>
  BY DEF Replay, core, subscribers, ActiveStatuses
<1>2. view' \in [Sessions -> [Ids -> Versions]]
  BY <1>1 DEF Typed, Showing
<1>3. shown' \in [Sessions -> [Keys -> Levels]]
  BY <1>1 DEF Typed, Showing, Holding
<1>4. Becomes(s, "stream", call[s].filter, {}, call[s].target)
  BY <1>1, AnswerMoves
<1>5. call'[s].units = call[s].units
  BY <1>1 DEF CallShape, CallOf
<1>6. "stream" \in Places
  BY DEF Places
<1>7. \A r \in Sessions : Asking(r)'
  BY <1>4, <1>5, <1>6, AskingAnswers DEF Typed
<1>8. QED
  BY <1>1, <1>2, <1>3, <1>7 DEF Typed, Holding, Showing

(* A step of a call.                                                       *)
LEMMA TypedCalls ==
    ASSUME SubscriptionAssumption, CallShape, Typed,
           NEW s \in Sessions, Ask(s) \/ Subscribe(s) \/ Disconnect(s)
    PROVE  Typed'
<1>0. /\ {"ended", "replay", "unregister", "close"} \subseteq Places
      /\ \A r \in Sessions : Asking(r)
  BY DEF Places, Typed
<1>1. CASE UNCHANGED <<value, active, posting, watcher, dist, queue, view, heard, shown>>
  <2>1. Holding' /\ Showing'
    BY <1>1 DEF Typed, Holding, Showing
  <2>2. CASE Ask(s)
    BY <1>0, <2>1, <2>2, AskingCalls DEF Typed
  <2>3. CASE NewStream(s)
    <3>1. Get(s, call[s].filter, {}) /\ Askable(Range(call[s].filter))
      BY <2>3 DEF NewStream, Typed, Asking
    <3>2. QED
      BY <1>0, <2>1, <3>1, AskingGets DEF Typed
  <2>4. CASE \E t \in registered : Resubscribe(s, t)
    <3>1. PICK t \in registered : Resubscribe(s, t)
      BY <2>4
    <3>2. Goto(s, "ended") \/ Get(s, Added(call[s].filter, filter[t]), {t})
      BY <3>1 DEF Resubscribe
    <3>3. Askable(Range(call[s].filter))
      BY DEF Typed, Asking
    <3>4. Askable(Range(Added(call[s].filter, filter[t])))
      BY <3>3, AddedIsPart DEF Askable
    <3>5. QED
      BY <1>0, <2>1, <3>2, <3>4, AskingGoto, AskingGets DEF Typed
  <2>5. CASE ReadUnit(s)
    BY <1>0, <2>1, <2>5, AskingReads DEF Typed, Holding
  <2>6. CASE \/ ForwardDone(s) \/ Register(s) \/ EndOfStream(s) \/ Unregister(s) \/ Close(s)
             \/ Disconnect(s)
    <3>1. \E place \in Places : Goto(s, place)
      BY <1>0, <2>6 DEF ForwardDone, Register, EndOfStream, Unregister, Close, Disconnect
    <3>2. QED
      BY <1>0, <2>1, <3>1, AskingGoto DEF Typed
  <2>7. CASE Forward(s)
    BY <2>7, TypedForwards
  <2>8. CASE Replay(s)
    BY <2>8, TypedReplays
  <2>9. CASE Receive(s)
    BY <2>9, TypedReceives
  <2>10. QED
    BY <2>2, <2>3, <2>4, <2>5, <2>6, <2>7, <2>8, <2>9 DEF Subscribe
<1>2. CASE Forward(s) \/ Replay(s) \/ Receive(s)
  BY <1>2, TypedForwards, TypedReplays, TypedReceives
<1>3. UNCHANGED <<value, active, posting, watcher, dist, queue, view, heard, shown>>
         \/ Forward(s) \/ Replay(s) \/ Receive(s)
  BY DEF Ask, Call, Subscribe, NewStream, Resubscribe, ReadUnit, ForwardDone, Register,
         EndOfStream, Unregister, Close, Disconnect, core, subscribers, clients
<1>4. QED
  BY <1>1, <1>2, <1>3

(* The types hold at the start.                                            *)
LEMMA TypedInit ==
    ASSUME SubscriptionAssumption, Init
    PROVE  Typed
<1>1. /\ value = [p \in Ids |-> IF p \in Params THEN 1 ELSE 0] /\ active = [k \in Keys |-> "none"]
      /\ posting = [d \in Workers |-> NoMessage] /\ watcher = <<>> /\ dist = Resting
      /\ queue = [s \in Sessions |-> <<>>] /\ call = [s \in Sessions |-> Idle]
      /\ view = [s \in Sessions |-> [p \in Ids |-> 0]] /\ heard = view
      /\ shown = [s \in Sessions |-> active]
  BY DEF Init
<1>2. Len(<<>>) = 0 /\ 0 <= WatcherCap /\ 0 <= ChanCap
  BY Bounds
<1>3. Holding
  <2>1. /\ value \in [Ids -> Versions] /\ active \in [Keys -> Levels]
        /\ posting \in [Workers -> Messages \cup {NoMessage}]
    BY <1>1, Bounds
  <2>2. /\ watcher \in Seq(Messages) /\ Len(watcher) <= WatcherCap
        /\ queue \in [Sessions -> Seq(Received)] /\ \A s \in Sessions : Len(queue[s]) <= ChanCap
    BY <1>1, <1>2
  <2>3. dist.phase = "idle" /\ dist.msg = NoMessage /\ dist.todo = {}
    BY <1>1 DEF Resting
  <2>4. QED
    BY <2>1, <2>2, <2>3 DEF Holding
<1>4. Showing
  BY <1>1, Bounds DEF Showing
<1>5. Range(<<>>) = {}
  BY EmptyIs
<1>6. ASSUME NEW s \in Sessions PROVE Asking(s)
  <2>1. /\ call[s].at = "idle" /\ call[s].answer = {} /\ call[s].units = {}
        /\ Range(call[s].filter) = {}
    BY <1>1, <1>5 DEF Idle
  <2>2. QED
    BY <2>1 DEF Asking, Askable, Places
<1>7. QED
  BY <1>3, <1>4, <1>6 DEF Typed

(* No step disturbs the types.                                             *)
LEMMA TypedStep ==
    ASSUME SubscriptionAssumption, CallShape, Typed, [Next]_vars
    PROVE  Typed'
<1>1. CASE UNCHANGED vars
  BY <1>1 DEF vars, core, subscribers, clients, Typed, Holding, Showing, Asking
<1>2. QED
  BY <1>1, TypedWorks, TypedDistributes, TypedCalls DEF Next

(* Every variable keeps its type, no channel holds more than its capacity, *)
(* and a message that a goroutine holds or a channel carries is about a    *)
(* parameter or a status that exists.                                      *)
THEOREM TypeOKHolds ==
    ASSUME SubscriptionAssumption
    PROVE  Spec => []TypeOK
<1>1. Init => Typed
  BY SubscriptionAssumption, TypedInit
<1>2. CallShape /\ Typed /\ [Next]_vars => Typed'
  BY SubscriptionAssumption, TypedStep
<1>3. CallShape /\ Open /\ Typed => TypeOK
  BY DEF CallShape, Open, Typed, Holding, Showing, Asking, TypeOK
<1>4. Init => CallShape /\ Open
  BY OpenInit
<1>5. CallShape /\ Open /\ [Next]_vars => CallShape' /\ Open'
  BY SubscriptionAssumption, OpenStep
<1>6. QED
  BY <1>1, <1>2, <1>3, <1>4, <1>5, PTL DEF Spec

-----------------------------------------------------------------------------
(* Messages that say something about a status.                             *)
(*                                                                         *)
(* What a client shows of one status is followed back to the cache through *)
(* the worker's hand, the watcher, the distributor's hand and the client's *)
(* channel: the first of these that says something about the status last   *)
(* says what the cache holds, and if none does, the client shows it.       *)
Says(m, k) == m.what = "status" /\ IF m.type = "resolve" THEN IsPrefix(m.key, k) ELSE m.key = k
Told(m) == IF m.type = "resolve" THEN "none" ELSE m.type
Silent(q, k) == \A i \in 1..Len(q) : ~Says(q[i], k)
EndsIn(q, k, v) ==
    \A i \in 1..Len(q) :
        Says(q[i], k) /\ (\A j \in 1..Len(q) : i < j => ~Says(q[j], k)) => Told(q[i]) = v

(* Nothing was said in an empty channel.                                   *)
LEMMA EmptySays ==
    ASSUME NEW k, NEW v
    PROVE  Silent(<<>>, k) /\ EndsIn(<<>>, k, v)
<1>1. Len(<<>>) = 0
  OBVIOUS
<1>2. QED
  BY <1>1 DEF Silent, EndsIn

(* The message that is sent is the last one, if it says something.         *)
LEMMA AppendSays ==
    ASSUME NEW S, NEW q \in Seq(S), NEW m \in S, NEW k, NEW v
    PROVE  /\ ~Says(m, k) => /\ Silent(Append(q, m), k) <=> Silent(q, k)
                             /\ EndsIn(q, k, v) => EndsIn(Append(q, m), k, v)
           /\ Says(m, k) => /\ ~Silent(Append(q, m), k)
                            /\ Told(m) = v => EndsIn(Append(q, m), k, v)
<1> DEFINE r == Append(q, m)
           n == Len(q)
<1>1. /\ Len(r) = n + 1 /\ n \in Nat /\ r[n + 1] = m
      /\ \A i \in 1..n : r[i] = q[i]
  BY AppendProperties, LenProperties
<1> HIDE DEF r, n
<1>2. /\ \A i \in 1..(n + 1) : i = n + 1 \/ i \in 1..n
      /\ \A i \in 1..n : i \in 1..(n + 1) /\ i < n + 1
      /\ n + 1 \in 1..(n + 1)
  BY <1>1
<1>3. Silent(r, k) <=> Silent(q, k) /\ ~Says(m, k)
  BY <1>1, <1>2 DEF Silent, n
<1>4. ASSUME ~Says(m, k), EndsIn(q, k, v)
      PROVE  EndsIn(r, k, v)
  <2>1. SUFFICES ASSUME NEW i \in 1..(n + 1), Says(r[i], k),
                        \A j \in 1..(n + 1) : i < j => ~Says(r[j], k)
                 PROVE  Told(r[i]) = v
    BY <1>1 DEF EndsIn
  <2>2. i \in 1..n
    BY <1>1, <1>2, <1>4, <2>1
  <2>3. Says(q[i], k) /\ \A j \in 1..n : i < j => ~Says(q[j], k)
    BY <1>1, <1>2, <2>1, <2>2
  <2>4. QED
    BY <1>1, <1>4, <2>2, <2>3 DEF EndsIn, n
<1>5. ASSUME Says(m, k), Told(m) = v
      PROVE  EndsIn(r, k, v)
  <2>1. SUFFICES ASSUME NEW i \in 1..(n + 1), Says(r[i], k),
                        \A j \in 1..(n + 1) : i < j => ~Says(r[j], k)
                 PROVE  Told(r[i]) = v
    BY <1>1 DEF EndsIn
  <2>2. i = n + 1
    BY <1>1, <1>2, <1>5, <2>1
  <2>3. QED
    BY <1>1, <1>5, <2>2
<1>6. QED
  BY <1>3, <1>4, <1>5 DEF r

(* What the rest of a channel says, and the message that is taken from it. *)
LEMMA TailSays ==
    ASSUME NEW S, NEW q \in Seq(S), q # <<>>, NEW k, NEW v, EndsIn(q, k, v)
    PROVE  /\ EndsIn(Tail(q), k, v)
           /\ ~Says(Head(q), k) => (Silent(Tail(q), k) <=> Silent(q, k))
           /\ Says(Head(q), k) => ~Silent(q, k) /\ (Silent(Tail(q), k) => Told(Head(q)) = v)
<1> DEFINE r == Tail(q)
           n == Len(r)
<1>1. /\ Len(q) = n + 1 /\ n \in Nat /\ Head(q) = q[1]
      /\ \A i \in 1..n : r[i] = q[i + 1]
  BY HeadTailProperties, EmptySeq, LenProperties
<1> HIDE DEF r, n
<1>2. /\ \A i \in 1..(n + 1) : i = 1 \/ (i - 1 \in 1..n /\ (i - 1) + 1 = i /\ 1 < i)
      /\ \A i \in 1..n : i + 1 \in 1..(n + 1)
      /\ 1 \in 1..(n + 1)
  BY <1>1
<1>3. Silent(q, k) <=> Silent(r, k) /\ ~Says(Head(q), k)
  <2>1. ASSUME Silent(q, k) PROVE Silent(r, k) /\ ~Says(Head(q), k)
    BY <1>1, <1>2, <2>1 DEF Silent, n
  <2>2. ASSUME Silent(r, k), ~Says(Head(q), k) PROVE Silent(q, k)
    <3>1. SUFFICES ASSUME NEW i \in 1..(n + 1) PROVE ~Says(q[i], k)
      BY <1>1 DEF Silent
    <3>2. CASE i = 1
      BY <1>1, <2>2, <3>2
    <3>3. CASE i # 1
      <4>1. i - 1 \in 1..n /\ r[i - 1] = q[i]
        BY <1>1, <1>2, <3>3
      <4>2. QED
        BY <2>2, <4>1 DEF Silent, n
    <3>4. QED
      BY <3>2, <3>3
  <2>3. QED
    BY <2>1, <2>2
<1>4. EndsIn(r, k, v)
  <2>1. SUFFICES ASSUME NEW i \in 1..n, Says(r[i], k), \A j \in 1..n : i < j => ~Says(r[j], k)
                 PROVE  Told(r[i]) = v
    BY DEF EndsIn, n
  <2>2. i + 1 \in 1..(n + 1) /\ Says(q[i + 1], k)
    BY <1>1, <1>2, <2>1
  <2>3. ASSUME NEW j \in 1..(n + 1), i + 1 < j PROVE ~Says(q[j], k)
    <3>1. j - 1 \in 1..n /\ i < j - 1 /\ q[j] = r[j - 1]
      BY <1>1, <1>2, <2>3
    <3>2. QED
      BY <2>1, <3>1
  <2>4. QED
    BY <1>1, <2>2, <2>3 DEF EndsIn
<1>5. ASSUME Says(Head(q), k), Silent(r, k)
      PROVE  Told(Head(q)) = v
  <2>1. ASSUME NEW j \in 1..(n + 1), 1 < j PROVE ~Says(q[j], k)
    <3>1. j - 1 \in 1..n /\ r[j - 1] = q[j]
      BY <1>1, <1>2, <2>1
    <3>2. QED
      BY <1>5, <3>1 DEF Silent, n
  <2>2. QED
    BY <1>1, <1>2, <1>5, <2>1 DEF EndsIn
<1>6. QED
  BY <1>3, <1>4, <1>5 DEF r

(* What keys are made of; the key of a device's status begins with the     *)
(* device.                                                                 *)
Parts == STRING \cup {"device", "parameter"} \cup Nat

(* The second part of such a key is the device.                            *)
LEMMA KeyIs ==
    ASSUME SubscriptionAssumption, NEW st \in Statuses, st.id[1] # 0
    PROVE  /\ Key(st) \in Seq(Parts) /\ Len(Key(st)) \in Nat /\ Len(Key(st)) >= 2
           /\ Key(st)[2] = st.id[1]
<1>1. /\ st.id[1] \in Nat /\ st.id[2] \in Nat /\ st.name \in Seq(STRING)
      /\ st.name \in Seq(Parts)
  <2>1. st \in [id : Nat \X Nat, name : Seq(STRING)]
    BY DEF SubscriptionAssumption
  <2>2. st.name \in Seq(Parts)
    BY <2>1, SeqMonotonic DEF Parts
  <2>3. QED
    BY <2>1, <2>2
<1>2. ASSUME NEW b \in Seq(Parts), Len(b) >= 2, b[2] = st.id[1]
      PROVE  /\ b \o st.name \in Seq(Parts) /\ Len(b \o st.name) \in Nat
             /\ Len(b \o st.name) >= 2 /\ (b \o st.name)[2] = st.id[1]
  <2>1. Len(b) \in Nat /\ Len(st.name) \in Nat
    BY <1>1, LenProperties
  <2>2. /\ b \o st.name \in Seq(Parts) /\ Len(b \o st.name) = Len(b) + Len(st.name)
        /\ \A i \in 1..Len(b) + Len(st.name) : (b \o st.name)[i] =
                IF i <= Len(b) THEN b[i] ELSE st.name[i - Len(b)]
    BY <1>1, ConcatProperties
  <2>3. 2 \in 1..Len(b) + Len(st.name) /\ 2 <= Len(b)
    BY <1>2, <2>1
  <2>4. QED
    BY <1>2, <2>1, <2>2, <2>3
<1> DEFINE d == st.id[1]
           p == st.id[2]
<1>3. /\ "device" \in Parts /\ "parameter" \in Parts /\ d \in Parts /\ p \in Parts
      /\ Key(st) = (IF p = 0 THEN <<"device", d>> ELSE <<"device", d, "parameter", p>>) \o st.name
  BY <1>1 DEF Parts, Key
<1> HIDE DEF d, p
<1>4. CASE p = 0
  <2>1. <<"device", d>> \in Seq(Parts) /\ Len(<<"device", d>>) >= 2 /\ <<"device", d>>[2] = d
    BY <1>3
  <2>2. QED
    BY <1>2, <1>4, <1>3, <2>1 DEF d
<1>5. CASE p # 0
  <2> DEFINE b == <<"device", d, "parameter", p>>
  <2>1. b \in Seq(Parts) /\ Len(b) >= 2 /\ b[2] = d
    BY <1>3
  <2>2. QED
    BY <1>2, <1>5, <1>3, <2>1 DEF d
<1>6. QED
  BY <1>4, <1>5

(* A status of a device is spoken of in its own name only: whatever        *)
(* changes it is from that device.                                         *)
LEMMA KeysTell ==
    ASSUME SubscriptionAssumption, NEW st \in Statuses, st.id[1] # 0, Apart(st),
           NEW m \in Received, Says(m, Key(st))
    PROVE  m \in Messages /\ m.what = "status" /\ m.id[1] = st.id[1]
<1>1. PICK o \in Statuses : m.id = o.id /\ m.key = Key(o)
  BY MessageIs DEF Says
<1>2. m \in Messages /\ m.what = "status"
  BY MessageIs DEF Says
<1>3. CASE m.type # "resolve"
  <2>1. Key(o) = Key(st)
    BY <1>1, <1>3 DEF Says
  <2>2. o.id[1] # 0
    <3>1. IsPrefix(Key(st), Key(st))
      BY KeyIs DEF IsPrefix
    <3>2. QED
      BY <2>1, <3>1 DEF Apart
  <2>3. QED
    BY <1>1, <1>2, <2>1, <2>2, KeyIs
<1>4. CASE m.type = "resolve"
  <2>1. IsPrefix(Key(o), Key(st))
    BY <1>1, <1>4 DEF Says
  <2>2. o.id[1] # 0
    BY <2>1 DEF Apart
  <2> DEFINE a == Key(o)
             b == Key(st)
  <2>3. /\ a \in Seq(Parts) /\ Len(a) \in Nat /\ Len(a) >= 2 /\ a[2] = o.id[1]
        /\ b \in Seq(Parts) /\ Len(b) \in Nat /\ Len(b) >= 2 /\ b[2] = st.id[1]
    BY <2>2, KeyIs
  <2> HIDE DEF a, b
  <2>4. SubSeq(a, 1, Len(a)) = SubSeq(b, 1, Len(a)) /\ Len(a) <= Len(b)
    BY <2>1 DEF IsPrefix, a, b
  <2>5. a[2] = b[2]
    BY <2>3, <2>4
  <2>6. QED
    BY <1>1, <1>2, <2>3, <2>5
<1>5. QED
  BY <1>3, <1>4

-----------------------------------------------------------------------------
(* What is followed from the cache to the clients.                         *)
InHand(s, k) == dist.phase = "loop" /\ s \in dist.todo /\ Says(dist.msg, k)
Follows(s, d) ==
    /\ s \in registered \ dist.slow /\ s \notin refilled
    /\ NamesDevice(filter[s]) => filter[s][1][1] = d

Reaches(s, d, k) ==
    Follows(s, d) =>
        IF InHand(s, k) THEN Told(dist.msg) = active[k]
        ELSE /\ EndsIn(queue[s], k, active[k])
             /\ Silent(queue[s], k) /\ At(s, "stream") => shown[s][k] = active[k]

Traced(d, k) ==
    IF Says(posting[d], k) THEN Told(posting[d]) = active[k]
    ELSE /\ EndsIn(watcher, k, active[k])
         /\ Silent(watcher, k) => \A s \in Sessions : Reaches(s, d, k)

Early == {"idle", "lookup", "get", "register"}
Held == \A d \in Workers : posting[d] # NoMessage => posting[d].id[1] = d
Still == \A s \in Sessions \ refilled : call[s].at \in Early => queue[s] = <<>>

AllTraced ==
    /\ Held /\ Still
    /\ \A st \in Statuses : st.id[1] # 0 /\ Apart(st) => Traced(st.id[1], Key(st))

(* A message about a device's status passes the filters of the clients     *)
(* that subscribed to the device, and a slow one is not forgiven it.       *)
LEMMA SaidIsWanted ==
    ASSUME SubscriptionAssumption, NEW st \in Statuses, st.id[1] # 0, Apart(st),
           NEW m \in Received, Says(m, Key(st)),
           NEW s, Follows(s, st.id[1])
    PROVE  Wants(filter[s], m) /\ ~Global(m)
<1>1. m.what = "status" /\ m.id[1] = st.id[1]
  BY KeysTell
<1>2. m.id # <<0, 0>>
  BY <1>1
<1>3. QED
  BY <1>1, <1>2 DEF Follows, Wants, Global

(* Held and Still, which say where nothing can be.                         *)
LEMMA HeldWorks ==
    ASSUME SubscriptionAssumption, Inv, Typed, Held, Work
    PROVE  Held'
<1>1. DOMAIN posting = Workers
  BY DEF Inv, DataShape
<1>2. ASSUME NEW st \in Statuses, NEW type, Hold(st, type)
      PROVE  Held'
  <2>1. posting' = [posting EXCEPT ![st.id[1]] = StatusMessage(st, type)]
    BY <1>2 DEF Hold
  <2>2. StatusMessage(st, type).id = st.id
    BY DEF StatusMessage
  <2>3. QED
    BY <1>1, <2>1, <2>2 DEF Held
<1>3. ASSUME NEW p \in Params, Publish(p)
      PROVE  Held'
  BY <1>3 DEF Publish, Held
<1>4. ASSUME NEW d \in Workers, Post(d)
      PROVE  Held'
  BY <1>1, <1>4 DEF Post, Held
<1>5. QED
  BY <1>2, <1>3, <1>4 DEF Work, Raise, Resolve

(* Before it registers, a call's channel is empty.                         *)
LEMMA StillDistributes ==
    ASSUME Inv, Still, Distribute
    PROVE  Still'
<1>1. UNCHANGED <<call, refilled>>
  BY DEF Distribute, TakeMessage, Offer, EndRound, Cleanup, clients
<1>2. CASE Offer
  <2>1. PICK s \in dist.todo : \/ UNCHANGED queue
                               \/ queue' = [queue EXCEPT ![s] = Append(@, dist.msg)]
    BY <1>2 DEF Offer, Skip, Put, TimeOut
  <2>2. call[s].at \notin Early /\ DOMAIN queue = Sessions
    BY <1>2 DEF Offer, Inv, Open, Streaming, Early, DataShape
  <2>3. QED
    BY <1>1, <2>1, <2>2 DEF Still
<1>3. CASE UNCHANGED queue
  BY <1>1, <1>3 DEF Still
<1>4. QED
  BY <1>2, <1>3 DEF Distribute, TakeMessage, EndRound, Cleanup, subscribers

(* Nothing but the distributor writes to it, unless it is refilled.        *)
LEMMA StillCalls ==
    ASSUME SubscriptionAssumption, Inv, Still,
           NEW r \in Sessions, Ask(r) \/ Subscribe(r) \/ Disconnect(r)
    PROVE  Still'
<1>0. CallShape /\ DOMAIN queue = Sessions
  BY DEF Inv, DataShape
<1>1. ASSUME UNCHANGED queue, refilled \subseteq refilled',
             NEW place, NEW f, NEW w, NEW t, Becomes(r, place, f, w, t),
             place \in Early => call[r].at \in Early
      PROVE  Still'
  <2>1. \A s \in Sessions : call'[s].at \in Early => call[s].at \in Early
    BY <1>1 DEF Becomes
  <2>2. QED
    BY <1>1, <2>1 DEF Still
<1>2. CASE Ask(r)
  <2>1. PICK f \in Filters, h \in Headers : Call(r, f, h)
    BY <1>2 DEF Ask
  <2>2. Becomes(r, "lookup", f, call[r].answer, call[r].target)
    BY <1>0, <2>1, CallMoves
  <2>3. call[r].at \in Early /\ UNCHANGED <<queue, refilled>>
    BY <2>1 DEF Call, At, Early, subscribers, clients
  <2>4. QED
    BY <1>1, <2>2, <2>3
<1>3. CASE NewStream(r) \/ \E t \in registered : Resubscribe(r, t)
  <2>1. call[r].at \in Early /\ UNCHANGED queue /\ refilled \subseteq refilled'
    BY <1>3 DEF NewStream, Resubscribe, At, Early, clients
  <2>2. Goto(r, "ended") \/ \E f, t : Get(r, f, t)
    BY <1>3 DEF NewStream, Resubscribe
  <2>3. \E place, f, w, t : Becomes(r, place, f, w, t)
    BY <1>0, <2>2, GotoMoves, GetMoves
  <2>4. QED
    BY <1>1, <2>1, <2>3
<1>4. CASE ReadUnit(r)
  <2>1. call[r].at \in Early /\ UNCHANGED <<queue, refilled>>
    BY <1>4 DEF ReadUnit, At, Early, subscribers, clients
  <2>2. \E place, f, w, t : Becomes(r, place, f, w, t)
    BY <1>0, <1>4, ReadMoves
  <2>3. QED
    BY <1>1, <2>1, <2>2
<1>5. CASE \/ ForwardDone(r) \/ Register(r) \/ EndOfStream(r) \/ Unregister(r) \/ Close(r)
           \/ Disconnect(r)
  <2>1. PICK place \in {"ended", "replay", "unregister", "close"} : Goto(r, place)
    BY <1>5 DEF ForwardDone, Register, EndOfStream, Unregister, Close, Disconnect
  <2>2. UNCHANGED <<queue, refilled>>
    BY <1>5 DEF ForwardDone, Register, EndOfStream, Unregister, Close, Disconnect,
                subscribers, clients
  <2>3. place \notin Early
    BY DEF Early
  <2>4. Becomes(r, place, call[r].filter, call[r].answer, call[r].target)
    BY <1>0, <2>1, GotoMoves
  <2>5. QED
    BY <1>1, <2>2, <2>3, <2>4
<1>6. CASE Replay(r)
  <2>1. call' = [call EXCEPT ![r].at = "stream", ![r].answer = {}] /\ UNCHANGED <<queue, refilled>>
    BY <1>6 DEF Replay, subscribers
  <2>2. Becomes(r, "stream", call[r].filter, {}, call[r].target)
    BY <1>0, <2>1, AnswerMoves
  <2>3. QED
    BY <1>1, <2>1, <2>2 DEF Early
<1>7. CASE Receive(r)
  BY <1>0, <1>7 DEF Receive, At, Early, Still
<1>8. CASE Forward(r)
  <2>1. call[r].at = "forward" /\ call[r].target \subseteq refilled
    BY <1>8 DEF Forward, At, Inv, AllAnswered, Answered
  <2>2. CASE UNCHANGED <<queue, call>>
    BY <1>8, <2>2 DEF Forward, clients, Still
  <2>3. CASE ~UNCHANGED <<queue, call>>
    <3>1. PICK a \in call[r].answer, t \in call[r].target :
              /\ \E m : queue' = [queue EXCEPT ![t] = Append(@, m)]
              /\ call' = [call EXCEPT ![r].answer = @ \ {a}]
      BY <1>8, <2>3, Forwards
    <3>2. Becomes(r, call[r].at, call[r].filter, call[r].answer \ {a}, call[r].target)
      BY <1>0, <3>1, ForwardMoves
    <3>3. \A s \in Sessions : call'[s].at = call[s].at
      BY <3>2 DEF Becomes
    <3>4. UNCHANGED refilled
      BY <1>8, Forwards
    <3>5. \A s \in Sessions \ refilled : queue'[s] = queue[s]
      BY <1>0, <2>1, <3>1
    <3>6. QED
      BY <3>3, <3>4, <3>5 DEF Still
  <2>4. QED
    BY <2>2, <2>3
<1>9. QED
  BY <1>2, <1>3, <1>4, <1>5, <1>6, <1>7, <1>8 DEF Subscribe

-----------------------------------------------------------------------------
(* The steps leave a status traced.                                        *)

(* A worker's: what it says of the status is what it wrote to the cache.   *)
LEMMA TracedWorks ==
    ASSUME SubscriptionAssumption, Inv, Typed, Held, Work,
           NEW st \in Statuses, st.id[1] # 0, Apart(st), Traced(st.id[1], Key(st))
    PROVE  Traced(st.id[1], Key(st))'
<1> DEFINE d == st.id[1]
           k == Key(st)
<1>0. /\ UNCHANGED <<dist, registered, filter, queue, call, shown, refilled>>
      /\ d \in Workers /\ k \in Keys /\ DOMAIN posting = Workers
      /\ watcher \in Seq(Messages) /\ Traced(d, k)
      /\ active \in [Keys -> Levels]
  BY DEF Work, Publish, Raise, Resolve, Hold, Post, subscribers, clients, Workers, Keys,
         Typed, Holding
<1> HIDE DEF d, k
<1>1. ASSUME active'[k] = active[k]
      PROVE  \A s \in Sessions : Reaches(s, d, k) => Reaches(s, d, k)'
  BY <1>0, <1>1 DEF Reaches, Follows, InHand, At
<1>2. ~Says(NoMessage, k)
  BY DEF NoMessage, Says
<1>3. ASSUME NEW m \in Messages, ~Says(m, k), watcher' = Append(watcher, m),
             active'[k] = active[k], posting'[d] = posting[d]
      PROVE  Traced(d, k)'
  <2>1. CASE Says(posting[d], k)
    BY <1>0, <1>3, <2>1 DEF Traced
  <2>2. CASE ~Says(posting[d], k)
    <3>1. /\ EndsIn(watcher, k, active[k])
          /\ Silent(watcher, k) => \A s \in Sessions : Reaches(s, d, k)
      BY <1>0, <2>2 DEF Traced
    <3>2. EndsIn(watcher', k, active'[k]) /\ (Silent(watcher', k) => Silent(watcher, k))
      BY <1>0, <1>3, <3>1, AppendSays
    <3>3. QED
      BY <1>1, <1>3, <2>2, <3>1, <3>2 DEF Traced
  <2>3. QED
    BY <2>1, <2>2
<1>4. ASSUME NEW p \in Params, Publish(p)
      PROVE  Traced(d, k)'
  <2> DEFINE m == ValueMessage(p, value'[p])
  <2>1. watcher' = Append(watcher, m) /\ UNCHANGED <<active, posting>>
    BY <1>4 DEF Publish, Posted
  <2>2. m.what = "value"
    BY DEF ValueMessage
  <2>3. m \in Messages
    <3>1. /\ value[p] < MaxVersion /\ value' = [value EXCEPT ![p] = @ + 1]
          /\ p \in Ids /\ value[p] \in 0..MaxVersion /\ MaxVersion \in Nat
      BY <1>4, Bounds DEF Publish, Typed, Holding
    <3>2. value'[p] \in Versions
      <4>1. value'[p] = value[p] + 1
        BY <3>1 DEF Typed, Holding
      <4>2. QED
        BY <3>1, <4>1 DEF Versions
    <3>3. QED
      BY <3>1, <3>2 DEF ValueMessage, Messages
  <2> HIDE DEF m
  <2>4. QED
    BY <1>3, <2>1, <2>2, <2>3 DEF Says
<1>5. ASSUME NEW o \in Statuses, NEW type \in Severities \cup {"resolve"}, Hold(o, type),
             Says(StatusMessage(o, type), k) => Told(StatusMessage(o, type)) = active'[k],
             ~Says(StatusMessage(o, type), k) => active'[k] = active[k]
      PROVE  Traced(d, k)'
  <2> DEFINE m == StatusMessage(o, type)
  <2>1. /\ posting[o.id[1]] = NoMessage /\ posting' = [posting EXCEPT ![o.id[1]] = m]
        /\ UNCHANGED watcher
    BY <1>5 DEF Hold
  <2>2. m \in Received /\ m.id = o.id /\ o.id[1] \in Workers
    BY DEF StatusMessage, Messages, Received, Workers
  <2> HIDE DEF m
  <2>3. CASE Says(m, k)
    <3>1. m.id[1] = d
      BY <2>2, <2>3, KeysTell DEF d, k
    <3>2. posting'[d] = m
      BY <1>0, <2>1, <2>2, <3>1
    <3>3. QED
      BY <1>5, <2>3, <3>2 DEF Traced, m
  <2>4. CASE ~Says(m, k)
    <3>1. active'[k] = active[k]
      BY <1>5, <2>4 DEF m
    <3>2. CASE o.id[1] = d
      <4>1. posting[d] = NoMessage /\ posting'[d] = m
        BY <1>0, <2>1, <3>2
      <4>2. QED
        BY <1>0, <1>1, <1>2, <2>1, <2>4, <3>1, <4>1 DEF Traced
    <3>3. CASE o.id[1] # d
      <4>1. posting'[d] = posting[d]
        BY <1>0, <2>1, <3>3
      <4>2. QED
        BY <1>0, <1>1, <2>1, <3>1, <4>1 DEF Traced
    <3>4. QED
      BY <3>2, <3>3
  <2>5. QED
    BY <2>3, <2>4
<1>6. ASSUME NEW o \in Statuses, NEW v \in Severities, Raise(o, v)
      PROVE  Traced(d, k)'
  <2> DEFINE m == StatusMessage(o, v)
  <2>1. Hold(o, v) /\ active' = [active EXCEPT ![Key(o)] = v] /\ v # "resolve"
    BY <1>6, Bounds DEF Raise
  <2>2. m.what = "status" /\ m.key = Key(o) /\ m.type = v
    BY DEF StatusMessage
  <2>3. /\ Says(m, k) => k = Key(o) /\ Told(m) = v
        /\ ~Says(m, k) => k # Key(o)
    BY <2>1, <2>2 DEF Says, Told
  <2>4. /\ Says(m, k) => Told(m) = active'[k]
        /\ ~Says(m, k) => active'[k] = active[k]
    BY <1>0, <2>1, <2>3
  <2> HIDE DEF m
  <2>5. QED
    BY <1>5, <2>1, <2>4 DEF m
<1>7. ASSUME NEW o \in Statuses, Resolve(o)
      PROVE  Traced(d, k)'
  <2> DEFINE m == StatusMessage(o, "resolve")
  <2>1. /\ Hold(o, "resolve")
        /\ active' = [l \in Keys |-> IF l \in Covers(Key(o)) THEN "none" ELSE active[l]]
    BY <1>7 DEF Resolve
  <2>2. m.what = "status" /\ m.key = Key(o) /\ m.type = "resolve"
    BY DEF StatusMessage
  <2>3. Told(m) = "none" /\ (Says(m, k) <=> k \in Covers(Key(o)))
    BY <1>0, <2>2 DEF Says, Told, Covers
  <2>4. /\ Says(m, k) => Told(m) = active'[k]
        /\ ~Says(m, k) => active'[k] = active[k]
    BY <1>0, <2>1, <2>3
  <2> HIDE DEF m
  <2>5. QED
    BY <1>5, <2>1, <2>4 DEF m
<1>8. ASSUME NEW e \in Workers, Post(e)
      PROVE  Traced(d, k)'
  <2>1. /\ posting[e] # NoMessage /\ watcher' = Append(watcher, posting[e])
        /\ posting' = [posting EXCEPT ![e] = NoMessage] /\ UNCHANGED active
    BY <1>8 DEF Post, Posted
  <2>2. posting[e] \in Messages /\ posting[e] \in Received /\ posting[e].id[1] = e
    BY <2>1 DEF Typed, Holding, Held, Received
  <2>3. CASE e = d /\ Says(posting[d], k)
    <3>1. Told(posting[d]) = active[k]
      BY <1>0, <2>3 DEF Traced
    <3>2. posting'[d] = NoMessage
      BY <1>0, <2>1, <2>3
    <3>3. EndsIn(watcher', k, active'[k]) /\ ~Silent(watcher', k)
      BY <1>0, <2>1, <2>2, <2>3, <3>1, AppendSays
    <3>4. QED
      BY <1>2, <3>2, <3>3 DEF Traced
  <2>4. CASE e = d /\ ~Says(posting[d], k)
    <3>1. /\ EndsIn(watcher, k, active[k])
          /\ Silent(watcher, k) => \A s \in Sessions : Reaches(s, d, k)
      BY <1>0, <2>4 DEF Traced
    <3>2. posting'[d] = NoMessage
      BY <1>0, <2>1, <2>4
    <3>3. EndsIn(watcher', k, active'[k]) /\ (Silent(watcher', k) => Silent(watcher, k))
      BY <1>0, <2>1, <2>2, <2>4, <3>1, AppendSays
    <3>4. QED
      BY <1>1, <1>2, <2>1, <3>1, <3>2, <3>3 DEF Traced
  <2>5. CASE e # d
    <3>1. ~Says(posting[e], k)
      BY <2>2, <2>5, KeysTell DEF d, k
    <3>2. posting'[d] = posting[d]
      BY <1>0, <2>1, <2>5
    <3>3. QED
      BY <1>3, <2>1, <2>2, <3>1, <3>2
  <2>6. QED
    BY <2>3, <2>4, <2>5
<1>9. Traced(d, k)'
  BY <1>4, <1>6, <1>7, <1>8 DEF Work
<1>10. QED
  BY <1>9 DEF d, k

(* The distributor's: what it takes it gives to everybody who follows.     *)
LEMMA TracedDistributes ==
    ASSUME SubscriptionAssumption, Inv, Typed, Distribute,
           NEW st \in Statuses, st.id[1] # 0, Apart(st), Traced(st.id[1], Key(st))
    PROVE  Traced(st.id[1], Key(st))'
<1> DEFINE d == st.id[1]
           k == Key(st)
<1>0. /\ UNCHANGED <<active, posting, filter, call, shown, refilled>>
      /\ watcher \in Seq(Messages) /\ Traced(d, k)
      /\ DOMAIN queue = Sessions /\ \A s \in Sessions : queue[s] \in Seq(Received)
      /\ CallShape /\ Open
  BY DEF Distribute, TakeMessage, Offer, EndRound, Cleanup, core, subscribers, clients,
         Typed, Holding, Inv
<1> SUFFICES Traced(d, k)'
  OBVIOUS
<1> HIDE DEF d, k
<1>1. ASSUME UNCHANGED watcher, \A s \in Sessions : Reaches(s, d, k) => Reaches(s, d, k)'
      PROVE  Traced(d, k)'
  BY <1>0, <1>1 DEF Traced
<1>2. CASE TakeMessage
  <2> DEFINE m == Head(watcher)
  <2>1. /\ watcher # <<>> /\ watcher' = Tail(watcher) /\ dist.phase = "idle"
        /\ dist' = [phase |-> "loop", msg |-> m, todo |-> registered, slow |-> {}]
        /\ UNCHANGED <<registered, queue>>
    BY <1>2 DEF TakeMessage, subscribers
  <2> HIDE DEF m
  <2>2. CASE Says(posting[d], k)
    BY <1>0, <2>2 DEF Traced
  <2>3. CASE ~Says(posting[d], k)
    <3>1. /\ EndsIn(watcher, k, active[k])
          /\ Silent(watcher, k) => \A s \in Sessions : Reaches(s, d, k)
      BY <1>0, <2>3 DEF Traced
    <3>2. /\ EndsIn(watcher', k, active[k])
          /\ ~Says(m, k) => (Silent(watcher', k) <=> Silent(watcher, k))
          /\ Says(m, k) => (Silent(watcher', k) => Told(m) = active[k])
      BY <1>0, <2>1, <3>1, TailSays DEF m
    <3>3. ASSUME Silent(watcher', k), NEW s \in Sessions
          PROVE  Reaches(s, d, k)'
      <4>1. CASE Says(m, k)
        BY <1>0, <2>1, <3>2, <3>3, <4>1 DEF Reaches, Follows, InHand
      <4>2. CASE ~Says(m, k)
        <5>1. Reaches(s, d, k) /\ ~InHand(s, k) /\ ~InHand(s, k)' /\ dist.slow = {}
          BY <1>0, <2>1, <3>1, <3>2, <3>3, <4>2 DEF InHand, Open
        <5>2. QED
          BY <1>0, <2>1, <5>1 DEF Reaches, Follows, At
      <4>3. QED
        BY <4>1, <4>2
    <3>4. QED
      BY <1>0, <2>3, <3>2, <3>3 DEF Traced
  <2>4. QED
    BY <2>2, <2>3
<1>3. CASE Offer
  <2> DEFINE m == dist.msg
  <2>1. PICK s \in dist.todo : Skip(s) \/ Put(s) \/ TimeOut(s)
    BY <1>3 DEF Offer
  <2>2. /\ dist.phase = "loop" /\ s \in Sessions /\ ~closed[s]
        /\ m \in Messages /\ m \in Received /\ UNCHANGED <<watcher, registered>>
    BY <1>0, <1>3, <2>1 DEF Offer, Open, Typed, Holding, Received
  <2>3. /\ dist'.phase = "loop" /\ dist'.msg = m /\ dist'.todo = dist.todo \ {s}
        /\ \/ dist'.slow = dist.slow
           \/ dist'.slow = dist.slow \cup TooSlow(s)
    BY <1>0, <2>1, <2>2 DEF CallShape, Skip, Put, TimeOut
  <2>4. TooSlow(s) \subseteq {s}
    BY DEF TooSlow
  <2>5. \A r \in Sessions \ {s} : queue'[r] = queue[r]
    BY <1>0, <2>1 DEF Skip, Put, TimeOut
  <2>6. ASSUME NEW r \in Sessions \ {s}, Reaches(r, d, k)
        PROVE  Reaches(r, d, k)'
    <3>1. InHand(r, k)' <=> InHand(r, k)
      BY <2>2, <2>3 DEF InHand
    <3>2. Follows(r, d)' => Follows(r, d)
      BY <1>0, <2>2, <2>3, <2>4 DEF Follows
    <3>3. QED
      BY <1>0, <2>3, <2>5, <2>6, <3>1, <3>2 DEF Reaches, At
  <2>7. ASSUME Reaches(s, d, k)
        PROVE  Reaches(s, d, k)'
    <3>1. ~InHand(s, k)'
      BY <2>3 DEF InHand
    <3>2. Follows(s, d)' => Follows(s, d)
      BY <1>0, <2>2, <2>3 DEF Follows
    <3>3. CASE ~Says(m, k)
      <4>1. SUFFICES ASSUME Follows(s, d)' PROVE Reaches(s, d, k)'
        BY DEF Reaches
      <4>2. /\ EndsIn(queue[s], k, active[k])
            /\ Silent(queue[s], k) /\ At(s, "stream") => shown[s][k] = active[k]
        BY <2>7, <3>2, <3>3, <4>1 DEF Reaches, InHand
      <4>3. queue'[s] = queue[s] \/ queue'[s] = Append(queue[s], m)
        BY <1>0, <2>1, <2>2 DEF Skip, Put, TimeOut
      <4>4. /\ EndsIn(Append(queue[s], m), k, active[k])
            /\ Silent(Append(queue[s], m), k) => Silent(queue[s], k)
        BY <1>0, <2>2, <3>3, <4>2, AppendSays
      <4>5. QED
        BY <1>0, <3>1, <4>2, <4>3, <4>4 DEF Reaches, At
    <3>4. CASE Says(m, k)
      <4>1. SUFFICES ASSUME Follows(s, d)' PROVE Reaches(s, d, k)'
        BY DEF Reaches
      <4>2. Wants(filter[s], m) /\ ~Global(m)
        BY <2>2, <3>2, <3>4, <4>1, SaidIsWanted DEF d, k
      <4>3. ~TimeOut(s)
        <5>1. ASSUME TimeOut(s) PROVE FALSE
          <6>1. dist'.slow = dist.slow \cup TooSlow(s)
            BY <1>0, <5>1 DEF TimeOut, CallShape
          <6>2. s \in dist'.slow
            BY <4>2, <6>1 DEF TooSlow
          <6>3. QED
            BY <4>1, <6>2 DEF Follows
        <5>2. QED
          BY <5>1
      <4>4. queue'[s] = Append(queue[s], m)
        BY <1>0, <2>1, <2>2, <4>2, <4>3 DEF Skip, Put
      <4>5. Told(m) = active[k]
        BY <2>1, <2>2, <2>7, <3>2, <3>4, <4>1 DEF Reaches, InHand
      <4>6. EndsIn(queue'[s], k, active[k]) /\ ~Silent(queue'[s], k)
        BY <1>0, <2>2, <3>4, <4>4, <4>5, AppendSays
      <4>7. QED
        BY <1>0, <3>1, <4>6 DEF Reaches
    <3>5. QED
      BY <3>3, <3>4
  <2>8. QED
    BY <1>1, <2>2, <2>6, <2>7
<1>4. CASE EndRound \/ Cleanup
  <2>1. /\ UNCHANGED <<watcher, queue>>
        /\ registered' \ dist'.slow \subseteq registered \ dist.slow
    BY <1>0, <1>4 DEF EndRound, Cleanup, Cleaned, Resting, subscribers, CallShape
  <2>2. dist'.phase # "loop" /\ (dist.phase = "loop" => dist.todo = {})
    <3>1. CASE EndRound
      BY <3>1 DEF EndRound, Resting
    <3>2. CASE Cleanup
      BY <3>2 DEF Cleanup, Resting
    <3>3. QED
      BY <1>4, <3>1, <3>2
  <2>3. ASSUME NEW s \in Sessions, Reaches(s, d, k)
        PROVE  Reaches(s, d, k)'
    <3>1. ~InHand(s, k) /\ ~InHand(s, k)'
      BY <2>2 DEF InHand
    <3>2. Follows(s, d)' => Follows(s, d)
      BY <1>0, <2>1 DEF Follows
    <3>3. QED
      BY <1>0, <2>1, <2>3, <3>1, <3>2 DEF Reaches, At
  <2>4. QED
    BY <1>1, <2>1, <2>3
<1>5. QED
  BY <1>2, <1>3, <1>4 DEF Distribute

(* A client's, which reads what the channel says.                          *)
LEMMA ShownIsTold ==
    ASSUME NEW shows \in [Keys -> Levels], NEW m, m.what = "status", NEW k \in Keys
    PROVE  /\ Says(m, k) => ShowStatus(shows, m)[k] = Told(m)
           /\ ~Says(m, k) => ShowStatus(shows, m)[k] = shows[k]
<1>1. CASE m.type = "resolve"
  BY <1>1 DEF Says, Told, ShowStatus
<1>2. CASE m.type # "resolve"
  BY <1>2 DEF Says, Told, ShowStatus
<1>3. QED
  BY <1>1, <1>2

(* Reading moves a message from the channel to what is shown.              *)
LEMMA ReachesReceives ==
    ASSUME SubscriptionAssumption, Inv, Typed, NEW r \in Sessions, Receive(r),
           NEW d, NEW k \in Keys, NEW s \in Sessions, Reaches(s, d, k)
    PROVE  Reaches(s, d, k)'
<1> DEFINE m == Head(queue[r])
<1>0. /\ UNCHANGED <<active, dist, registered, filter, call, refilled>>
      /\ At(r, "stream") /\ queue[r] # <<>> /\ queue' = [queue EXCEPT ![r] = Tail(@)]
      /\ DOMAIN queue = Sessions /\ queue[r] \in Seq(Received)
      /\ shown \in [Sessions -> [Keys -> Levels]]
  BY DEF Receive, core, Typed, Holding, Showing
<1>1. /\ m.what = "status" => shown' = [shown EXCEPT ![r] = ShowStatus(shown[r], m)]
      /\ m.what # "status" => shown' = shown
  <2>1. CASE m.what = "status"
    BY <2>1 DEF Receive
  <2>2. CASE m.what # "status"
    BY <2>2 DEF Receive
  <2>3. QED
    BY <2>1, <2>2
<1> HIDE DEF m
<1>2. (InHand(s, k)' <=> InHand(s, k)) /\ (Follows(s, d)' <=> Follows(s, d))
  BY <1>0 DEF InHand, Follows
<1>3. CASE s # r
  BY <1>0, <1>1, <1>2, <1>3 DEF Reaches, At
<1>4. CASE s = r
  <2>1. SUFFICES ASSUME Follows(s, d), ~InHand(s, k)
                 PROVE  /\ EndsIn(queue'[s], k, active[k])
                        /\ Silent(queue'[s], k) => shown'[s][k] = active[k]
    BY <1>0, <1>2 DEF Reaches
  <2>2. /\ EndsIn(queue[s], k, active[k])
        /\ Silent(queue[s], k) => shown[s][k] = active[k]
    BY <1>0, <1>4, <2>1 DEF Reaches
  <2>3. queue'[s] = Tail(queue[s])
    BY <1>0, <1>4
  <2>4. /\ EndsIn(queue'[s], k, active[k])
        /\ ~Says(m, k) => (Silent(queue'[s], k) <=> Silent(queue[s], k))
        /\ Says(m, k) => (Silent(queue'[s], k) => Told(m) = active[k])
    BY <1>0, <1>4, <2>2, <2>3, TailSays DEF m
  <2>5. /\ Says(m, k) => shown'[s][k] = Told(m)
        /\ ~Says(m, k) => shown'[s][k] = shown[s][k]
    <3>1. CASE m.what = "status"
      <4>1. shown'[s] = ShowStatus(shown[s], m) /\ shown[s] \in [Keys -> Levels]
        BY <1>0, <1>1, <1>4, <3>1
      <4>2. QED
        BY <3>1, <4>1, ShownIsTold
    <3>2. CASE m.what # "status"
      BY <1>1, <3>2 DEF Says
    <3>3. QED
      BY <3>1, <3>2
  <2>6. QED
    BY <2>2, <2>4, <2>5
<1>5. QED
  BY <1>3, <1>4

(* A step of a call that moves nothing on the way.                         *)
LEMMA ReachesStays ==
    ASSUME UNCHANGED <<active, dist, queue, shown>>, NEW d, NEW k, NEW s,
           Follows(s, d)' => Follows(s, d), At(s, "stream")' => At(s, "stream"),
           Reaches(s, d, k)
    PROVE  Reaches(s, d, k)'
<1>1. InHand(s, k)' <=> InHand(s, k)
  BY DEF InHand
<1>2. QED
  BY <1>1 DEF Reaches

(* The other steps of the calls.                                           *)
LEMMA ReachesCalls ==
    ASSUME SubscriptionAssumption, Inv, Typed, Still,
           NEW r \in Sessions, Ask(r) \/ Subscribe(r) \/ Disconnect(r),
           NEW d, NEW k \in Keys, NEW s \in Sessions, Reaches(s, d, k)
    PROVE  Reaches(s, d, k)'
<1>0. /\ CallShape /\ Open /\ DOMAIN queue = Sessions /\ DOMAIN filter = Sessions
      /\ shown \in [Sessions -> [Keys -> Levels]]
  BY DEF Inv, DataShape, Typed, Showing
<1>1. ASSUME UNCHANGED <<active, dist, queue, shown>>, Follows(s, d)' => Follows(s, d),
             NEW place, place # "stream", NEW f, NEW w, NEW t, Becomes(r, place, f, w, t)
      PROVE  Reaches(s, d, k)'
  <2>1. At(s, "stream")' => At(s, "stream")
    BY <1>1 DEF At, Becomes
  <2>2. QED
    BY <1>1, <2>1, ReachesStays
<1>2. CASE Ask(r)
  <2>1. PICK f \in Filters, h \in Headers : Call(r, f, h)
    BY <1>2 DEF Ask
  <2>2. Becomes(r, "lookup", f, call[r].answer, call[r].target)
    BY <1>0, <2>1, CallMoves
  <2>3. UNCHANGED <<active, dist, queue, shown>> /\ (Follows(s, d)' => Follows(s, d))
    BY <2>1 DEF Call, core, subscribers, clients, Follows
  <2>4. QED
    BY <1>1, <2>2, <2>3
<1>3. CASE NewStream(r)
  <2>1. UNCHANGED <<active, dist, queue, shown>> /\ (Follows(s, d)' => Follows(s, d))
    BY <1>3 DEF NewStream, core, clients, Follows
  <2>2. Becomes(r, IF Malformed(call[r].filter) THEN "ended" ELSE "get",
                call[r].filter, call[r].answer, {})
    BY <1>0, <1>3, GetMoves DEF NewStream
  <2>3. QED
    BY <1>1, <2>1, <2>2
<1>4. CASE \E t \in registered : Resubscribe(r, t)
  <2>1. PICK t \in registered : Resubscribe(r, t)
    BY <1>4
  <2>2. /\ UNCHANGED <<active, dist, queue, shown, registered>>
        /\ filter' = [filter EXCEPT ![t] = call[r].filter] /\ refilled' = refilled \cup {t}
    BY <2>1 DEF Resubscribe, core
  <2>3. Follows(s, d)' => Follows(s, d)
    BY <1>0, <2>2 DEF Follows
  <2>4. Goto(r, "ended") \/ Get(r, Added(call[r].filter, filter[t]), {t})
    BY <2>1 DEF Resubscribe
  <2>5. CASE Goto(r, "ended")
    <3>1. Becomes(r, "ended", call[r].filter, call[r].answer, call[r].target)
      BY <1>0, <2>5, GotoMoves
    <3>2. QED
      BY <1>1, <2>2, <2>3, <3>1
  <2>6. CASE Get(r, Added(call[r].filter, filter[t]), {t})
    <3> DEFINE f == Added(call[r].filter, filter[t])
    <3>1. Becomes(r, IF Malformed(f) THEN "ended" ELSE "get", call[r].filter, call[r].answer, {t})
      BY <1>0, <2>6, GetMoves
    <3> HIDE DEF f
    <3>2. QED
      BY <1>1, <2>2, <2>3, <3>1
  <2>7. QED
    BY <2>4, <2>5, <2>6
<1>5. CASE ReadUnit(r)
  <2>1. UNCHANGED <<active, dist, queue, shown>> /\ (Follows(s, d)' => Follows(s, d))
    BY <1>5 DEF ReadUnit, core, subscribers, clients, Follows
  <2>2. \E place, f, w, t : Becomes(r, place, f, w, t) /\ place \in {"register", "forward", "get"}
    BY <1>0, <1>5, ReadMoves
  <2>3. QED
    BY <1>1, <2>1, <2>2
<1>6. CASE ForwardDone(r) \/ EndOfStream(r) \/ Unregister(r) \/ Close(r) \/ Disconnect(r)
  <2>1. PICK place \in {"ended", "unregister", "close"} : Goto(r, place)
    BY <1>6 DEF ForwardDone, EndOfStream, Unregister, Close, Disconnect
  <2>2. /\ UNCHANGED <<active, dist, queue, shown, filter, refilled>>
        /\ registered' \subseteq registered
    BY <1>6 DEF ForwardDone, EndOfStream, Unregister, Close, Disconnect, core, subscribers, clients
  <2>3. Follows(s, d)' => Follows(s, d)
    BY <2>2 DEF Follows
  <2>4. Becomes(r, place, call[r].filter, call[r].answer, call[r].target)
    BY <1>0, <2>1, GotoMoves
  <2>5. QED
    BY <1>1, <2>1, <2>2, <2>3, <2>4
<1>7. CASE Register(r)
  <2>1. /\ UNCHANGED <<active, dist, queue, shown, refilled>> /\ dist.phase # "loop"
        /\ call[r].at = "register" /\ Goto(r, "replay")
        /\ registered' = registered \cup {r}
        /\ filter' = [filter EXCEPT ![r] = call[r].filter]
    BY <1>7 DEF Register, core, At, WriteLock
  <2>2. Becomes(r, "replay", call[r].filter, call[r].answer, call[r].target)
    BY <1>0, <2>1, GotoMoves
  <2>3. CASE s # r
    <3>1. Follows(s, d)' => Follows(s, d)
      BY <1>0, <2>1, <2>3 DEF Follows
    <3>2. QED
      BY <1>1, <2>1, <2>2, <3>1
  <2>4. CASE s = r
    <3>1. SUFFICES ASSUME s \notin refilled PROVE Reaches(s, d, k)'
      BY <2>1 DEF Reaches, Follows
    <3>2. queue'[s] = <<>>
      BY <2>1, <2>4, <3>1 DEF Still, Early
    <3>3. ~InHand(s, k)' /\ ~At(s, "stream")'
      BY <2>1, <2>2, <2>4 DEF InHand, At, Becomes
    <3>4. EndsIn(<<>>, k, active'[k])
      BY EmptySays
    <3>5. QED
      BY <3>2, <3>3, <3>4 DEF Reaches
  <2>5. QED
    BY <2>3, <2>4
<1>8. CASE Replay(r)
  <2>1. /\ UNCHANGED <<active, dist, queue, registered, filter, refilled>>
        /\ shown' = [shown EXCEPT ![r] = active]
        /\ call' = [call EXCEPT ![r].at = "stream", ![r].answer = {}]
    BY <1>8 DEF Replay, core, subscribers, ActiveStatuses
  <2>2. Becomes(r, "stream", call[r].filter, {}, call[r].target)
    BY <1>0, <2>1, AnswerMoves
  <2>3. (InHand(s, k)' <=> InHand(s, k)) /\ (Follows(s, d)' <=> Follows(s, d))
    BY <2>1 DEF InHand, Follows
  <2>4. s # r => shown'[s] = shown[s] /\ (At(s, "stream")' <=> At(s, "stream"))
    BY <1>0, <2>1, <2>2 DEF At, Becomes
  <2>5. s = r => shown'[s][k] = active[k]
    BY <1>0, <2>1
  <2>6. QED
    BY <2>1, <2>3, <2>4, <2>5 DEF Reaches
<1>9. CASE Receive(r)
  BY <1>9, ReachesReceives
<1>10. CASE Forward(r)
  <2>1. /\ UNCHANGED <<active, dist, registered, filter, shown, refilled>>
        /\ call[r].target \subseteq refilled
    BY <1>10 DEF Forward, core, clients, At, Inv, AllAnswered, Answered
  <2>2. CASE UNCHANGED <<queue, call>>
    <3>1. Follows(s, d)' => Follows(s, d)
      BY <2>1 DEF Follows
    <3>2. At(s, "stream")' => At(s, "stream")
      BY <2>2 DEF At
    <3>3. QED
      BY <2>1, <2>2, <3>1, <3>2, ReachesStays
  <2>3. CASE ~UNCHANGED <<queue, call>>
    <3>1. PICK a \in call[r].answer, t \in call[r].target :
              /\ \E m : queue' = [queue EXCEPT ![t] = Append(@, m)]
              /\ call' = [call EXCEPT ![r].answer = @ \ {a}]
      BY <1>10, <2>3, Forwards
    <3>2. Becomes(r, call[r].at, call[r].filter, call[r].answer \ {a}, call[r].target)
      BY <1>0, <3>1, ForwardMoves
    <3>3. At(s, "stream")' <=> At(s, "stream")
      BY <3>2 DEF Becomes, At
    <3>4. (InHand(s, k)' <=> InHand(s, k)) /\ (Follows(s, d)' <=> Follows(s, d))
      BY <2>1 DEF InHand, Follows
    <3>5. s \notin refilled => queue'[s] = queue[s]
      BY <1>0, <2>1, <3>1
    <3>6. QED
      BY <2>1, <3>3, <3>4, <3>5 DEF Reaches, Follows
  <2>4. QED
    BY <2>2, <2>3
<1>11. QED
  BY <1>2, <1>3, <1>4, <1>5, <1>6, <1>7, <1>8, <1>9, <1>10 DEF Subscribe

(* All statuses stay traced.                                               *)
LEMMA TracedStep ==
    ASSUME SubscriptionAssumption, Inv, Typed, AllTraced, [Next]_vars
    PROVE  AllTraced'
<1>1. CASE UNCHANGED vars
  BY <1>1 DEF vars, core, subscribers, clients, AllTraced, Held, Still, Apart, Traced,
              Reaches, Follows, InHand, At
<1>2. CASE Work
  <2>1. UNCHANGED <<call, queue, refilled>>
    BY <1>2 DEF Work, Publish, Raise, Resolve, Hold, Post, subscribers, clients
  <2>2. Still'
    BY <2>1 DEF AllTraced, Still
  <2>3. QED
    BY <1>2, <2>2, HeldWorks, TracedWorks DEF AllTraced, Apart
<1>3. CASE Distribute
  <2>1. Held'
    BY <1>3 DEF Distribute, TakeMessage, Offer, EndRound, Cleanup, core, AllTraced, Held
  <2>2. QED
    BY <1>3, <2>1, StillDistributes, TracedDistributes DEF AllTraced, Apart
<1>4. ASSUME NEW r \in Sessions, Ask(r) \/ Subscribe(r) \/ Disconnect(r)
      PROVE  AllTraced'
  <2>1. UNCHANGED <<active, posting, watcher>>
    BY <1>4 DEF Ask, Call, Subscribe, NewStream, Resubscribe, ReadUnit, Forward, ForwardDone,
                Register, Replay, Receive, EndOfStream, Unregister, Close, Disconnect, core
  <2>2. Held'
    BY <2>1 DEF AllTraced, Held
  <2>3. ASSUME NEW st \in Statuses, st.id[1] # 0, Apart(st)
        PROVE  Traced(st.id[1], Key(st))'
    <3> DEFINE d == st.id[1]
               k == Key(st)
    <3> SUFFICES Traced(d, k)'
      OBVIOUS
    <3>1. k \in Keys /\ Traced(d, k)
      BY <2>3 DEF AllTraced, Keys
    <3> HIDE DEF d, k
    <3>2. \A s \in Sessions : Reaches(s, d, k) => Reaches(s, d, k)'
      BY <1>4, <3>1, ReachesCalls DEF AllTraced
    <3>3. QED
      BY <2>1, <3>1, <3>2 DEF Traced
  <2>4. QED
    BY <1>4, <2>2, <2>3, StillCalls DEF AllTraced, Apart
<1>5. QED
  BY <1>1, <1>2, <1>3, <1>4 DEF Next

(* At the start nothing is said and nobody listens.                        *)
LEMMA TracedInit ==
    ASSUME SubscriptionAssumption, Init
    PROVE  AllTraced
<1>1. /\ posting = [d \in Workers |-> NoMessage] /\ watcher = <<>> /\ registered = {}
      /\ queue = [s \in Sessions |-> <<>>]
  BY DEF Init
<1>2. \A k : ~Says(NoMessage, k)
  BY DEF NoMessage, Says
<1>3. ASSUME NEW st \in Statuses
      PROVE  Traced(st.id[1], Key(st))
  <2>1. posting[st.id[1]] = NoMessage
    BY <1>1 DEF Workers
  <2>2. EndsIn(watcher, Key(st), active[Key(st)])
    BY <1>1, EmptySays
  <2>3. \A s \in Sessions : Reaches(s, st.id[1], Key(st))
    BY <1>1 DEF Reaches, Follows
  <2>4. QED
    BY <1>2, <2>1, <2>2, <2>3 DEF Traced
<1>4. QED
  BY <1>1, <1>3 DEF AllTraced, Held, Still

(* When nothing is on its way, a client shows of every device it           *)
(* subscribed to the statuses that are active: the replay of the cache and *)
(* the messages before and after it add up, in whatever order the worker,  *)
(* the distributor and the call run, and nobody who missed one stays.      *)
THEOREM StatusesAgreeHolds ==
    ASSUME SubscriptionAssumption
    PROVE  Spec => []StatusesAgree
<1>1. Init => AllTraced
  BY SubscriptionAssumption, TracedInit
<1>2. Inv /\ Typed /\ AllTraced /\ [Next]_vars => AllTraced'
  BY SubscriptionAssumption, TracedStep
<1>3. Inv /\ AllTraced => StatusesAgree
  <2>1. SUFFICES ASSUME Inv, AllTraced, NEW s \in Sessions \ refilled, NEW st \in Statuses,
                        Quiet(s), st.id[1] # 0, Apart(st),
                        NamesDevice(filter[s]) => filter[s][1][1] = st.id[1]
                 PROVE  shown[s][Key(st)] = active[Key(st)]
    BY DEF StatusesAgree
  <2> DEFINE d == st.id[1]
             k == Key(st)
  <2>2. /\ Traced(d, k) /\ posting[d] = NoMessage /\ watcher = <<>> /\ dist.phase = "idle"
        /\ s \in registered /\ At(s, "stream") /\ queue[s] = <<>>
    BY <2>1 DEF AllTraced, Quiet, Workers
  <2>3. Follows(s, d)
    BY <2>1, <2>2 DEF Follows, Inv, Open
  <2>4. ~InHand(s, k)
    BY <2>2 DEF InHand
  <2> HIDE DEF d, k
  <2>5. ~Says(NoMessage, k) /\ Silent(<<>>, k)
    BY EmptySays DEF NoMessage, Says
  <2>6. Reaches(s, d, k)
    BY <2>2, <2>5 DEF Traced
  <2>7. shown[s][k] = active[k]
    BY <2>2, <2>3, <2>4, <2>5, <2>6 DEF Reaches
  <2>8. QED
    BY <2>7 DEF k
<1>4. Init => Typed
  BY SubscriptionAssumption, TypedInit
<1>5. CallShape /\ Typed /\ [Next]_vars => Typed'
  BY SubscriptionAssumption, TypedStep
<1>6. Spec => []Inv
  BY SubscriptionAssumption, InvHolds
<1>7. Inv => CallShape
  BY DEF Inv
<1>8. QED
  BY <1>1, <1>2, <1>3, <1>4, <1>5, <1>6, <1>7, PTL DEF Spec
=============================================================================
