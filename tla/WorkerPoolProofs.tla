-------------------------- MODULE WorkerPoolProofs --------------------------
(***************************************************************************)
(* Proofs about WorkerPool, for every number of devices and workers, every *)
(* capacity and every sequence of sends: its channels keep their bounds,   *)
(* and it implements DeviceOrder.                                          *)
(*                                                                         *)
(* The invariant, InOrder, follows the messages of one device and kind     *)
(* through the source channel, the dispatcher's hand and the queue of the  *)
(* device's worker: those accepted and not yet begun are there, each in    *)
(* one of the three places, older ones further on.                         *)
(***************************************************************************)
EXTENDS WorkerPool, SequenceTheorems, TLAPS

-----------------------------------------------------------------------------
(* Sequences of messages.                                                   *)
In(m, q) == \E i \in 1..Len(q) : q[i] = m
Older(m, n) == m.device = n.device => m.number < n.number
Sorted(q) == \A i, j \in 1..Len(q) : i < j => Older(q[i], q[j])
Before(q, r) == \A m, n \in Numbered : In(m, q) /\ In(n, r) => Older(m, n)

LEMMA EmptyIn ==
    ASSUME NEW m
    PROVE  ~In(m, <<>>) /\ Sorted(<<>>)
  BY DEF In, Sorted

LEMMA SingleIn ==
    ASSUME NEW m, NEW n
    PROVE  In(m, <<n>>) <=> m = n
  BY DEF In

(* What a channel holds after a send.                                       *)
LEMMA SentIn ==
    ASSUME NEW q \in Seq(Numbered), NEW m \in Numbered
    PROVE  \A n : In(n, Append(q, m)) <=> In(n, q) \/ n = m
<1>1. Len(Append(q, m)) = Len(q) + 1 /\ Len(q) \in Nat
  BY AppendProperties, LenProperties
<1>2. \A i \in 1..Len(q) : Append(q, m)[i] = q[i]
  BY AppendProperties
<1>3. Append(q, m)[Len(q) + 1] = m
  BY AppendProperties
<1>4. QED
  BY <1>1, <1>2, <1>3 DEF In

LEMMA SentSorted ==
    ASSUME NEW q \in Seq(Numbered), NEW m \in Numbered, Sorted(q),
           \A n \in Numbered : In(n, q) => Older(n, m)
    PROVE  Sorted(Append(q, m))
<1>1. Len(Append(q, m)) = Len(q) + 1 /\ Len(q) \in Nat
  BY AppendProperties, LenProperties
<1>2. \A i \in 1..Len(q) : Append(q, m)[i] = q[i]
  BY AppendProperties
<1>3. Append(q, m)[Len(q) + 1] = m
  BY AppendProperties
<1>4. \A i \in 1..Len(q) : q[i] \in Numbered /\ In(q[i], q)
  BY ElementOfSeq DEF In
<1>5. QED
  BY <1>1, <1>2, <1>3, <1>4 DEF Sorted

(* What is received, and what a channel holds after it.                     *)
LEMMA ReceivedIn ==
    ASSUME NEW q \in Seq(Numbered), q # <<>>
    PROVE  /\ Head(q) \in Numbered /\ Tail(q) \in Seq(Numbered) /\ Len(Tail(q)) = Len(q) - 1
           /\ \A n : In(n, q) <=> n = Head(q) \/ In(n, Tail(q))
<1>1. /\ Head(q) \in Numbered /\ Tail(q) \in Seq(Numbered)
      /\ Len(Tail(q)) = Len(q) - 1 /\ Len(q) \in Nat \ {0}
      /\ Head(q) = q[1] /\ \A i \in 1..Len(Tail(q)) : Tail(q)[i] = q[i + 1]
  BY HeadTailProperties, EmptySeq, LenProperties
<1>2. ASSUME NEW n, In(n, q)
      PROVE  n = Head(q) \/ In(n, Tail(q))
  <2>1. PICK i \in 1..Len(q) : q[i] = n
    BY <1>2 DEF In
  <2>2. CASE i = 1
    BY <1>1, <2>1, <2>2
  <2>3. CASE i # 1
    <3>1. i - 1 \in 1..Len(Tail(q)) /\ Tail(q)[i - 1] = q[(i - 1) + 1]
      BY <1>1, <2>3
    <3>2. QED
      BY <2>1, <3>1 DEF In
  <2>4. QED
    BY <2>2, <2>3
<1>3. ASSUME NEW n, n = Head(q) \/ In(n, Tail(q))
      PROVE  In(n, q)
  <2>1. CASE n = Head(q)
    BY <1>1, <2>1 DEF In
  <2>2. CASE In(n, Tail(q))
    <3>1. PICK i \in 1..Len(Tail(q)) : Tail(q)[i] = n
      BY <2>2 DEF In
    <3>2. i + 1 \in 1..Len(q) /\ q[i + 1] = n
      BY <1>1, <3>1
    <3>3. QED
      BY <3>2 DEF In
  <2>3. QED
    BY <1>3, <2>1, <2>2
<1>4. QED
  BY <1>1, <1>2, <1>3

LEMMA ReceivedSorted ==
    ASSUME NEW q \in Seq(Numbered), q # <<>>, Sorted(q)
    PROVE  Sorted(Tail(q)) /\ \A n : In(n, Tail(q)) => Older(Head(q), n)
<1>1. /\ Len(Tail(q)) = Len(q) - 1 /\ Len(q) \in Nat \ {0}
      /\ Head(q) = q[1] /\ \A i \in 1..Len(Tail(q)) : Tail(q)[i] = q[i + 1]
  BY HeadTailProperties, EmptySeq, LenProperties
<1>2. \A i \in 1..Len(Tail(q)) : i + 1 \in 1..Len(q) /\ 1 < i + 1 /\ 1 \in 1..Len(q)
  BY <1>1
<1>3. \A n : In(n, Tail(q)) => Older(Head(q), n)
  BY <1>1, <1>2 DEF In, Sorted
<1>4. Sorted(Tail(q))
  <2> SUFFICES ASSUME NEW i \in 1..Len(Tail(q)), NEW j \in 1..Len(Tail(q)), i < j
               PROVE  Older(Tail(q)[i], Tail(q)[j])
    BY DEF Sorted
  <2>1. i + 1 < j + 1 /\ i + 1 \in 1..Len(q) /\ j + 1 \in 1..Len(q)
    BY <1>2
  <2>2. Older(q[i + 1], q[j + 1])
    BY <2>1 DEF Sorted
  <2>3. QED
    BY <1>1, <2>2
<1>5. QED
  BY <1>3, <1>4

(* Every device has a worker.                                               *)
LEMMA WorkerForType ==
    ASSUME NEW m \in Numbered
    PROVE  WorkerFor(m) \in Workers
<1>1. ASSUME NEW a \in Nat, NEW b \in Nat \ {0}
      PROVE  a % b \in 0..(b - 1)
  BY <1>1
<1>2. m.device \in Nat /\ NumWorkers \in Nat \ {0}
  BY PoolAssumption DEF Numbered
<1>3. m.device % NumWorkers \in 0..(NumWorkers - 1)
  BY <1>1, <1>2
<1>4. QED
  BY <1>3 DEF WorkerFor, Workers

-----------------------------------------------------------------------------
(* The types.                                                               *)

LEMMA EnterTypes ==
    ASSUME TypeOK, NEW d \in Devices, NEW k \in Kinds, Enter(d, k)
    PROVE  /\ source' \in [Kinds -> Seq(Numbered)]
           /\ \A l \in Kinds : Len(source'[l]) <= SourceCap
           /\ accepted' \in [Devices -> [Kinds -> Nat]] /\ quota' \in [Kinds -> Nat]
<1> DEFINE m == Message(d, accepted[d][k] + 1)
<1>1. m \in Numbered
  BY DEF Message, Numbered, TypeOK
<1>2. source' = [source EXCEPT ![k] = Append(@, m)] /\ Len(source[k]) < SourceCap
  BY DEF Enter
<1>3. source[k] \in Seq(Numbered) /\ Len(source[k]) \in Nat /\ SourceCap \in Nat
  BY LenProperties, PoolAssumption DEF TypeOK
<1> HIDE DEF m
<1>4. Append(source[k], m) \in Seq(Numbered) /\ Len(Append(source[k], m)) = Len(source[k]) + 1
  BY <1>1, <1>3, AppendProperties
<1>5. source' \in [Kinds -> Seq(Numbered)] /\ \A l \in Kinds : Len(source'[l]) <= SourceCap
  BY <1>2, <1>3, <1>4 DEF TypeOK
<1>6. accepted' \in [Devices -> [Kinds -> Nat]] /\ quota' \in [Kinds -> Nat]
  BY DEF Enter, TypeOK
<1>7. QED
  BY <1>5, <1>6

LEMMA TypesInit == Init => TypeOK
<1> SUFFICES ASSUME Init PROVE TypeOK
  OBVIOUS
<1>1. <<>> \in Seq(Numbered) /\ <<>> \in Seq(Places) /\ Len(<<>>) = 0
  BY EmptySeq
<1>2. QED
  BY <1>1, PoolAssumption DEF Init, TypeOK

LEMMA TypesStep ==
    ASSUME TypeOK, [Next]_vars
    PROVE  TypeOK'
<1> USE DEF channels, workers, toCore, counts
<1>1. ASSUME NEW d \in Devices, ClientSets(d) \/ TimerPosts(d)
      PROVE  TypeOK'
  BY <1>1, EnterTypes DEF ClientSets, TimerPosts, TypeOK, Kinds
<1>2. ASSUME NEW d \in Devices, CoreBegins(d)
      PROVE  TypeOK'
  BY <1>2 DEF CoreBegins, TypeOK
<1>3. CASE CoreReads
  BY <1>3, PoolAssumption DEF CoreReads, TypeOK
<1>4. CASE CoreReports
  BY <1>4, EnterTypes DEF CoreReports, TypeOK, Kinds
<1>5. ASSUME NEW k \in Kinds, DispatcherReads(k)
      PROVE  TypeOK'
  <2>1. source[k] \in Seq(Numbered) /\ source[k] # <<>> /\ Len(source[k]) \in Nat
    BY <1>5, LenProperties DEF TypeOK, DispatcherReads
  <2>2. /\ Head(source[k]) \in Numbered /\ Tail(source[k]) \in Seq(Numbered)
        /\ Len(Tail(source[k])) = Len(source[k]) - 1
    BY <2>1, ReceivedIn
  <2>3. <<Head(source[k])>> \in Seq(Numbered) /\ Len(<<Head(source[k])>>) = 1
    BY <2>2
  <2>4. /\ source' = [source EXCEPT ![k] = Tail(source[k])]
        /\ hand' = [hand EXCEPT ![k] = <<Head(source[k])>>]
    BY <1>5 DEF DispatcherReads
  <2>5. /\ source' \in [Kinds -> Seq(Numbered)] /\ \A l \in Kinds : Len(source'[l]) <= SourceCap
        /\ hand' \in [Kinds -> Seq(Numbered)] /\ \A l \in Kinds : Len(hand'[l]) <= 1
    BY <2>1, <2>2, <2>3, <2>4, PoolAssumption DEF TypeOK
  <2>6. QED
    BY <1>5, <2>5 DEF DispatcherReads, TypeOK
<1>6. ASSUME NEW k \in Kinds, HandOver(k)
      PROVE  TypeOK'
  <2> DEFINE m == hand[k][1]
             w == WorkerFor(m)
  <2>1. m \in Numbered /\ w \in Workers
    <3>1. hand[k] \in Seq(Numbered) /\ hand[k] # <<>>
      BY <1>6 DEF HandOver, TypeOK
    <3>2. hand[k][1] \in Numbered
      BY <3>1, HeadTailProperties
    <3>3. QED
      BY <3>2, WorkerForType
  <2>2. /\ Len(queues[w][k]) < QueueCap
        /\ queues' = [queues EXCEPT ![w] = [@ EXCEPT ![k] = Append(queues[w][k], m)]]
        /\ hand' = [hand EXCEPT ![k] = <<>>]
    BY <1>6 DEF HandOver, HasRoom
  <2> HIDE DEF m, w
  <2>3. queues[w][k] \in Seq(Numbered) /\ Len(queues[w][k]) \in Nat /\ QueueCap \in Nat
    BY <2>1, LenProperties, PoolAssumption DEF TypeOK
  <2>4. /\ Append(queues[w][k], m) \in Seq(Numbered)
        /\ Len(Append(queues[w][k], m)) = Len(queues[w][k]) + 1
    BY <2>1, <2>3, AppendProperties
  <2>5. /\ queues' \in [Workers -> [Kinds -> Seq(Numbered)]]
        /\ \A v \in Workers, l \in Kinds : Len(queues'[v][l]) <= QueueCap
    BY <2>1, <2>2, <2>3, <2>4 DEF TypeOK
  <2>6. hand' \in [Kinds -> Seq(Numbered)] /\ \A l \in Kinds : Len(hand'[l]) <= 1
    BY <2>2, EmptySeq DEF TypeOK
  <2>7. QED
    BY <1>6, <2>5, <2>6 DEF HandOver, TypeOK
<1>7. ASSUME NEW w \in Workers, NEW k \in Kinds, Begin(w, k)
      PROVE  TypeOK'
  <2> DEFINE q == queues[w][k]
  <2>1. q \in Seq(Numbered) /\ q # <<>> /\ Len(q) \in Nat
    BY <1>7, LenProperties DEF Begin, TypeOK
  <2>2. Head(q) \in Numbered /\ Tail(q) \in Seq(Numbered) /\ Len(Tail(q)) = Len(q) - 1
    BY <2>1, ReceivedIn
  <2>3. /\ queues' = [queues EXCEPT ![w] = [@ EXCEPT ![k] = Tail(q)]]
        /\ handling' = [handling EXCEPT ![w] = {[kind |-> k, msg |-> Head(q)]}]
        /\ begun' = [begun EXCEPT ![Head(q).device][k] = @ + 1]
        /\ \E e \in Effects[k] : sends' = [sends EXCEPT ![w] = e]
    BY <1>7 DEF Begin
  <2>4. Len(q) <= QueueCap
    BY DEF TypeOK
  <2> HIDE DEF q
  <2>5. /\ queues' \in [Workers -> [Kinds -> Seq(Numbered)]]
        /\ \A v \in Workers, l \in Kinds : Len(queues'[v][l]) <= QueueCap
    BY <2>1, <2>2, <2>3, <2>4, PoolAssumption DEF TypeOK
  <2>6. handling' \in [Workers -> SUBSET [kind : Kinds, msg : Numbered]]
    BY <2>2, <2>3 DEF TypeOK
  <2>7. sends' \in [Workers -> Seq(Places)]
    BY <2>3, PoolAssumption DEF TypeOK
  <2>8. begun' \in [Devices -> [Kinds -> Nat]]
    BY <2>2, <2>3 DEF TypeOK, Numbered
  <2>9. QED
    BY <1>7, <2>5, <2>6, <2>7, <2>8 DEF Begin, TypeOK
<1>8. ASSUME NEW w \in Workers, sends[w] # <<>>, Sent(w)
      PROVE  sends' \in [Workers -> Seq(Places)]
  <2>1. Tail(sends[w]) \in Seq(Places)
    BY <1>8, HeadTailProperties DEF TypeOK
  <2>2. QED
    BY <1>8, <2>1 DEF Sent, TypeOK
<1>9. ASSUME NEW w \in Workers, SendCommand(w) \/ TellClients(w)
      PROVE  TypeOK'
  <2>1. sends' \in [Workers -> Seq(Places)]
    BY <1>8, <1>9 DEF SendCommand, TellClients
  <2>2. {OutCap, ClientsCap} \subseteq Nat
    BY PoolAssumption
  <2>3. CASE SendCommand(w)
    BY <2>1, <2>2, <2>3 DEF SendCommand, TypeOK
  <2>4. CASE TellClients(w)
    BY <2>1, <2>2, <2>4 DEF TellClients, TypeOK
  <2>5. QED
    BY <1>9, <2>3, <2>4
<1>10. ASSUME NEW w \in Workers, PostEvent(w)
       PROVE  TypeOK'
  <2>1. sends' \in [Workers -> Seq(Places)]
    BY <1>8, <1>10 DEF PostEvent
  <2>2. \A h \in handling[w] : h.msg.device \in Devices
    BY DEF TypeOK, Numbered
  <2>3. QED
    BY <1>10, <2>1, <2>2, EnterTypes DEF PostEvent, TypeOK, Kinds
<1>11. ASSUME NEW w \in Workers, Finish(w)
       PROVE  TypeOK'
  BY <1>11 DEF Finish, TypeOK
<1>12. CASE Help \/ DistributorTakes
  <2>1. {OutCap, ActualCap, ClientsCap} \subseteq Nat
    BY PoolAssumption
  <2>2. CASE HelperReads
    BY <2>1, <2>2 DEF HelperReads, TypeOK
  <2>3. CASE HelperPasses
    BY <2>1, <2>3 DEF HelperPasses, TypeOK
  <2>4. CASE HelperDrops
    BY <2>1, <2>4 DEF HelperDrops, TypeOK
  <2>5. CASE DistributorTakes
    BY <2>1, <2>5 DEF DistributorTakes, TypeOK
  <2>6. QED
    BY <1>12, <2>2, <2>3, <2>4, <2>5 DEF Help
<1>13. CASE UNCHANGED vars
  BY <1>13 DEF vars, TypeOK
<1>14. QED
  BY <1>1, <1>2, <1>3, <1>4, <1>5, <1>6, <1>7, <1>9, <1>10, <1>11, <1>12, <1>13
     DEF Next, Dispatch, Work

(* The channels keep their bounds.                                          *)
THEOREM TypeOKHolds == Spec => []TypeOK
<1>1. TypeOK /\ [Next]_vars => TypeOK'
  BY TypesStep
<1>2. QED
  BY <1>1, TypesInit, PTL DEF Spec

-----------------------------------------------------------------------------
(* The messages on their way to a handler.                                  *)

Pending(m, k) ==
    \/ In(m, source[k]) \/ In(m, hand[k])
    \/ \E w \in Workers : In(m, queues[w][k])

InOrder(k) ==
    /\ Sorted(source[k]) /\ Before(hand[k], source[k])
    /\ \A w \in Workers :
           /\ Sorted(queues[w][k])
           /\ Before(queues[w][k], hand[k]) /\ Before(queues[w][k], source[k])
           /\ \A m \in Numbered : In(m, queues[w][k]) => w = WorkerFor(m)
    /\ \A d \in Devices : begun[d][k] <= accepted[d][k]
    /\ \A m \in Numbered : Pending(m, k) =>
           begun[m.device][k] < m.number /\ m.number <= accepted[m.device][k]
    /\ \A m \in Numbered :
           begun[m.device][k] < m.number /\ m.number <= accepted[m.device][k] => Pending(m, k)

AllInOrder == \A k \in Kinds : InOrder(k)

(* Of a worker's messages none is in another worker's hands.                *)
Handling ==
    \A w \in Workers :
        /\ \A h \in handling[w] : w = WorkerFor(h.msg)
        /\ \A h, g \in handling[w] : h = g

LEMMA OrderInit == Init => AllInOrder /\ Handling
<1> SUFFICES ASSUME Init PROVE AllInOrder /\ Handling
  OBVIOUS
<1>1. \A m \in Numbered : m.device \in Devices /\ m.number \in Nat \ {0}
  BY DEF Numbered
<1>2. \A k \in Kinds, m \in Numbered : begun[m.device][k] = 0 /\ accepted[m.device][k] = 0
  BY <1>1 DEF Init
<1>3. \A k \in Kinds : source[k] = <<>> /\ hand[k] = <<>> /\ \A w \in Workers : queues[w][k] = <<>>
  BY DEF Init
<1>4. Handling
  BY DEF Init, Handling
<1>5. \A k \in Kinds, d \in Devices : begun[d][k] <= accepted[d][k]
  <2>1. \A k \in Kinds, d \in Devices : accepted[d][k] = 0 /\ begun[d][k] = 0
    BY DEF Init
  <2>2. QED
    BY <2>1
<1>6. \A k \in Kinds : InOrder(k)
  BY <1>1, <1>2, <1>3, <1>5, EmptyIn DEF InOrder, Pending, Before
<1>7. QED
  BY <1>4, <1>6 DEF AllInOrder

(* A message enters a source channel: it is the newest of its device.       *)
LEMMA EnterOrder ==
    ASSUME TypeOK, AllInOrder, NEW d \in Devices, NEW k \in Kinds, Enter(d, k),
           UNCHANGED <<hand, queues, begun>>
    PROVE  AllInOrder'
<1> DEFINE n == accepted[d][k] + 1
           m == Message(d, n)
<1>1. n \in Nat \ {0} /\ m \in Numbered /\ m.device = d /\ m.number = n
  BY DEF TypeOK, Message, Numbered
<1>2. /\ source'[k] = Append(source[k], m)
      /\ \A l \in Kinds : l # k => source'[l] = source[l]
      /\ \A e \in Devices, l \in Kinds :
             accepted'[e][l] = IF e = d /\ l = k THEN n ELSE accepted[e][l]
  BY DEF Enter, TypeOK
<1> HIDE DEF n, m
<1>3. source[k] \in Seq(Numbered)
  BY DEF TypeOK
<1>4. \A x : In(x, source'[k]) <=> In(x, source[k]) \/ x = m
  BY <1>1, <1>2, <1>3, SentIn
<1>5. \A x \in Numbered : Pending(x, k) => Older(x, m)
  BY <1>1 DEF AllInOrder, InOrder, Older, n, Numbered, TypeOK
<1>6. Sorted(source'[k])
  BY <1>1, <1>2, <1>3, <1>5, SentSorted DEF AllInOrder, InOrder, Pending
<1>7. \A l \in Kinds : l # k => InOrder(l)'
  <2> SUFFICES ASSUME NEW l \in Kinds, l # k PROVE InOrder(l)'
    OBVIOUS
  <2>1. \A x \in Numbered : x.device \in Devices
    BY DEF Numbered
  <2>2. InOrder(l) /\ source'[l] = source[l] /\ \A e \in Devices : accepted'[e][l] = accepted[e][l]
    BY <1>2 DEF AllInOrder
  <2>3. QED
    BY <2>1, <2>2 DEF InOrder, Pending
<1>8. \A x \in Numbered : Pending(x, k)' <=> Pending(x, k) \/ x = m
  BY <1>4 DEF Pending
<1>9. InOrder(k)'
  <2>1. Before(hand[k], source'[k]) /\ \A w \in Workers : Before(queues[w][k], source'[k])
    BY <1>4, <1>5 DEF AllInOrder, InOrder, Before, Pending
  <2>2. ASSUME NEW x \in Numbered
        PROVE  Pending(x, k)' <=> begun[x.device][k] < x.number /\ x.number <= accepted'[x.device][k]
    <3>1. x.device \in Devices /\ x.number \in Nat \ {0} /\ begun[x.device][k] \in Nat
          /\ accepted[x.device][k] \in Nat
      BY DEF Numbered, TypeOK
    <3>2. Pending(x, k) <=> begun[x.device][k] < x.number /\ x.number <= accepted[x.device][k]
      BY DEF AllInOrder, InOrder
    <3>3. CASE x.device # d
      BY <1>1, <1>2, <1>8, <3>1, <3>2, <3>3
    <3>4. CASE x.device = d
      <4>1. x = m <=> x.number = n
        BY <1>1, <3>4 DEF Numbered
      <4>2. accepted'[x.device][k] = accepted[d][k] + 1
        BY <1>2, <3>4 DEF n
      <4>3. begun[d][k] <= accepted[d][k]
        BY DEF AllInOrder, InOrder
      <4>4. QED
        BY <1>8, <3>1, <3>2, <3>4, <4>1, <4>2, <4>3 DEF n
    <3>5. QED
      BY <3>3, <3>4
  <2>3. \A e \in Devices : begun[e][k] <= accepted'[e][k]
    <3> SUFFICES ASSUME NEW e \in Devices PROVE begun[e][k] <= accepted'[e][k]
      OBVIOUS
    <3>1. begun[e][k] <= accepted[e][k] /\ begun[e][k] \in Nat /\ accepted[e][k] \in Nat
      BY DEF AllInOrder, InOrder, TypeOK
    <3>2. accepted'[e][k] = accepted[e][k] \/ accepted'[e][k] = accepted[e][k] + 1
      BY <1>2 DEF n
    <3>3. QED
      BY <3>1, <3>2
  <2>4. QED
    BY <1>6, <2>1, <2>2, <2>3 DEF AllInOrder, InOrder
<1>10. QED
  BY <1>7, <1>9 DEF AllInOrder

(* A dispatcher takes the oldest message of its source channel.             *)
LEMMA ReadOrder ==
    ASSUME TypeOK, AllInOrder, NEW k \in Kinds, DispatcherReads(k)
    PROVE  AllInOrder'
<1> DEFINE q == source[k]
           m == Head(q)
<1>1. /\ q \in Seq(Numbered) /\ q # <<>> /\ hand[k] = <<>>
      /\ source' = [source EXCEPT ![k] = Tail(q)] /\ hand' = [hand EXCEPT ![k] = <<m>>]
      /\ UNCHANGED <<queues, begun, accepted>>
  BY DEF DispatcherReads, TypeOK, counts
<1>2. m \in Numbered /\ \A x : In(x, q) <=> x = m \/ In(x, Tail(q))
  BY <1>1, ReceivedIn
<1>3. Sorted(Tail(q)) /\ \A x : In(x, Tail(q)) => Older(m, x)
  BY <1>1, ReceivedSorted DEF AllInOrder, InOrder
<1>4. /\ source'[k] = Tail(q) /\ hand'[k] = <<m>>
      /\ \A l \in Kinds : l # k => source'[l] = source[l] /\ hand'[l] = hand[l]
  BY <1>1 DEF TypeOK
<1>5. \A x : In(x, hand'[k]) <=> x = m
  BY <1>4, SingleIn
<1>6. \A x : ~In(x, hand[k])
  BY <1>1, EmptyIn
<1> HIDE DEF q, m
<1>7. \A x : In(x, source[k]) <=> x = m \/ In(x, source'[k])
  BY <1>2, <1>4 DEF q
<1>8. \A l \in Kinds : l # k => InOrder(l)'
  BY <1>1, <1>4 DEF AllInOrder, InOrder, Pending
<1>9. \A x \in Numbered : Pending(x, k)' <=> Pending(x, k)
  BY <1>1, <1>5, <1>6, <1>7 DEF Pending
<1>10. Sorted(source'[k]) /\ Before(hand'[k], source'[k])
  BY <1>3, <1>4, <1>5 DEF Before
<1>11. \A w \in Workers : Before(queues'[w][k], hand'[k]) /\ Before(queues'[w][k], source'[k])
  BY <1>1, <1>5, <1>7 DEF AllInOrder, InOrder, Before
<1>12. InOrder(k)'
  BY <1>1, <1>9, <1>10, <1>11 DEF AllInOrder, InOrder
<1>13. QED
  BY <1>8, <1>12 DEF AllInOrder

(* A dispatcher hands a message to the worker of its device, whose older    *)
(* ones are in that worker's queue or gone.                                 *)
LEMMA HandOrder ==
    ASSUME TypeOK, AllInOrder, NEW k \in Kinds, HandOver(k)
    PROVE  AllInOrder'
<1> DEFINE m == hand[k][1]
           w == WorkerFor(m)
<1>1. hand[k] \in Seq(Numbered) /\ hand[k] # <<>> /\ Len(hand[k]) <= 1
  BY DEF HandOver, TypeOK
<1>2. Len(hand[k]) = 1 /\ m \in Numbered
  <2>1. Head(hand[k]) \in Numbered /\ Head(hand[k]) = hand[k][1]
    BY <1>1, HeadTailProperties
  <2>2. ASSUME NEW l \in Nat, l # 0, l <= 1
        PROVE  l = 1
    BY <2>2
  <2>3. Len(hand[k]) \in Nat /\ Len(hand[k]) # 0
    BY <1>1, LenProperties, EmptySeq
  <2>4. Len(hand[k]) = 1
    BY <1>1, <2>2, <2>3
  <2>5. QED
    BY <2>1, <2>4
<1>3. \A x : In(x, hand[k]) <=> x = m
  BY <1>2 DEF In
<1>4. w \in Workers
  BY <1>2, WorkerForType
<1>5. /\ queues' = [queues EXCEPT ![w] = [@ EXCEPT ![k] = Append(queues[w][k], m)]]
      /\ hand' = [hand EXCEPT ![k] = <<>>]
      /\ UNCHANGED <<source, begun, accepted>>
  BY DEF HandOver, counts
<1>6. queues[w][k] \in Seq(Numbered)
  BY <1>4 DEF TypeOK
<1> HIDE DEF m
<1>7. WorkerFor(m) = w
  OBVIOUS
<1> HIDE DEF w
<1>8. /\ queues'[w][k] = Append(queues[w][k], m) /\ hand'[k] = <<>>
      /\ \A v \in Workers : v # w => queues'[v][k] = queues[v][k]
      /\ \A v \in Workers, l \in Kinds : l # k => queues'[v][l] = queues[v][l] /\ hand'[l] = hand[l]
  BY <1>4, <1>5 DEF TypeOK
<1>9. \A x : In(x, queues'[w][k]) <=> In(x, queues[w][k]) \/ x = m
  BY <1>2, <1>6, <1>8, SentIn
<1>10. \A x : ~In(x, hand'[k])
  BY <1>8, EmptyIn
<1>11. \A l \in Kinds : l # k => InOrder(l)'
  <2> SUFFICES ASSUME NEW l \in Kinds, l # k PROVE InOrder(l)'
    OBVIOUS
  <2>1. hand'[l] = hand[l] /\ \A v \in Workers : queues'[v][l] = queues[v][l]
    BY <1>4, <1>8
  <2>2. QED
    BY <1>5, <2>1 DEF AllInOrder, InOrder, Pending
<1>12. \A x \in Numbered : Pending(x, k)' <=> Pending(x, k)
  BY <1>3, <1>4, <1>5, <1>8, <1>9, <1>10 DEF Pending
<1>13. Sorted(queues'[w][k])
  BY <1>2, <1>3, <1>4, <1>6, <1>8, SentSorted DEF AllInOrder, InOrder, Before
<1>14. \A v \in Workers :
          /\ Sorted(queues'[v][k])
          /\ Before(queues'[v][k], hand'[k]) /\ Before(queues'[v][k], source'[k])
          /\ \A x \in Numbered : In(x, queues'[v][k]) => v = WorkerFor(x)
  <2> SUFFICES ASSUME NEW v \in Workers
               PROVE  /\ Sorted(queues'[v][k])
                      /\ Before(queues'[v][k], hand'[k]) /\ Before(queues'[v][k], source'[k])
                      /\ \A x \in Numbered : In(x, queues'[v][k]) => v = WorkerFor(x)
    OBVIOUS
  <2>1. Before(queues'[v][k], hand'[k])
    BY <1>10 DEF Before
  <2>2. CASE v # w
    BY <1>5, <1>8, <2>1, <2>2 DEF AllInOrder, InOrder
  <2>3. CASE v = w
    BY <1>2, <1>3, <1>4, <1>5, <1>7, <1>9, <1>13, <2>1, <2>3 DEF AllInOrder, InOrder, Before
  <2>4. QED
    BY <2>2, <2>3
<1>15. Before(hand'[k], source'[k])
  BY <1>10 DEF Before
<1>16. InOrder(k)'
  BY <1>5, <1>12, <1>14, <1>15 DEF AllInOrder, InOrder
<1>17. QED
  BY <1>11, <1>16 DEF AllInOrder

(* A worker begins with the message of a device that is next.               *)
LEMMA BeginIsNext ==
    ASSUME TypeOK, AllInOrder, NEW w \in Workers, NEW k \in Kinds, Begin(w, k)
    PROVE  LET m == Head(queues[w][k])
           IN  /\ m \in Numbered /\ m.device \in Devices /\ WorkerFor(m) = w
               /\ m.number = begun[m.device][k] + 1
               /\ m.number <= accepted[m.device][k]
<1> DEFINE q == queues[w][k]
           m == Head(q)
           n == begun[m.device][k] + 1
           first == Message(m.device, n)
<1>1. q \in Seq(Numbered) /\ q # <<>>
  BY DEF Begin, TypeOK
<1>2. m \in Numbered /\ In(m, q) /\ \A x : In(x, q) <=> x = m \/ In(x, Tail(q))
  BY <1>1, ReceivedIn
<1>3. \A x : In(x, Tail(q)) => Older(m, x)
  BY <1>1, ReceivedSorted DEF AllInOrder, InOrder
<1>4. Pending(m, k) /\ WorkerFor(m) = w
  BY <1>2 DEF AllInOrder, InOrder, Pending
<1>5. begun[m.device][k] < m.number /\ m.number <= accepted[m.device][k]
  BY <1>2, <1>4 DEF AllInOrder, InOrder
<1>6. m.device \in Devices /\ m.number \in Nat /\ begun[m.device][k] \in Nat /\ accepted[m.device][k] \in Nat
  BY <1>2 DEF Numbered, TypeOK
<1>7. n \in Nat \ {0} /\ first \in Numbered /\ first.device = m.device /\ first.number = n
  BY <1>6 DEF Message, Numbered
<1>8. Pending(first, k)
  <2>1. begun[first.device][k] < first.number /\ first.number <= accepted[first.device][k]
    BY <1>5, <1>6, <1>7
  <2>2. QED
    BY <1>7, <2>1 DEF AllInOrder, InOrder
<1>9. m.number <= n
  <2>1. CASE In(first, source[k]) \/ In(first, hand[k])
    <3>1. Older(m, first)
      BY <1>2, <1>7, <2>1 DEF AllInOrder, InOrder, Before
    <3>2. QED
      BY <1>6, <1>7, <3>1 DEF Older
  <2>2. ASSUME NEW v \in Workers, In(first, queues[v][k])
        PROVE  m.number <= n
    <3>1. v = WorkerFor(first)
      BY <1>7, <2>2 DEF AllInOrder, InOrder
    <3>2. v = w
      BY <1>4, <1>7, <3>1 DEF WorkerFor
    <3>3. first = m \/ Older(m, first)
      BY <1>2, <1>3, <2>2, <3>2
    <3>4. QED
      BY <1>6, <1>7, <3>3 DEF Older
  <2>3. QED
    BY <1>8, <2>1, <2>2 DEF Pending
<1>10. QED
  BY <1>2, <1>4, <1>5, <1>6, <1>9

LEMMA BeginOrder ==
    ASSUME TypeOK, AllInOrder, NEW w \in Workers, NEW k \in Kinds, Begin(w, k)
    PROVE  AllInOrder'
<1> DEFINE q == queues[w][k]
           m == Head(q)
<1>1. q \in Seq(Numbered) /\ q # <<>>
  BY DEF Begin, TypeOK
<1>2. /\ queues' = [queues EXCEPT ![w] = [@ EXCEPT ![k] = Tail(q)]]
      /\ begun' = [begun EXCEPT ![m.device] = [@ EXCEPT ![k] = begun[m.device][k] + 1]]
      /\ UNCHANGED <<source, hand, accepted>>
  BY DEF Begin
<1>3. /\ m \in Numbered /\ m.device \in Devices /\ WorkerFor(m) = w
      /\ m.number = begun[m.device][k] + 1
      /\ m.number <= accepted[m.device][k]
  BY BeginIsNext
<1>4. /\ \A x : In(x, q) <=> x = m \/ In(x, Tail(q))
      /\ Sorted(Tail(q)) /\ \A x : In(x, Tail(q)) => Older(m, x)
  BY <1>1, ReceivedIn, ReceivedSorted DEF AllInOrder, InOrder
<1>5. /\ queues'[w][k] = Tail(q)
      /\ \A v \in Workers : v # w => queues'[v][k] = queues[v][k]
      /\ \A v \in Workers, l \in Kinds : l # k => queues'[v][l] = queues[v][l]
      /\ \A e \in Devices, l \in Kinds :
             begun'[e][l] = IF e = m.device /\ l = k THEN m.number ELSE begun[e][l]
  BY <1>2, <1>3 DEF TypeOK
<1> HIDE DEF m
<1>6. \A x : In(x, queues[w][k]) <=> x = m \/ In(x, queues'[w][k])
  BY <1>4, <1>5
<1>7. Sorted(queues'[w][k]) /\ \A x : In(x, queues'[w][k]) => Older(m, x)
  BY <1>4, <1>5
<1> HIDE DEF q
<1>8. \A l \in Kinds : l # k => InOrder(l)'
  <2> SUFFICES ASSUME NEW l \in Kinds, l # k PROVE InOrder(l)'
    OBVIOUS
  <2>1. \A x \in Numbered : x.device \in Devices
    BY DEF Numbered
  <2>2. /\ InOrder(l) /\ \A e \in Devices : begun'[e][l] = begun[e][l]
        /\ \A v \in Workers : queues'[v][l] = queues[v][l]
    BY <1>5 DEF AllInOrder
  <2>3. QED
    BY <1>2, <2>1, <2>2 DEF InOrder, Pending
<1>9. \A v \in Workers : \A x : In(x, queues'[v][k]) => In(x, queues[v][k])
  BY <1>5, <1>6
<1>10. \A v \in Workers : Sorted(queues'[v][k])
  BY <1>5, <1>7 DEF AllInOrder, InOrder
<1>11. \A x \in Numbered : Pending(x, k) /\ x.device = m.device => x.number >= m.number
  BY <1>3 DEF AllInOrder, InOrder, Numbered, TypeOK
<1>12. \A x \in Numbered : Pending(x, k)' => Older(m, x)
  <2> SUFFICES ASSUME NEW x \in Numbered, Pending(x, k)' PROVE Older(m, x)
    OBVIOUS
  <2>1. In(m, queues[w][k])
    BY <1>6
  <2>2. CASE In(x, source'[k]) \/ In(x, hand'[k])
    BY <1>2, <1>3, <2>1, <2>2 DEF AllInOrder, InOrder, Before
  <2>3. CASE In(x, queues'[w][k])
    BY <1>7, <2>3
  <2>4. ASSUME NEW v \in Workers, v # w, In(x, queues'[v][k])
        PROVE  Older(m, x)
    <3>1. WorkerFor(x) = v
      BY <1>9, <2>4 DEF AllInOrder, InOrder
    <3>2. x.device # m.device
      BY <1>3, <2>4, <3>1 DEF WorkerFor
    <3>3. QED
      BY <3>2 DEF Older
  <2>5. QED
    BY <2>2, <2>3, <2>4 DEF Pending
<1>13. \A x \in Numbered : Pending(x, k) => x = m \/ Pending(x, k)'
  BY <1>2, <1>5, <1>6 DEF Pending
<1>14. \A x \in Numbered : Pending(x, k)' => Pending(x, k)
  BY <1>2, <1>9 DEF Pending
<1>15. ASSUME NEW x \in Numbered
       PROVE  Pending(x, k)' <=> begun'[x.device][k] < x.number /\ x.number <= accepted[x.device][k]
  <2>1. x.device \in Devices /\ x.number \in Nat /\ begun[x.device][k] \in Nat
        /\ m.number \in Nat /\ begun[m.device][k] \in Nat /\ accepted[x.device][k] \in Nat
    BY <1>3 DEF Numbered, TypeOK
  <2>2. Pending(x, k) <=> begun[x.device][k] < x.number /\ x.number <= accepted[x.device][k]
    BY DEF AllInOrder, InOrder
  <2>3. CASE x.device # m.device
    BY <1>5, <1>13, <1>14, <2>1, <2>2, <2>3
  <2>4. CASE x.device = m.device
    <3>1. begun'[x.device][k] = m.number
      BY <1>5, <2>1, <2>4
    <3>2. Pending(x, k)' => m.number < x.number
      BY <1>12, <2>4 DEF Older
    <3>3. m.number < x.number => x # m
      BY <2>1
    <3>4. QED
      BY <1>3, <1>13, <1>14, <2>1, <2>2, <2>4, <3>1, <3>2, <3>3
  <2>5. QED
    BY <2>3, <2>4
<1>16. \A e \in Devices : begun'[e][k] <= accepted[e][k]
  BY <1>3, <1>5 DEF AllInOrder, InOrder
<1>17. \A v \in Workers :
          /\ Before(queues'[v][k], hand[k]) /\ Before(queues'[v][k], source[k])
          /\ \A x \in Numbered : In(x, queues'[v][k]) => v = WorkerFor(x)
  BY <1>9 DEF AllInOrder, InOrder, Before
<1>18. InOrder(k)'
  BY <1>2, <1>10, <1>15, <1>16, <1>17 DEF AllInOrder, InOrder
<1>19. QED
  BY <1>8, <1>18 DEF AllInOrder

-----------------------------------------------------------------------------
(* The steps of the pool are steps of DeviceOrder.                          *)

LEMMA OrderRest ==
    ASSUME AllInOrder, Handling, UNCHANGED <<source, hand, queues, accepted, begun, handling>>
    PROVE  AllInOrder' /\ Handling' /\ UNCHANGED Order!vars
<1>1. \A k \in Kinds : InOrder(k)'
  BY DEF AllInOrder, InOrder, Pending
<1>2. Running' = Running
  BY DEF Running
<1>3. QED
  BY <1>1, <1>2 DEF AllInOrder, Handling, Order!vars

LEMMA EnterSteps ==
    ASSUME TypeOK, AllInOrder, Handling, NEW d \in Devices, NEW k \in Kinds, Enter(d, k),
           UNCHANGED <<hand, queues, begun, handling>>
    PROVE  AllInOrder' /\ Handling' /\ Order!Next
<1>1. Running' = Running
  BY DEF Running
<1>2. Order!Accept(d, k)
  BY <1>1 DEF Enter, Order!Accept
<1>3. QED
  BY <1>2, EnterOrder DEF Order!Next, Handling

(* Who is running.                                                          *)
LEMMA RunningIs ==
    ASSUME NEW d \in Devices
    PROVE  Running[d] = {<<h.kind, h.msg.number>> :
                            h \in {h \in UNION {handling[w] : w \in Workers} : h.msg.device = d}}
  BY DEF Running

LEMMA BeginSteps ==
    ASSUME TypeOK, AllInOrder, Handling, NEW w \in Workers, NEW k \in Kinds, Begin(w, k)
    PROVE  Handling' /\ Order!Next
<1> DEFINE m == Head(queues[w][k])
           d == m.device
           new == [kind |-> k, msg |-> m]
<1>1. /\ m \in Numbered /\ d \in Devices /\ WorkerFor(m) = w
      /\ m.number = begun[d][k] + 1 /\ m.number <= accepted[d][k]
  BY BeginIsNext
<1>2. /\ handling[w] = {} /\ handling' = [handling EXCEPT ![w] = {new}]
      /\ begun' = [begun EXCEPT ![d] = [@ EXCEPT ![k] = begun[d][k] + 1]]
      /\ UNCHANGED accepted
  BY DEF Begin
<1> HIDE DEF m
<1>3. handling'[w] = {new} /\ \A v \in Workers : v # w => handling'[v] = handling[v]
  BY <1>2 DEF TypeOK
<1>4. Handling'
  BY <1>1, <1>3 DEF Handling
<1>5. \A v \in Workers : \A h \in handling[v] : h.msg.device # d
  BY <1>1, <1>2 DEF Handling, WorkerFor
<1>6. Running[d] = {}
  BY <1>1, <1>5, RunningIs
<1>7. Running'[d] = {<<k, m.number>>}
  <2> DEFINE S == {h \in UNION {handling'[v] : v \in Workers} : h.msg.device = d}
  <2>1. S = {new}
    BY <1>1, <1>3, <1>5
  <2>2. Running'[d] = {<<h.kind, h.msg.number>> : h \in S}
    BY <1>1 DEF Running
  <2> HIDE DEF S
  <2>3. {<<h.kind, h.msg.number>> : h \in S} = {<<new.kind, new.msg.number>>}
    BY <2>1
  <2>4. QED
    BY <2>2, <2>3
<1>8. \A e \in Devices : e # d => Running'[e] = Running[e]
  <2> SUFFICES ASSUME NEW e \in Devices, e # d PROVE Running'[e] = Running[e]
    OBVIOUS
  <2>1. {h \in UNION {handling'[v] : v \in Workers} : h.msg.device = e}
          = {h \in UNION {handling[v] : v \in Workers} : h.msg.device = e}
    BY <1>2, <1>3
  <2>2. QED
    BY <2>1 DEF Running
<1>9. Running' = [Running EXCEPT ![d] = {<<k, begun[d][k] + 1>>}]
  <2>1. Running' = [e \in Devices |-> Running'[e]] /\ Running = [e \in Devices |-> Running[e]]
    BY DEF Running
  <2> DEFINE r == Running
             s == Running'
  <2> HIDE DEF r, s
  <2>2. s = [e \in Devices |-> s[e]] /\ r = [e \in Devices |-> r[e]]
    BY <2>1 DEF r, s
  <2>3. s[d] = {<<k, begun[d][k] + 1>>} /\ \A e \in Devices : e # d => s[e] = r[e]
    BY <1>1, <1>7, <1>8 DEF r, s
  <2>4. s = [r EXCEPT ![d] = {<<k, begun[d][k] + 1>>}]
    BY <2>2, <2>3
  <2>5. QED
    BY <2>4 DEF r, s
<1>10. begun[d][k] < accepted[d][k]
  BY <1>1 DEF TypeOK
<1>11. Order!Begin(d, k)
  <2>1. begun' = [begun EXCEPT ![d][k] = begun[d][k] + 1]
    BY <1>2
  <2>2. QED
    BY <1>2, <1>6, <1>9, <1>10, <2>1 DEF Order!Begin
<1>12. QED
  BY <1>1, <1>4, <1>11 DEF Order!Next

LEMMA FinishSteps ==
    ASSUME TypeOK, Handling, NEW w \in Workers, Finish(w)
    PROVE  Handling' /\ Order!Next
<1>1. PICK h \in handling[w] : handling[w] = {h}
  BY DEF Finish, Handling
<1> DEFINE d == h.msg.device
<1>2. d \in Devices /\ WorkerFor(h.msg) = w
  BY <1>1 DEF TypeOK, Numbered, Handling
<1>3. /\ handling'[w] = {} /\ \A v \in Workers : v # w => handling'[v] = handling[v]
      /\ UNCHANGED <<accepted, begun>>
  BY DEF Finish, TypeOK, counts
<1>4. Handling'
  BY <1>3 DEF Handling
<1>5. <<h.kind, h.msg.number>> \in Running[d]
  BY <1>1, <1>2 DEF Running
<1>6. \A v \in Workers : v # w => \A g \in handling[v] : g.msg.device # d
  BY <1>2 DEF Handling, WorkerFor
<1>7. Running'[d] = {}
  BY <1>2, <1>3, <1>6 DEF Running
<1>8. \A e \in Devices : e # d => Running'[e] = Running[e]
  <2> SUFFICES ASSUME NEW e \in Devices, e # d PROVE Running'[e] = Running[e]
    OBVIOUS
  <2>1. {g \in UNION {handling'[v] : v \in Workers} : g.msg.device = e}
          = {g \in UNION {handling[v] : v \in Workers} : g.msg.device = e}
    BY <1>1, <1>3
  <2>2. QED
    BY <2>1 DEF Running
<1>9. Running' = [Running EXCEPT ![d] = {}]
  <2>1. Running' = [e \in Devices |-> Running'[e]] /\ Running = [e \in Devices |-> Running[e]]
    BY DEF Running
  <2> DEFINE r == Running
             s == Running'
  <2> HIDE DEF r, s
  <2>2. s = [e \in Devices |-> s[e]] /\ r = [e \in Devices |-> r[e]]
    BY <2>1 DEF r, s
  <2>3. s[d] = {} /\ \A e \in Devices : e # d => s[e] = r[e]
    BY <1>7, <1>8 DEF r, s
  <2>4. s = [r EXCEPT ![d] = {}]
    BY <2>2, <2>3
  <2>5. QED
    BY <2>4 DEF r, s
<1>10. Order!Finish(d)
  BY <1>3, <1>5, <1>9 DEF Order!Finish
<1>11. QED
  BY <1>2, <1>4, <1>10 DEF Order!Next

LEMMA OrderStep ==
    ASSUME TypeOK, AllInOrder, Handling, [Next]_vars
    PROVE  AllInOrder' /\ Handling' /\ [Order!Next]_(Order!vars)
<1> DEFINE Goal == AllInOrder' /\ Handling' /\ [Order!Next]_(Order!vars)
<1>1. CASE UNCHANGED <<source, hand, queues, accepted, begun, handling>>
  BY <1>1, OrderRest
<1>2. ASSUME NEW d \in Devices, NEW k \in Kinds, Enter(d, k),
             UNCHANGED <<hand, queues, begun, handling>>
      PROVE  Goal
  BY <1>2, EnterSteps
<1>3. ASSUME NEW d \in Devices, ClientSets(d) \/ TimerPosts(d)
      PROVE  Goal
  BY <1>2, <1>3 DEF ClientSets, TimerPosts, workers, Kinds
<1>4. ASSUME NEW d \in Devices, CoreBegins(d)
      PROVE  Goal
  BY <1>1, <1>4 DEF CoreBegins, channels, workers, counts
<1>5. CASE CoreReads
  BY <1>1, <1>5 DEF CoreReads, channels, workers, counts
<1>6. CASE CoreReports
  BY <1>1, <1>2, <1>6 DEF CoreReports, workers, Kinds, TypeOK
<1>7. ASSUME NEW k \in Kinds, DispatcherReads(k) \/ HandOver(k)
      PROVE  Goal
  <2>1. AllInOrder'
    BY <1>7, ReadOrder, HandOrder
  <2>2. UNCHANGED <<accepted, begun, handling>>
    BY <1>7 DEF DispatcherReads, HandOver, workers, counts
  <2>3. Handling' /\ UNCHANGED Order!vars
    BY <2>2 DEF Handling, Order!vars, Running
  <2>4. QED
    BY <2>1, <2>3
<1>8. ASSUME NEW w \in Workers, NEW k \in Kinds, Begin(w, k)
      PROVE  Goal
  BY <1>8, BeginOrder, BeginSteps
<1>9. ASSUME NEW w \in Workers, SendCommand(w) \/ TellClients(w)
      PROVE  Goal
  BY <1>1, <1>9 DEF SendCommand, TellClients, channels, counts
<1>10. ASSUME NEW w \in Workers, PostEvent(w)
       PROVE  Goal
  <2>1. \A h \in handling[w] : h.msg.device \in Devices
    BY DEF TypeOK, Numbered
  <2>2. QED
    BY <1>1, <1>2, <1>10, <2>1 DEF PostEvent, Kinds
<1>11. ASSUME NEW w \in Workers, Finish(w)
       PROVE  Goal
  <2>1. UNCHANGED <<source, hand, queues, accepted, begun>>
    BY <1>11 DEF Finish, channels, counts
  <2>2. \A k \in Kinds : InOrder(k)'
    BY <2>1 DEF AllInOrder, InOrder, Pending
  <2>3. QED
    BY <1>11, <2>2, FinishSteps DEF AllInOrder
<1>12. CASE Help \/ DistributorTakes
  BY <1>1, <1>12 DEF Help, HelperReads, HelperPasses, HelperDrops, DistributorTakes,
                     channels, workers, counts
<1>13. CASE UNCHANGED vars
  BY <1>1, <1>13 DEF vars, channels, workers, counts
<1>14. QED
  BY <1>3, <1>4, <1>5, <1>6, <1>7, <1>8, <1>9, <1>10, <1>11, <1>12, <1>13
     DEF Next, Dispatch, Work

(* The messages of a device are handled one at a time, those of one kind in *)
(* the order in which they were accepted, and none is lost on the way.      *)
THEOREM KeepsDeviceOrderHolds == Spec => KeepsDeviceOrder
<1>1. Init => Order!Init
  <2> SUFFICES ASSUME Init PROVE Order!Init
    OBVIOUS
  <2>1. Running = [d \in Devices |-> {}]
    BY DEF Init, Running
  <2>2. QED
    BY <2>1 DEF Init, Order!Init
<1>2. TypeOK /\ AllInOrder /\ Handling /\ [Next]_vars =>
          AllInOrder' /\ Handling' /\ [Order!Next]_(Order!vars)
  BY OrderStep
<1>3. QED
  BY <1>1, <1>2, OrderInit, TypeOKHolds, PTL DEF Spec, KeepsDeviceOrder, Order!Spec
=============================================================================
