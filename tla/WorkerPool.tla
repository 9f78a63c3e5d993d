----------------------------- MODULE WorkerPool -----------------------------
(* The goroutines Start launches around the handlers: for each kind of     *)
(* message a dispatcher that reads the source channel and hands each       *)
(* message to the worker of its device, the workers, the helper that       *)
(* passes commands on to the core, and the core, one thread that reads     *)
(* commands and writes reports.                                            *)
(*                                                                         *)
(* What a handler does to the buffers is ParameterManager's subject; here  *)
(* it is the sends it makes, in order, each of which may block it.         *)
EXTENDS Naturals, Sequences

CONSTANTS
    Devices,      \* device ids
    NumWorkers,   \* the size of the pool
    SourceCap, QueueCap, OutCap, ActualCap, ClientsCap,  \* channel capacities
    Effects,      \* Effects[k]: the sequences of sends a handler of kind k may make
    MaxMessages   \* MaxMessages[k]: bound on the messages of kind k

Kinds == {"target", "current", "event"}
Places == {"out", "clients", "event"}

ASSUME PoolAssumption ==
    /\ Devices \subseteq Nat
    /\ NumWorkers \in Nat \ {0}
    /\ {SourceCap, QueueCap, OutCap, ActualCap, ClientsCap} \subseteq Nat \ {0}
    /\ MaxMessages \in [Kinds -> Nat]
    /\ Effects \in [Kinds -> SUBSET Seq(Places)]

Workers == 0..(NumWorkers - 1)

VARIABLES
    source,    \* source[k]: clientsSetterStream, in and parameterEvent
    hand,      \* hand[k]: the message dispatcher k is handing over, if any
    queues,    \* queues[w][k]: worker w's three queues
    handling,  \* handling[w]: the message worker w is handling, if any
    sends,     \* sends[w]: the sends its handler has still to make
    out,       \* commands in the channel out
    helper,    \* commands the helper holds: 0 or 1
    actual,    \* commands in the channel outActual
    clients,   \* messages in serverClientsStream
    reporting, \* the report the core thread is writing, if any
    accepted,  \* accepted[d][k]: messages accepted so far
    begun,     \* begun[d][k]: messages a worker began to handle
    quota      \* quota[k]: how many more messages the bound allows

channels == <<source, hand, queues>>
workers == <<handling, sends>>
toCore == <<out, helper, actual>>
counts == <<accepted, begun, quota>>
vars == <<channels, workers, toCore, clients, reporting, counts>>

Message(d, n) == [device |-> d, number |-> n]
Numbered == [device : Devices, number : Nat \ {0}]

Init ==
    /\ source = [k \in Kinds |-> <<>>]
    /\ hand = [k \in Kinds |-> <<>>]
    /\ queues = [w \in Workers |-> [k \in Kinds |-> <<>>]]
    /\ handling = [w \in Workers |-> {}]
    /\ sends = [w \in Workers |-> <<>>]
    /\ out = 0 /\ helper = 0 /\ actual = 0 /\ clients = 0
    /\ reporting = {}
    /\ accepted = [d \in Devices |-> [k \in Kinds |-> 0]]
    /\ begun = accepted
    /\ quota = MaxMessages

-----------------------------------------------------------------------------
(* Messages for device d enter a source channel.                           *)
Enter(d, k) ==
    /\ Len(source[k]) < SourceCap
    /\ quota[k] > 0 /\ quota' = [quota EXCEPT ![k] = @ - 1]
    /\ accepted' = [accepted EXCEPT ![d][k] = @ + 1]
    /\ source' = [source EXCEPT ![k] = Append(@, Message(d, accepted[d][k] + 1))]

(* Set: the call blocks while the channel is full.                         *)
ClientSets(d) ==
    /\ Enter(d, "target")
    /\ UNCHANGED <<hand, queues, workers, toCore, clients, reporting, begun>>

(* A timer's post does not block: what does not fit is dropped.            *)
TimerPosts(d) ==
    /\ Enter(d, "event")
    /\ UNCHANGED <<hand, queues, workers, toCore, clients, reporting, begun>>

(* The core's thread reads a command, or has something to report; while it *)
(* waits to write a report it reads nothing.                               *)
CoreReads ==
    /\ reporting = {} /\ actual > 0
    /\ actual' = actual - 1
    /\ reporting' \in {{}} \cup {{d} : d \in Devices}
    /\ UNCHANGED <<channels, workers, out, helper, clients, counts>>

CoreBegins(d) ==
    /\ reporting = {}
    /\ quota["current"] > 0
    /\ reporting' = {d}
    /\ UNCHANGED <<channels, workers, toCore, clients, counts>>

CoreReports ==
    /\ \E d \in reporting :
          \/ Enter(d, "current")
          \/ quota["current"] = 0 /\ UNCHANGED <<source, accepted, quota>>
    /\ reporting' = {}
    /\ UNCHANGED <<hand, queues, workers, toCore, clients, begun>>

-----------------------------------------------------------------------------
(* The dispatchers.                                                        *)
AnyWorker(m) == m.number % NumWorkers  \* mutant: messages dealt out in turn
WorkerFor(m) == m.device % NumWorkers

DispatcherReads(k) ==
    /\ hand[k] = <<>> /\ source[k] # <<>>
    /\ hand' = [hand EXCEPT ![k] = <<Head(source[k])>>]
    /\ source' = [source EXCEPT ![k] = Tail(@)]
    /\ UNCHANGED <<queues, workers, toCore, clients, reporting, counts>>

HasRoomAlways(w, k) == Len(queues[w][k]) <= QueueCap  \* mutant: off by one
HasRoom(w, k) == Len(queues[w][k]) < QueueCap

HandOver(k) ==
    /\ hand[k] # <<>>
    /\ LET w == WorkerFor(hand[k][1])
       IN /\ HasRoom(w, k)
          /\ queues' = [queues EXCEPT ![w][k] = Append(@, hand[k][1])]
    /\ hand' = [hand EXCEPT ![k] = <<>>]
    /\ UNCHANGED <<source, workers, toCore, clients, reporting, counts>>

Dispatch(k) == DispatcherReads(k) \/ HandOver(k)

-----------------------------------------------------------------------------
(* The workers: select takes any queue that has a message.                 *)
Begin(w, k) ==
    /\ handling[w] = {} /\ queues[w][k] # <<>>
    /\ LET m == Head(queues[w][k])
       IN /\ handling' = [handling EXCEPT ![w] = {[kind |-> k, msg |-> m]}]
          /\ begun' = [begun EXCEPT ![m.device][k] = @ + 1]
    /\ sends' \in {[sends EXCEPT ![w] = e] : e \in Effects[k]}
    /\ queues' = [queues EXCEPT ![w][k] = Tail(@)]
    /\ UNCHANGED <<source, hand, toCore, clients, reporting, accepted, quota>>

Sent(w) == sends' = [sends EXCEPT ![w] = Tail(@)]

SendCommand(w) ==
    /\ sends[w] # <<>> /\ Head(sends[w]) = "out"
    /\ out < OutCap /\ out' = out + 1
    /\ Sent(w)
    /\ UNCHANGED <<channels, handling, helper, actual, clients, reporting, counts>>

TellClients(w) ==
    /\ sends[w] # <<>> /\ Head(sends[w]) = "clients"
    /\ clients < ClientsCap /\ clients' = clients + 1
    /\ Sent(w)
    /\ UNCHANGED <<channels, handling, toCore, reporting, counts>>

(* reEvaluate: what does not fit is dropped.                               *)
Drops == Len(source["event"]) >= SourceCap \/ quota["event"] = 0

PostEvent(w) ==
    /\ sends[w] # <<>> /\ Head(sends[w]) = "event"
    /\ \E h \in handling[w] :
          \/ Enter(h.msg.device, "event")
          \/ Drops /\ UNCHANGED <<source, accepted, quota>>
    /\ Sent(w)
    /\ UNCHANGED <<hand, queues, handling, toCore, clients, reporting, begun>>

Finish(w) ==
    /\ handling[w] # {} /\ sends[w] = <<>>
    /\ handling' = [handling EXCEPT ![w] = {}]
    /\ UNCHANGED <<channels, sends, toCore, clients, reporting, counts>>

Work(w) ==
    (\E k \in Kinds : Begin(w, k)) \/ SendCommand(w) \/ TellClients(w) \/ PostEvent(w) \/ Finish(w)

-----------------------------------------------------------------------------
(* The helper gives a command up when the core does not take it for a      *)
(* second; the distributor takes what is for the clients.                  *)
HelperReads ==
    /\ helper = 0 /\ out > 0
    /\ helper' = 1 /\ out' = out - 1
    /\ UNCHANGED <<channels, workers, actual, clients, reporting, counts>>

HelperPasses ==
    /\ helper = 1 /\ actual < ActualCap
    /\ helper' = 0 /\ actual' = actual + 1
    /\ UNCHANGED <<channels, workers, out, clients, reporting, counts>>

GivesUpNever == FALSE  \* mutant: no timeout
GivesUp == actual = ActualCap

HelperDrops ==
    /\ helper = 1 /\ GivesUp
    /\ helper' = 0
    /\ UNCHANGED <<channels, workers, out, actual, clients, reporting, counts>>

Help == HelperReads \/ HelperPasses \/ HelperDrops

DistributorTakes ==
    /\ clients > 0 /\ clients' = clients - 1
    /\ UNCHANGED <<channels, workers, toCore, reporting, counts>>

Next ==
    \/ \E d \in Devices : ClientSets(d) \/ TimerPosts(d) \/ CoreBegins(d)
    \/ CoreReads \/ CoreReports
    \/ \E k \in Kinds : Dispatch(k)
    \/ \E w \in Workers : Work(w)
    \/ Help \/ DistributorTakes

Spec == Init /\ [][Next]_vars

(* Every goroutine runs, the core's thread among them.  Nobody must send.  *)
Fairness ==
    /\ \A k \in Kinds : WF_vars(Dispatch(k))
    /\ \A w \in Workers : WF_vars(Work(w))
    /\ WF_vars(Help) /\ WF_vars(DistributorTakes) /\ WF_vars(CoreReports)

LiveSpec == Spec /\ Fairness

-----------------------------------------------------------------------------
(* What a correct pool must keep.                                          *)

(* Every variable keeps its type; no channel holds more than it can.       *)
TypeOK ==
    /\ source \in [Kinds -> Seq(Numbered)] /\ \A k \in Kinds : Len(source[k]) <= SourceCap
    /\ hand \in [Kinds -> Seq(Numbered)] /\ \A k \in Kinds : Len(hand[k]) <= 1
    /\ queues \in [Workers -> [Kinds -> Seq(Numbered)]]
    /\ \A w \in Workers, k \in Kinds : Len(queues[w][k]) <= QueueCap
    /\ handling \in [Workers -> SUBSET [kind : Kinds, msg : Numbered]]
    /\ sends \in [Workers -> Seq(Places)]
    /\ out \in 0..OutCap /\ helper \in 0..1 /\ actual \in 0..ActualCap
    /\ clients \in 0..ClientsCap
    /\ reporting \in SUBSET Devices
    /\ accepted \in [Devices -> [Kinds -> Nat]] /\ quota \in [Kinds -> Nat]
    /\ begun \in [Devices -> [Kinds -> Nat]]

(* The pool implements DeviceOrder (parameter-manager.go:254, "Same        *)
(* deviceID always routes to the same worker, so per-device ordering is    *)
(* preserved"): a device's messages are those of the worker it maps to.    *)
Running ==
    [d \in Devices |->
       {<<h.kind, h.msg.number>> :
           h \in {h \in UNION {handling[w] : w \in Workers} : h.msg.device = d}}]
Order == INSTANCE DeviceOrder WITH running <- Running
KeepsDeviceOrder == Order!Spec

(* Time and again everything that was accepted is handled: full channels   *)
(* delay the pool, the clients and the core, but never for good, although  *)
(* the core may have stopped reading, or be waiting to report while the    *)
(* pool waits for it to read (parameter-manager.go:224, "Helper Routine to *)
(* ensure we do not block the manager on core blocking").                  *)
AllHandled ==
    /\ begun = accepted
    /\ \A w \in Workers : handling[w] = {}
Drains == []<>AllHandled
=============================================================================
