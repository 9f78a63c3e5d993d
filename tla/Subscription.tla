---------------------------- MODULE Subscription ----------------------------
(* The server's side of Subscribe: the workers that publish parameter      *)
(* values and status messages on the watcher channel, the status cache,    *)
(* the distributor goroutine that copies each message into the channel of  *)
(* every subscriber, and the Subscribe calls, each a goroutine of its own. *)
(*                                                                         *)
(* muDistributor is a readers-writer lock: the distributor holds it for    *)
(* reading while it offers one message to all subscribers, and the calls   *)
(* take it for writing in one step.  Values are versions: a parameter's    *)
(* value is the number of times it was set.                                *)
EXTENDS Naturals, Sequences, FiniteSets, SequencesExt

CONSTANTS
    Params,       \* <<device, parameter>> pairs that are registered
    Ids,          \* those and the unknown ones clients ask for
    Sessions,     \* Subscribe calls; a slot is used once
    Identifiers,  \* values a call's x-ibeam-subscribeid metadata can carry
    NoIdentifier, \* the empty string, which a call may carry too
    Filters,      \* sequences of ids clients subscribe to
    Statuses,     \* status messages: [id, name], the name a sequence of its parts
    Severities,   \* error and warning
    MaxVersion, WatcherCap, ChanCap  \* bounds on values and channels

ASSUME SubscriptionAssumption ==
    /\ Params \subseteq Ids /\ Ids \subseteq Nat \X Nat
    /\ \A p \in Params : p[1] # 0 /\ p[2] # 0
    /\ Filters \subseteq Seq(Nat \X Nat)
    /\ \A f \in Filters : \A id \in Range(f) : id[1] # 0 /\ id[2] # 0 => id \in Ids
    /\ Statuses \subseteq [id : Nat \X Nat, name : Seq(STRING)]
    /\ {MaxVersion, WatcherCap, ChanCap} \subseteq Nat \ {0}
    /\ {"none", "resolve"} \cap Severities = {}

VARIABLES
    value,       \* value[p]: the version of p, 0 for an unknown parameter
    active,      \* activeStatusMessages: the severity of each status
    posting,     \* posting[d]: the status message device d's worker holds
    watcher,     \* serverClientsStream
    dist,        \* the distributor: phase, message, subscribers to do, too slow
    registered,  \* the keys of serverClientsDistributor
    filter,      \* SubscribeData.IDs
    queue,       \* the subscriber's channel
    closed,      \* SubscribeData.ChannelClosed
    call,        \* call[s]: where Subscribe call s is, and its local variables
    crashed,     \* a goroutine sent on a closed channel
    view, heard, shown,  \* what each client saw, heard, and shows as active
    since,       \* since[s][p]: the version when s began to be fed with p
    refilled     \* subscribers that were sent values read by another call

core == <<value, active, posting>>
subscribers == <<registered, filter, queue, closed>>
clients == <<view, heard, shown, since, refilled>>
vars == <<core, watcher, dist, subscribers, call, crashed, clients>>

Devices == {p[1] : p \in Params}
Workers == {0} \cup Devices \cup {st.id[1] : st \in Statuses}
Key(st) ==
    (IF st.id[1] = 0 THEN <<>>
     ELSE IF st.id[2] = 0 THEN <<"device", st.id[1]>>
     ELSE <<"device", st.id[1], "parameter", st.id[2]>>) \o st.name
Keys == {Key(st) : st \in Statuses}
Levels == Severities \cup {"none"}
Versions == 0..MaxVersion

NoMessage == [what |-> "nothing"]
ValueMessage(p, v) == [what |-> "value", id |-> p, version |-> v]
StatusMessage(st, type) == [what |-> "status", id |-> st.id, key |-> Key(st), type |-> type]
Messages ==
    [what : {"value"}, id : Ids, version : Versions]
    \cup {StatusMessage(st, type) : st \in Statuses, type \in Severities \cup {"resolve"}}

(* What the forms of a filter stand for; what a new filter adds to the old *)
(* one is the part of it at some places.                                   *)
OfDevice(d) == {p \in Params : p[1] = d}
NamesDevice(f) == \E i \in DOMAIN f : DOMAIN f = {i} /\ f[i][2] = 0
Added(f, old) == Restrict(f, {i \in DOMAIN f : f[i] \notin Range(old)})
Malformed(f) ==
    /\ ~(NamesDevice(f) /\ \A id \in Range(f) : id[1] # 0)
    /\ \E id \in Range(f) : id[1] = 0 \/ id[2] = 0

(* Get answers a request in units, each read under its device's lock.      *)
Units(f) ==
    IF f = <<>> THEN {OfDevice(d) : d \in Devices}
    ELSE IF NamesDevice(f) THEN {OfDevice(id[1]) : id \in Range(f)}
    ELSE {{id} : id \in Range(f)}

(* What the distributor lets through; a global status passes every filter, *)
(* a status of a device every parameter filter.                            *)
Global(m) == m.what = "status" /\ m.id = <<0, 0>>
Asked(f, p) == f = <<>> \/ (NamesDevice(f) /\ f[1][1] = p[1]) \/ p \in Range(f)
WantsListed(f, m) == m.id \in Range(f)  \* mutant: only what the list names
Wants(f, m) ==
    \/ Global(m)
    \/ /\ NamesDevice(f) => f[1][1] = m.id[1]
       /\ f # <<>> /\ f[1][2] # 0 /\ m.what = "value" => m.id \in Range(f)

Idle == [at |-> "idle", filter |-> <<>>, header |-> <<>>,
         units |-> {}, answer |-> {}, target |-> {}]
Resting == [phase |-> "idle", msg |-> NoMessage, todo |-> {}, slow |-> {}]

Init ==
    /\ value = [p \in Ids |-> IF p \in Params THEN 1 ELSE 0]
    /\ active = [k \in Keys |-> "none"]
    /\ posting = [d \in Workers |-> NoMessage]
    /\ watcher = <<>>
    /\ dist = Resting
    /\ registered = {}
    /\ filter = [s \in Sessions |-> <<>>]
    /\ queue = [s \in Sessions |-> <<>>]
    /\ closed = [s \in Sessions |-> FALSE]
    /\ call = [s \in Sessions |-> Idle]
    /\ crashed = FALSE
    /\ view = [s \in Sessions |-> [p \in Ids |-> 0]]
    /\ heard = view
    /\ shown = [s \in Sessions |-> active]
    /\ since = view
    /\ refilled = {}

-----------------------------------------------------------------------------
(* The workers.  A value changes and enters the watcher under the device's *)
(* lock, so for its readers in one step.                                   *)
Room == Len(watcher) < WatcherCap

OvertakingOthers(m) == <<m>> \o watcher  \* mutant: posts overtake each other
Posted(m) == Append(watcher, m)

Publish(p) ==
    /\ posting[p[1]] = NoMessage /\ Room
    /\ value[p] < MaxVersion
    /\ value' = [value EXCEPT ![p] = @ + 1]
    /\ watcher' = Posted(ValueMessage(p, value'[p]))
    /\ UNCHANGED <<active, posting, dist, subscribers, call, crashed, clients>>

(* handleStatusParam: the cache is changed under its own mutex, the        *)
(* message enters the watcher later.                                       *)
Hold(st, type) ==
    /\ posting[st.id[1]] = NoMessage
    /\ posting' = [posting EXCEPT ![st.id[1]] = StatusMessage(st, type)]
    /\ UNCHANGED <<value, watcher, dist, subscribers, call, crashed, clients>>

Raise(st, severity) ==
    /\ st.id[2] = 0 => active[Key(st)] = "none"
    /\ active' = [active EXCEPT ![Key(st)] = severity]
    /\ Hold(st, severity)

(* A resolved id takes every status with it whose key it is a prefix of.   *)
CoversItself(k) == {k}  \* mutant: only the status itself
Covers(k) == {l \in Keys : IsPrefix(k, l)}

Resolve(st) ==
    /\ \E k \in Covers(Key(st)) : active[k] # "none"
    /\ active' = [k \in Keys |-> IF k \in Covers(Key(st)) THEN "none" ELSE active[k]]
    /\ Hold(st, "resolve")

Post(d) ==
    /\ posting[d] # NoMessage /\ Room
    /\ watcher' = Posted(posting[d])
    /\ posting' = [posting EXCEPT ![d] = NoMessage]
    /\ UNCHANGED <<value, active, dist, subscribers, call, crashed, clients>>

Work ==
    \/ \E p \in Params : Publish(p)
    \/ \E st \in Statuses : (\E v \in Severities : Raise(st, v)) \/ Resolve(st)
    \/ \E d \in Workers : Post(d)

-----------------------------------------------------------------------------
(* The distributor.                                                        *)
TakeMessage ==
    /\ dist.phase = "idle" /\ watcher # <<>>
    /\ dist' = [phase |-> "loop", msg |-> Head(watcher), todo |-> registered, slow |-> {}]
    /\ watcher' = Tail(watcher)
    /\ UNCHANGED <<core, subscribers, call, crashed, clients>>

Skip(s) ==
    /\ closed[s] \/ ~Wants(filter[s], dist.msg)
    /\ dist' = [dist EXCEPT !.todo = @ \ {s}]
    /\ UNCHANGED queue

FitsOneMore(s) == Len(queue[s]) <= ChanCap  \* mutant: off by one
Fits(s) == Len(queue[s]) < ChanCap

Put(s) ==
    /\ ~closed[s] /\ Wants(filter[s], dist.msg) /\ Fits(s)
    /\ queue' = [queue EXCEPT ![s] = Append(@, dist.msg)]
    /\ dist' = [dist EXCEPT !.todo = @ \ {s}]

(* A slow client's stream will be ended, unless what it missed is global.  *)
TooSlowForgiven(s) == {}  \* mutant: the client stays connected
TooSlow(s) == IF Global(dist.msg) THEN {} ELSE {s}

TimeOut(s) ==
    /\ ~closed[s] /\ Wants(filter[s], dist.msg) /\ ~Fits(s)
    /\ dist' = [dist EXCEPT !.todo = @ \ {s}, !.slow = @ \cup TooSlow(s)]
    /\ UNCHANGED queue

Offer ==
    /\ dist.phase = "loop"
    /\ \E s \in dist.todo : Skip(s) \/ Put(s) \/ TimeOut(s)
    /\ UNCHANGED <<core, watcher, registered, filter, closed, call, crashed, clients>>

(* The read lock is released before the write lock is taken.               *)
EndRound ==
    /\ dist.phase = "loop" /\ dist.todo = {}
    /\ dist' = IF dist.slow = {} THEN Resting
               ELSE [Resting EXCEPT !.phase = "cleanup", !.slow = dist.slow]
    /\ UNCHANGED <<core, watcher, subscribers, call, crashed, clients>>

CleanedKeepsKey == registered  \* mutant: closed but not deleted
Cleaned == registered \ dist.slow
ClosedNone == closed  \* mutant: the channels are not closed
ClosedSlow == [s \in Sessions |-> closed[s] \/ s \in dist.slow]

Cleanup ==
    /\ dist.phase = "cleanup"
    /\ registered' = Cleaned
    /\ closed' = ClosedSlow
    /\ dist' = Resting
    /\ UNCHANGED <<core, watcher, filter, queue, call, crashed, clients>>

Distribute == TakeMessage \/ Offer \/ EndRound \/ Cleanup

-----------------------------------------------------------------------------
(* The Subscribe calls.                                                    *)
WriteLock == dist.phase # "loop"
At(s, place) == call[s].at = place
Goto(s, place) == call' = [call EXCEPT ![s].at = place]

(* Get for the ids f on behalf of a new stream, or of subscriber t.        *)
Get(s, f, t) ==
    call' = [call EXCEPT ![s].at = IF Malformed(f) THEN "ended" ELSE "get",
                         ![s].units = IF Malformed(f) THEN {} ELSE Units(f),
                         ![s].target = t]

(* A call carries the metadata or not; one without it is stored under the  *)
(* empty identifier, like one whose metadata is empty.                     *)
Headers == {<<>>} \cup {<<i>> : i \in Identifiers}
Identifier(s) == IF call[s].header = <<>> THEN NoIdentifier ELSE call[s].header[1]

Call(s, f, h) ==
    /\ At(s, "idle")
    /\ call' = [call EXCEPT ![s].at = "lookup", ![s].filter = f, ![s].header = h]
    /\ UNCHANGED <<core, watcher, dist, subscribers, crashed, clients>>

Sharing(s) == {t \in registered : Identifier(t) = Identifier(s)}
Reusable(s) == {t \in Sharing(s) : call[s].header # <<>> /\ ~closed[t]}

(* The old stream gets the new filter, and the values it did not have.     *)
Resubscribe(s, t) ==
    /\ At(s, "lookup") /\ WriteLock
    /\ t \in Reusable(s)
    /\ LET f == call[s].filter
           new == Added(f, filter[t])
       IN /\ filter' = [filter EXCEPT ![t] = f]
          /\ since' = [since EXCEPT ![t] = [p \in Ids |->
                          IF Asked(filter[t], p) THEN @[p] ELSE value[p]]]
          /\ refilled' = refilled \cup {t}
          /\ IF new = <<>> THEN Goto(s, "ended") ELSE Get(s, new, {t})
    /\ UNCHANGED <<core, watcher, dist, registered, queue, closed, crashed, view, heard, shown>>

NewStream(s) ==
    /\ At(s, "lookup")
    /\ call[s].header # <<>> => WriteLock
    /\ Reusable(s) = {}
    /\ registered' = IF call[s].header = <<>> THEN registered
                     ELSE registered \ Sharing(s)
    /\ Get(s, call[s].filter, {})
    /\ UNCHANGED <<core, watcher, dist, filter, queue, closed, crashed, clients>>

ReadUnit(s) ==
    /\ At(s, "get")
    /\ \E u \in call[s].units :
          LET rest == call[s].units \ {u}
              next == IF call[s].target = {} THEN "register" ELSE "forward"
          IN call' = [call EXCEPT ![s].units = rest,
                                  ![s].answer = @ \cup {<<p, value[p]>> : p \in u},
                                  ![s].at = IF rest = {} THEN next ELSE "get"]
    /\ UNCHANGED <<core, watcher, dist, subscribers, crashed, clients>>

(* `foundChan <- param`: without the lock, and waiting for room.           *)
ForwardDone(s) ==
    /\ At(s, "forward") /\ call[s].answer = {}
    /\ Goto(s, "ended")
    /\ UNCHANGED <<core, watcher, dist, subscribers, crashed, clients>>

Forward(s) ==
    /\ At(s, "forward")
    /\ \E a \in call[s].answer, t \in call[s].target :
          IF closed[t]
          THEN crashed' = TRUE /\ UNCHANGED <<queue, call>>
          ELSE /\ Fits(t)
               /\ queue' = [queue EXCEPT ![t] = Append(@, [ValueMessage(a[1], a[2])
                                                             EXCEPT !.what = "reread"])]
               /\ call' = [call EXCEPT ![s].answer = @ \ {a}]
               /\ UNCHANGED crashed
    /\ UNCHANGED <<core, watcher, dist, registered, filter, closed, clients>>

Register(s) ==
    /\ At(s, "register") /\ WriteLock
    /\ registered' = registered \cup {s}
    /\ filter' = [filter EXCEPT ![s] = call[s].filter]
    /\ since' = [since EXCEPT ![s] = value]
    /\ Goto(s, "replay")
    /\ UNCHANGED <<core, watcher, dist, queue, closed, crashed, view, heard, shown, refilled>>

(* The snapshot, then every active status, whatever the filter.            *)
ActiveStatuses == active

Replay(s) ==
    /\ At(s, "replay")
    /\ view' = [view EXCEPT ![s] = [p \in Ids |->
                    IF \E v \in Versions : <<p, v>> \in call[s].answer
                    THEN CHOOSE v \in Versions : <<p, v>> \in call[s].answer
                    ELSE @[p]]]
    /\ shown' = [shown EXCEPT ![s] = ActiveStatuses]
    /\ call' = [call EXCEPT ![s].at = "stream", ![s].answer = {}]
    /\ UNCHANGED <<core, watcher, dist, subscribers, crashed, heard, since, refilled>>

ShowStatus(shows, m) ==
    IF m.type = "resolve"
    THEN [k \in Keys |-> IF IsPrefix(m.key, k) THEN "none" ELSE shows[k]]
    ELSE [shows EXCEPT ![m.key] = m.type]

Receive(s) ==
    /\ At(s, "stream") /\ queue[s] # <<>>
    /\ queue' = [queue EXCEPT ![s] = Tail(@)]
    /\ LET m == Head(queue[s])
       IN CASE m.what = "status" ->
                  shown' = [shown EXCEPT ![s] = ShowStatus(@, m)] /\ UNCHANGED <<view, heard>>
            [] m.what = "value" ->
                  /\ view' = [view EXCEPT ![s][m.id] = m.version]
                  /\ heard' = [heard EXCEPT ![s][m.id] = m.version]
                  /\ UNCHANGED shown
            [] OTHER ->
                  view' = [view EXCEPT ![s][m.id] = m.version] /\ UNCHANGED <<heard, shown>>
    /\ UNCHANGED <<core, watcher, dist, registered, filter, closed, call, crashed, since, refilled>>

(* The client goes, or the stream finds its channel closed and drained.    *)
Disconnect(s) ==
    /\ At(s, "stream") /\ ~(closed[s] /\ queue[s] = <<>>)
    /\ Goto(s, "unregister")
    /\ UNCHANGED <<core, watcher, dist, subscribers, crashed, clients>>

EndOfStream(s) ==
    /\ At(s, "stream") /\ closed[s] /\ queue[s] = <<>>
    /\ Goto(s, "unregister")
    /\ UNCHANGED <<core, watcher, dist, subscribers, crashed, clients>>

Unregister(s) ==
    /\ At(s, "unregister") /\ WriteLock
    /\ registered' = registered \ {s}
    /\ Goto(s, "close")
    /\ UNCHANGED <<core, watcher, dist, filter, queue, closed, crashed, clients>>

Close(s) ==
    /\ At(s, "close")
    /\ closed' = [closed EXCEPT ![s] = TRUE]
    /\ Goto(s, "ended")
    /\ UNCHANGED <<core, watcher, dist, registered, filter, queue, crashed, clients>>

Subscribe(s) ==
    \/ NewStream(s) \/ (\E t \in registered : Resubscribe(s, t))
    \/ ReadUnit(s) \/ Forward(s) \/ ForwardDone(s)
    \/ Register(s) \/ Replay(s) \/ Receive(s) \/ EndOfStream(s) \/ Unregister(s) \/ Close(s)

Ask(s) == \E f \in Filters, h \in Headers : Call(s, f, h)

Next ==
    /\ ~crashed
    /\ \/ Work
       \/ Distribute
       \/ \E s \in Sessions : Ask(s) \/ Subscribe(s) \/ Disconnect(s)

Spec == Init /\ [][Next]_vars

-----------------------------------------------------------------------------
(* What a correct server must keep.                                        *)

(* Every variable keeps its type; no channel holds more than it can.       *)
Places == {"idle", "lookup", "get", "register", "replay", "stream",
           "unregister", "close", "forward", "ended"}
TypeOK ==
    /\ value \in [Ids -> Versions]
    /\ active \in [Keys -> Levels]
    /\ posting \in [Workers -> Messages \cup {NoMessage}]
    /\ watcher \in Seq(Messages) /\ Len(watcher) <= WatcherCap
    /\ dist.phase \in {"idle", "loop", "cleanup"}
    /\ dist.todo \subseteq registered /\ dist.slow \subseteq Sessions
    /\ dist.msg \in Messages \cup {NoMessage}
    /\ registered \subseteq Sessions
    /\ \A s \in Sessions :
          /\ Len(queue[s]) <= ChanCap
          /\ call[s].at \in Places
          /\ call[s].answer \subseteq Ids \X Versions
    /\ view \in [Sessions -> [Ids -> Versions]]
    /\ heard \in [Sessions -> [Ids -> Versions]]
    /\ shown \in [Sessions -> [Keys -> Levels]]

(* A subscriber the distributor may write to has an open channel: however  *)
(* timeouts and disconnects overlap, the distributor never sends on a      *)
(* closed one, which its recover would survive only by ending it for all   *)
(* clients (ibeam-corelib.go:739, "Add panic recovery to prevent crashes").*)
RegisteredIsOpen ==
    /\ \A s \in registered : ~closed[s]
    /\ dist.phase = "loop" => dist.todo \subseteq registered

(* A value published after a subscriber began to be fed with its parameter *)
(* has reached the client, or is still in one of the channels or in the    *)
(* distributor's hand: no overlap of registration, filter change, slow     *)
(* neighbours and clean-up loses it.                                       *)
OnItsWay(s, p) ==
    LET m == ValueMessage(p, value[p])
    IN \/ heard[s][p] = value[p]
       \/ m \in Range(queue[s])
       \/ dist.phase = "loop" /\ dist.msg = m /\ s \in dist.todo
       \/ m \in Range(watcher)
NothingLost ==
    \A s \in registered \ dist.slow, p \in Params :
       Asked(filter[s], p) /\ value[p] > since[s][p] => OnItsWay(s, p)

(* Nothing is on its way to s.                                             *)
Quiet(s) ==
    /\ watcher = <<>> /\ dist.phase = "idle" /\ \A d \in Workers : posting[d] = NoMessage
    /\ s \in registered /\ At(s, "stream") /\ queue[s] = <<>>

(* The prefixes of errorcache.go:27 keep the keys of devices apart; a      *)
(* global status has none, and nothing keeps its name from being a prefix  *)
(* of a device's keys.                                                     *)
Apart(st) == \A g \in Statuses : g.id[1] = 0 => ~IsPrefix(Key(g), Key(st))

(* When nothing is on its way, a client shows exactly the statuses that    *)
(* are active for the devices it subscribed to: the snapshot it got when   *)
(* it came and the messages since, of which some overtake the snapshot,    *)
(* add up to the cache (errorcache.go, "Keep a list of active              *)
(* notifications").                                                        *)
StatusesAgree ==
    \A s \in Sessions \ refilled, st \in Statuses :
       /\ Quiet(s) /\ st.id[1] # 0 /\ Apart(st)
       /\ NamesDevice(filter[s]) => filter[s][1][1] = st.id[1]
       => shown[s][Key(st)] = active[Key(st)]

(* When nothing is on its way, a client has the current value of every     *)
(* parameter it subscribed to (ibeam-corelib.go:465, "Create dist first to *)
(* catch incoming params").                                                *)
UpToDate ==
    \A s \in Sessions, p \in Params :
       Quiet(s) /\ Asked(filter[s], p) => view[s][p] = value[p]

(* The subscription implements the feed.                                   *)
Promise == INSTANCE Feed WITH latest <- value
FeedsClients == Promise!Spec

-----------------------------------------------------------------------------
(* The distributor, the workers' posts and the calls' goroutines run, and  *)
(* clients read what is sent to them.  Nobody must subscribe or disconnect.*)
(* Strong fairness where they wait: a Go channel serves blocked senders in *)
(* turn, and a waiting writer keeps new readers from a sync.RWMutex.       *)
Fairness ==
    /\ WF_vars(~crashed /\ Distribute)
    /\ \A d \in Workers : SF_vars(~crashed /\ Post(d))
    /\ \A s \in Sessions : SF_vars(~crashed /\ Subscribe(s))

LiveSpec == Spec /\ Fairness

(* What is published reaches every client that still wants it; one too     *)
(* slow for the distributor is disconnected instead of being left with a   *)
(* stream that silently lacks messages (ibeam-corelib.go:524, "in such a   *)
(* case we also need to kill client connection").                          *)
Owed(s, p) == s \in registered /\ Asked(filter[s], p) /\ value[p] > since[s][p]
Delivers ==
    \A s \in Sessions, p \in Params :
       Owed(s, p) ~> \/ heard[s][p] = value[p] \/ ~Asked(filter[s], p)
                     \/ At(s, "ended") \/ crashed
=============================================================================
