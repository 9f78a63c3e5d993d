------------------------------ MODULE Registry ------------------------------
(* The parameter registry: what a core declares before its first device    *)
(* (models, parameters and their options), the name tables fixed then, and *)
(* the devices that goroutines of the core register while it runs.  The    *)
(* declarations are the straight line code of main, one step each; the     *)
(* calls that register devices interleave at every lock they release.      *)
EXTENDS Naturals, Sequences, FiniteSets

CONSTANTS
    Models,            \* ids a core passes to RegisterModel
    ModelAutoIDs,      \* the registry's option to count ids up
    Names,             \* parameter names
    Link,              \* the names whose GenericType is ConnectionState
    HashOf,            \* idFromName
    Declarations,      \* the parameters a core may register
    DeviceIds,         \* device ids passed to RegisterDevice; 0: assign one
    Callers,           \* goroutines that register devices
    MaxModels,         \* bound on the models, the generic one included
    MaxDeclarations,   \* bound on the parameters registered
    MaxDevices         \* bound on the devices before one more id is assigned

Connection == "connection"
Flags == {"incpass", "exclude", "valpass", "smooth"}
Options == Flags \cup {"valid", "unavailable"}

ASSUME NamesAssumption ==
    /\ Connection \in Link /\ Link \subseteq Names
    /\ HashOf \in [Names -> Nat \ {0}]
ASSUME DeclarationsAssumption ==
    /\ Models \subseteq Nat
    /\ Declarations \subseteq [model: Nat, name: Names, id: Nat, options: Seq(Options)]
    /\ DeviceIds \subseteq Nat /\ MaxDeclarations \in Nat /\ MaxDevices \in Nat
(* Two names never have one id: no explicit id is another name's id or     *)
(* hash, and the hashes of the names differ.  1 is the id of the automatic *)
(* connection parameter.                                                   *)
IdsOf(n) ==
    {HashOf[n]}
        \cup ({x.id : x \in {y \in Declarations : y.name = n}} \ {0})
        \cup (IF n = Connection THEN {1} ELSE {})
ASSUME IdsAssumption ==
    \A n1, n2 \in Names : n1 # n2 => IdsOf(n1) \cap IdsOf(n2) = {}

VARIABLES
    details,           \* parameterDetail: model -> id -> name
    applied,           \* the registration options, in the order applied
    count,             \* parameters registered, for the bound
    modelsDone, parametersDone, connectionExists,
    cache,             \* cachedIDMap, cachedNameMap: model -> id -> name
    infos,             \* deviceInfos: device -> its model
    states,            \* parameterValue: device -> id -> initial buffer
    call,              \* per goroutine, what is left of its call
    fatal,             \* log.Fatal has ended the process
    contested,         \* history: devices not registered yet that two calls
                       \* were about at once
    disturbed          \* history: those a ReRegisterDevice was clearing then

declared == <<details, applied, count, modelsDone, connectionExists>>
devices == <<infos, states>>
history == <<contested, disturbed>>
vars == <<declared, parametersDone, cache, devices, call, fatal, history>>

Idle == [at |-> "idle"]
NoCache == << >>

Put(f, k, v) == [x \in DOMAIN f \cup {k} |-> IF x = k THEN v ELSE f[x]]
Drop(f, k) == [x \in DOMAIN f \ {k} |-> f[x]]

Init ==
    /\ details = [m \in {0} |-> << >>]
    /\ applied = << >>
    /\ count = 0
    /\ modelsDone = FALSE /\ parametersDone = FALSE /\ connectionExists = FALSE
    /\ cache = NoCache
    /\ infos = << >>
    /\ states = << >>
    /\ call = [c \in Callers |-> Idle]
    /\ fatal = FALSE
    /\ contested = {} /\ disturbed = {}

Fatal ==
    /\ fatal' = TRUE
    /\ UNCHANGED <<declared, parametersDone, cache, devices, call, history>>

-----------------------------------------------------------------------------
(* RegisterModel.  An id that is taken is refused or, with ModelAutoIDs,   *)
(* replaced by the number of models.                                       *)
AddModel(m) ==
    /\ details' = Put(details, m, << >>)
    /\ UNCHANGED <<applied, count, modelsDone, connectionExists,
                   parametersDone, cache, devices, call, fatal, history>>

Taken(m) == m \in DOMAIN details

RegisterModel(m) ==
    /\ Cardinality(DOMAIN details) < MaxModels
    /\ IF modelsDone \/ (Taken(m) /\ ~ModelAutoIDs)
         THEN Fatal
         ELSE AddModel(IF Taken(m) THEN Cardinality(DOMAIN details) ELSE m)

-----------------------------------------------------------------------------
(* parameterIDByName: 0 when the model has no such parameter.              *)
IdByName(m, n) ==
    LET named == {p \in DOMAIN details[m] : details[m][p] = n}
    IN  IF named = {} THEN 0 ELSE CHOOSE p \in named : TRUE

(* Broken: an explicit id wins over the id of the name.                    *)
SpecificIdOwn(x) == IF x.id = 0 THEN HashOf[x.name] ELSE x.id

(* The id of a generic declaration, and of one for a model: an explicit id *)
(* is overruled by the one the name has in the generic model.              *)
GenericId(x) == IF x.id = 0 THEN HashOf[x.name] ELSE x.id
SpecificId(x) == IF IdByName(0, x.name) # 0 THEN IdByName(0, x.name) ELSE GenericId(x)

Apply(x, p) ==
    applied' = applied \o [i \in DOMAIN x.options |->
                             [model |-> x.model, id |-> p, option |-> x.options[i]]]

(* RegisterParameter for the generic model adds the parameter to every one.*)
AddGeneric(x) ==
    LET p == GenericId(x) IN
    /\ details' = [m \in DOMAIN details |-> Put(details[m], p, x.name)]
    /\ Apply(x, p)
    /\ connectionExists' = (connectionExists \/ x.name \in Link)

(* RegisterParameter for one model adds it there, and to the generic model *)
(* when the name is new; it then returns before the connection is noted.   *)
AddSpecific(x) ==
    LET new == IdByName(0, x.name) = 0
        p == SpecificId(x)
        added == [details EXCEPT ![x.model] = Put(@, p, x.name)]
    IN
    /\ details' = IF new THEN [added EXCEPT ![0] = Put(@, p, x.name)] ELSE added
    /\ Apply(x, p)
    /\ connectionExists' = (connectionExists \/ (~new /\ x.name \in Link))

(* Broken: parameters are accepted after the first device.                 *)
RefusedByNameOnly(x) ==
    \/ x.model = 0 /\ IdByName(0, x.name) # 0
    \/ x.model # 0 /\ x.model \notin DOMAIN details

(* A second generic parameter of a name, or an unknown model, is fatal.    *)
Refused(x) ==
    \/ parametersDone
    \/ x.model = 0 /\ IdByName(0, x.name) # 0
    \/ x.model # 0 /\ x.model \notin DOMAIN details

RegisterParameter(x) ==
    /\ count < MaxDeclarations
    /\ IF Refused(x)
         THEN Fatal
         ELSE /\ IF x.model = 0 THEN AddGeneric(x) ELSE AddSpecific(x)
              /\ modelsDone' = TRUE
              /\ count' = count + 1
              /\ UNCHANGED <<parametersDone, cache, devices, call, fatal, history>>

(* UnregisterParameterForModel.                                            *)
Unregister(m, n) ==
    IF parametersDone \/ m = 0 \/ ~Taken(m) \/ IdByName(m, n) = 0
      THEN Fatal
      ELSE /\ details' = [details EXCEPT ![m] = Drop(@, IdByName(m, n))]
           /\ UNCHANGED <<applied, count, modelsDone, connectionExists,
                          parametersDone, cache, devices, call, fatal, history>>

-----------------------------------------------------------------------------
(* The initial buffer of a parameter: the options given for the model and  *)
(* for the generic one.  A model without flags has the generic ones; else  *)
(* these are appended to its own up to the first that is there already.    *)
Applied == {applied[i] : i \in DOMAIN applied}
Given(m, p, o) == [model |-> m, id |-> p, option |-> o] \in Applied
GivenFlags(m, p) ==
    SelectSeq(applied, LAMBDA a : a.model = m /\ a.id = p /\ a.option \in Flags)

Merged(own, generic) ==
    LET has == {own[i].option : i \in DOMAIN own}
        first(i) == generic[i].option \notin has \cup {generic[j].option : j \in 1..(i - 1)}
    IN  IF own = << >>
          THEN {generic[i].option : i \in DOMAIN generic}
          ELSE has \cup {generic[i].option : i \in {k \in DOMAIN generic : \A j \in 1..k : first(j)}}

InitialBuffer(m, p) ==
    [valid     |-> Given(m, p, "valid") \/ Given(0, p, "valid"),
     available |-> ~(Given(m, p, "unavailable") \/ Given(0, p, "unavailable")),
     smoothed  |-> Given(m, p, "smooth") \/ Given(0, p, "smooth"),
     flags     |-> IF m = 0 THEN Merged(<< >>, GivenFlags(0, p))
                            ELSE Merged(GivenFlags(m, p), GivenFlags(0, p))]

(* Broken: every device gets the parameters of the generic model.          *)
BuffersOfGeneric(m) == [p \in DOMAIN details[0] |-> InitialBuffer(m, p)]

Buffers(m) == [p \in DOMAIN details[m] |-> InitialBuffer(m, p)]

-----------------------------------------------------------------------------
(* A call that is at one of some stages.                                   *)
InCall(c, stages) == call[c] # Idle /\ call[c].at \in stages
Clearing == {"clear", "erase"}
Closing == {"connect", "auto", "add", "cache", "complete"}
Stages == Clearing \cup {"begin"} \cup Closing \cup {"check", "publish", "store"}

At(c, at, d, m) == call' = [call EXCEPT ![c] = [at |-> at, device |-> d, model |-> m]]
Moves(c, at) == At(c, at, call[c].device, call[c].model)
Done(c) == call' = [call EXCEPT ![c] = Idle]

(* Call c comes to be about device d.  Nothing prevents another call about *)
(* it; that is recorded unless the device is registered, for then both     *)
(* calls are refused.                                                      *)
About(d, c) == \E o \in Callers \ {c} : call[o] # Idle /\ call[o].device = d
Cleared(d, c) == \E o \in Callers \ {c} : InCall(o, Clearing) /\ call[o].device = d
Records(new, torn) == contested' = contested \cup new /\ disturbed' = disturbed \cup torn

Starts(c, at, d, m) ==
    LET both == d # 0 /\ d \notin DOMAIN infos /\ About(d, c)
    IN  /\ call[c] = Idle
        /\ d = 0 => Cardinality(DOMAIN infos) < MaxDevices
        /\ At(c, at, d, m)
        /\ Records(IF both THEN {d} ELSE {},
                   IF both /\ (at = "clear" \/ Cleared(d, c)) THEN {d} ELSE {})

-----------------------------------------------------------------------------
(* RegisterDevice.                                                         *)
RegisterDevice(c, d, m) ==
    /\ Starts(c, "begin", d, m)
    /\ UNCHANGED <<declared, parametersDone, cache, devices, fatal>>

(* RegisterDeviceWithModelName passes the generic model, whether it finds  *)
(* the name or not.                                                        *)
RegisterDeviceWithModelName(c, d) == RegisterDevice(c, d, 0)

(* Broken: the tables are fixed before the connection is registered, or it *)
(* is not registered at all.                                               *)
BeginCaching(c) ==
    /\ InCall(c, {"begin"})
    /\ Moves(c, IF parametersDone THEN "check" ELSE "connect")
    /\ cache' = IF cache = NoCache THEN details ELSE cache
    /\ UNCHANGED <<declared, parametersDone, devices, fatal, history>>
NeverConnect(c) ==
    /\ InCall(c, {"connect"})
    /\ Moves(c, "cache")
    /\ UNCHANGED <<declared, parametersDone, cache, devices, fatal, history>>

(* The first call ends the declarations; it takes no lock over the steps   *)
(* in which it does, so that the first calls of several goroutines may     *)
(* each take them, in any order.                                           *)
Begin(c) ==
    /\ InCall(c, {"begin"})
    /\ Moves(c, IF parametersDone THEN "check" ELSE "connect")
    /\ UNCHANGED <<declared, parametersDone, cache, devices, fatal, history>>

Connect(c) ==
    /\ InCall(c, {"connect"})
    /\ Moves(c, IF connectionExists THEN "cache" ELSE "auto")
    /\ UNCHANGED <<declared, parametersDone, cache, devices, fatal, history>>

(* The parameter it registers itself when the core declared no connection, *)
(* and RegisterParameter's checks, which another call may have come before.*)
AutoConnection == [model |-> 0, name |-> Connection, id |-> 1, options |-> <<"valid">>]

AutoRegister(c) ==
    /\ InCall(c, {"auto"})
    /\ IF Refused(AutoConnection)
         THEN Fatal
         ELSE /\ Moves(c, "add")
              /\ UNCHANGED <<declared, parametersDone, cache, devices, fatal, history>>

(* Its second locked section.                                              *)
AutoAdd(c) ==
    /\ InCall(c, {"add"})
    /\ AddGeneric(AutoConnection)
    /\ modelsDone' = TRUE
    /\ Moves(c, "cache")
    /\ UNCHANGED <<count, parametersDone, cache, devices, fatal, history>>

CacheIDMaps(c) ==
    /\ InCall(c, {"cache"})
    /\ cache' = IF cache = NoCache THEN details ELSE cache
    /\ Moves(c, "complete")
    /\ UNCHANGED <<declared, parametersDone, devices, fatal, history>>

Complete(c) ==
    /\ InCall(c, {"complete"})
    /\ parametersDone' = TRUE
    /\ Moves(c, "check")
    /\ UNCHANGED <<declared, cache, devices, fatal, history>>

(* Broken: one of the two checks is missing.                               *)
CheckModelOnly(c) ==
    /\ InCall(c, {"check"})
    /\ IF Taken(call[c].model) THEN Moves(c, "publish") ELSE Done(c)
    /\ UNCHANGED <<declared, parametersDone, cache, devices, fatal, history>>
CheckDeviceOnly(c) ==
    /\ InCall(c, {"check"})
    /\ IF call[c].device \notin DOMAIN infos THEN Moves(c, "publish") ELSE Done(c)
    /\ UNCHANGED <<declared, parametersDone, cache, devices, fatal, history>>

(* An unknown model and a device that exists are refused with an error.    *)
Check(c) ==
    /\ InCall(c, {"check"})
    /\ IF ~Taken(call[c].model) \/ call[c].device \in DOMAIN infos
         THEN Done(c)
         ELSE Moves(c, "publish")
    /\ UNCHANGED <<declared, parametersDone, cache, devices, fatal, history>>

AssignedId(d) == IF d = 0 THEN Cardinality(DOMAIN infos) + 1 ELSE d

(* A device without an id is assigned one, which may be in use.            *)
Publish(c) ==
    LET d == AssignedId(call[c].device)
        m == call[c].model
        both == call[c].device = 0 /\ (d \in DOMAIN infos \/ About(d, c))
    IN
    /\ InCall(c, {"publish"})
    /\ infos' = Put(infos, d, m)
    /\ At(c, "store", d, m)
    /\ Records(IF both THEN {d} ELSE {}, IF both /\ Cleared(d, c) THEN {d} ELSE {})
    /\ UNCHANGED <<declared, parametersDone, cache, states, fatal>>

(* The buffers are built before the device is published; nothing they are  *)
(* made from changes any more.                                             *)
Store(c) ==
    /\ InCall(c, {"store"})
    /\ states' = Put(states, call[c].device, Buffers(call[c].model))
    /\ Done(c)
    /\ UNCHANGED <<declared, parametersDone, cache, infos, fatal, history>>

-----------------------------------------------------------------------------
(* Broken: a device that exists is accepted, and cleared.                  *)
ReRegisterExisting(c, d, m) ==
    IF ~Taken(m)
      THEN call[c] = Idle /\ Fatal
      ELSE /\ Starts(c, "clear", d, m)
           /\ UNCHANGED <<declared, parametersDone, cache, devices, fatal>>

(* ReRegisterDevice refuses a device that exists, although it is meant for *)
(* one; else it clears what there is and registers the device.             *)
ReRegisterDevice(c, d, m) ==
    /\ d \notin DOMAIN infos
    /\ IF ~Taken(m)
         THEN call[c] = Idle /\ Fatal
         ELSE /\ Starts(c, "clear", d, m)
              /\ UNCHANGED <<declared, parametersDone, cache, devices, fatal>>

Clear(c) ==
    /\ InCall(c, {"clear"})
    /\ infos' = Drop(infos, call[c].device)
    /\ Moves(c, "erase")
    /\ UNCHANGED <<declared, parametersDone, cache, states, fatal, history>>

Erase(c) ==
    /\ InCall(c, {"erase"})
    /\ states' = Drop(states, call[c].device)
    /\ Moves(c, "begin")
    /\ UNCHANGED <<declared, parametersDone, cache, infos, fatal, history>>

(* A core declares before it registers devices: no declaration runs beside *)
(* a call that is ending them.                                             *)
Declare ==
    /\ \A c \in Callers : ~InCall(c, Closing)
    /\ \/ \E m \in Models : RegisterModel(m)
       \/ \E x \in Declarations : RegisterParameter(x)
       \/ \E m \in Models, n \in Names : Unregister(m, n)

CallNext(c) ==
    \/ \E d \in DeviceIds, m \in Models \cup {0} :
           RegisterDevice(c, d, m) \/ ReRegisterDevice(c, d, m)
    \/ \E d \in DeviceIds : RegisterDeviceWithModelName(c, d)
    \/ Begin(c) \/ Connect(c) \/ AutoRegister(c) \/ AutoAdd(c) \/ CacheIDMaps(c) \/ Complete(c)
    \/ Check(c) \/ Publish(c) \/ Store(c)
    \/ Clear(c) \/ Erase(c)

Next == ~fatal /\ (Declare \/ \E c \in Callers : CallNext(c))

Spec == Init /\ [][Next]_vars

-----------------------------------------------------------------------------
Tables == UNION {[S -> Names] : S \in SUBSET UNION {IdsOf(n) : n \in Names}}
InProgress(d) == \E c \in Callers : InCall(c, {"store"}) /\ call[c].device = d

(* The type of the state.                                                  *)
TypeOK ==
    /\ 0 \in DOMAIN details /\ DOMAIN details \subseteq Nat
    /\ \A m \in DOMAIN details : details[m] \in Tables
    /\ \A i \in DOMAIN applied :
           applied[i] \in [model: DOMAIN details, id: Nat \ {0}, option: Options]
    /\ count \in 0..MaxDeclarations
    /\ {modelsDone, parametersDone, connectionExists, fatal} \subseteq BOOLEAN
    /\ DOMAIN infos \subseteq Nat \ {0}
    /\ \A d \in DOMAIN infos : infos[d] \in DOMAIN details
    /\ \A c \in Callers :
           \/ call[c] = Idle
           \/ /\ call[c].at \in Stages
              /\ call[c].device \in Nat
              /\ call[c].model \in Nat
    /\ disturbed \subseteq contested

(* A name has one id, the one PID looks up in the generic model, in every  *)
(* model that has the parameter, and an id one name: values of one model's *)
(* device are never taken for another parameter of the core's.             *)
OneIdPerName ==
    \A m1, m2 \in DOMAIN details :
        \A p1 \in DOMAIN details[m1], p2 \in DOMAIN details[m2] :
            /\ (details[m1][p1] = details[m2][p2]) <=> (p1 = p2)
            /\ p1 \in DOMAIN details[0]

(* Once devices exist, PName, PID and GetNameMap answer from tables that   *)
(* are those of the registered parameters.                                 *)
CacheFresh == parametersDone => cache = details

(* What the workers read without the registry's lock, the declarations and *)
(* their options, is the same ever after a device was registered.  A       *)
(* second automatic connection is only written over itself.                *)
DetailsFrozen ==
    [][parametersDone => details' = details /\ Applied' = Applied]_vars

(* A client finds a connection state on every core that has devices.       *)
ConnectionDeclared == parametersDone => \E p \in DOMAIN details[0] : details[0][p] \in Link

(* A device with values has its information: looking up its model, which   *)
(* ends the process when it fails, never does (getModelID).  Two           *)
(* RegisterDevice calls for one device cannot break this, a                *)
(* ReRegisterDevice beside another call can: its clearing may take the     *)
(* information of the device the other one has just registered.            *)
StatesHaveInfo == DOMAIN states \subseteq DOMAIN infos \cup disturbed

(* Which parameters the value getters know, and which the others, which    *)
(* look the device's model up first (GetParameterOptions and the like).    *)
ModelOf(d) == IF d \in DOMAIN infos THEN infos[d] ELSE 0
HasValue(d, p) == d \in DOMAIN states /\ p \in DOMAIN states[d]
HasDetail(d, p) == p \in DOMAIN details[ModelOf(d)]

(* Once a device is registered, all getters know the same parameters of    *)
(* it, and every one by name, unless two calls raced to register it.       *)
GettersAgree ==
    \A d \in DOMAIN infos \ contested : ~InProgress(d) =>
        \A p \in UNION {IdsOf(n) : n \in Names} :
            /\ HasValue(d, p) <=> HasDetail(d, p)
            /\ HasValue(d, p) => p \in DOMAIN cache[ModelOf(d)]

(* A registered device keeps its model and its values, however many calls  *)
(* register it again ("registers a new Device"); but two that race to      *)
(* register it first may both succeed, and an assigned id may be in use.   *)
NothingReplaced ==
    [][\A d \in DOMAIN states \ contested : d \in DOMAIN states' /\ states'[d] = states[d]]_vars
=============================================================================
