--------------------------- MODULE RegistryProofs ---------------------------
(***************************************************************************)
(* Proofs about Registry, for every set of models, names, declarations,    *)
(* devices and goroutines, and every choice of ids the assumptions allow.  *)
(*                                                                         *)
(* DeclarationsInv is about the declarations.  Its core is Sound: the      *)
(* generic model has every parameter of every model, under one id, and an  *)
(* id is one of the name's own, so that (IdsAssumption) no other name can  *)
(* take it.  ClosingInv is about the calls that end the declarations, any  *)
(* number of them at once: the tables are fixed only when there is a       *)
(* connection, and a late automatic connection is written over itself.     *)
(* CallsInv is about the devices: what each call has established so far,   *)
(* for the devices no two calls raced to register.  DeclaredTypes and      *)
(* CallTypes are what TypeOK needs beyond them.                            *)
(***************************************************************************)
EXTENDS Registry, FiniteSetTheorems, SequenceTheorems, TLAPS

Sound(D) ==
    /\ 0 \in DOMAIN D
    /\ \A m \in DOMAIN D : \A p \in DOMAIN D[m] :
           /\ D[m][p] \in Names /\ p \in IdsOf(D[m][p])
           /\ p \in DOMAIN D[0] /\ D[0][p] = D[m][p]
    /\ \A p, q \in DOMAIN D[0] : D[0][p] = D[0][q] => p = q

Named(D, n) == \E p \in DOMAIN D[0] : D[0][p] = n

DeclarationsInv ==
    /\ Sound(details)
    /\ parametersDone \in BOOLEAN /\ connectionExists \in BOOLEAN
    /\ connectionExists => modelsDone /\ \E n \in Link : Named(details, n)
    /\ ~modelsDone => \A m \in DOMAIN details : DOMAIN details[m] = {}

(* The types.                                                               *)
Ids == UNION {IdsOf(n) : n \in Names}
IsTable(f) == f = [p \in DOMAIN f |-> f[p]]
AppliedTo(D) == [model: DOMAIN D, id: Ids, option: Options]

DeclaredTypes ==
    /\ IsFiniteSet(DOMAIN details) /\ DOMAIN details \subseteq Nat
    /\ IsTable(details) /\ \A m \in DOMAIN details : IsTable(details[m])
    /\ applied \in Seq(AppliedTo(details))
    /\ count \in 0..MaxDeclarations
    /\ modelsDone \in BOOLEAN

CallTypes ==
    /\ IsFiniteSet(DOMAIN infos) /\ DOMAIN infos \subseteq Nat \ {0}
    /\ DOMAIN call = Callers /\ fatal \in BOOLEAN
    /\ \A c \in Callers :
           \/ call[c] = Idle
           \/ /\ call[c].at \in Stages
              /\ call[c].device \in Nat
              /\ call[c].model \in Nat

(* The calls that end the declarations.                                     *)
ConnectionOption == [model |-> 0, id |-> 1, option |-> "valid"]
ConnectionAdded ==
    /\ \A m \in DOMAIN details : 1 \in DOMAIN details[m] /\ details[m][1] = Connection
    /\ ConnectionOption \in Applied

OfClosing(c) ==
    /\ InCall(c, {"auto", "add"}) /\ connectionExists => ConnectionAdded
    /\ InCall(c, {"add"}) /\ Named(details, Connection) => ConnectionAdded
    /\ InCall(c, {"cache"}) => connectionExists
    /\ InCall(c, {"complete"}) => cache # NoCache

ClosingInv ==
    /\ cache # NoCache => cache = details /\ connectionExists
    /\ cache # NoCache /\ ~parametersDone => \E c \in Callers : InCall(c, {"complete"})
    /\ parametersDone => cache # NoCache
    /\ \A c \in Callers : OfClosing(c)

(* The calls that register devices.                                         *)
Apart ==
    \A c1, c2 \in Callers :
        LET d == call[c1].device IN
        c1 # c2 /\ call[c1] # Idle /\ call[c2] # Idle /\ call[c2].device = d /\ d # 0 =>
            /\ d \in DOMAIN infos \cup contested
            /\ InCall(c1, Clearing) => d \in disturbed
            /\ InCall(c1, {"store"}) /\ InCall(c2, {"store"}) => d \in contested

OfCall(c) ==
    LET d == call[c].device IN
    /\ InCall(c, {"check", "publish", "store"}) => parametersDone
    /\ InCall(c, {"publish", "store"}) => call[c].model \in DOMAIN details
    /\ InCall(c, Clearing) => d \notin DOMAIN infos \ disturbed
    /\ InCall(c, {"publish"}) => d \notin DOMAIN infos \ contested
    /\ InCall(c, {"store"}) =>
           /\ d # 0 /\ d \in DOMAIN infos \cup disturbed
           /\ d \notin contested => infos[d] = call[c].model /\ d \notin DOMAIN states

Stored(d) == d \in DOMAIN states /\ DOMAIN states[d] = DOMAIN details[infos[d]]

CallsInv ==
    /\ disturbed \subseteq contested
    /\ Apart
    /\ \A c \in Callers : OfCall(c)
    /\ DOMAIN states \subseteq DOMAIN infos \cup disturbed
    /\ DOMAIN infos # {} => parametersDone
    /\ \A d \in DOMAIN infos \ contested : InProgress(d) \/ Stored(d)
    /\ \A d \in DOMAIN infos : infos[d] \in DOMAIN details

-----------------------------------------------------------------------------
(* Lemmas about the operators on the declarations.                          *)

(* An id belongs to one name.                                               *)
LEMMA IdOfOneName ==
    ASSUME NEW n1 \in Names, NEW n2 \in Names, NEW p, p \in IdsOf(n1), p \in IdsOf(n2)
    PROVE  n1 = n2
  BY IdsAssumption

(* Every id of a name is a number other than 0.                             *)
LEMMA IdsAreSet ==
    ASSUME NEW n \in Names
    PROVE  0 \notin IdsOf(n)
  BY NamesAssumption DEF IdsOf

(* The id a declaration is given is one of its name's.                      *)
LEMMA GenericIdIsOwn ==
    ASSUME NEW x \in Declarations \cup {AutoConnection}
    PROVE  x.name \in Names /\ GenericId(x) \in IdsOf(x.name)
<1>1. CASE x \in Declarations
  BY <1>1, DeclarationsAssumption DEF GenericId, IdsOf
<1>2. CASE x = AutoConnection
  BY <1>2, NamesAssumption DEF GenericId, IdsOf, AutoConnection
<1>3. QED
  BY <1>1, <1>2

(* parameterIDByName in the generic model: 0 exactly when the name is new.  *)
LEMMA IdByNameFinds ==
    ASSUME Sound(details), NEW n
    PROVE  /\ IdByName(0, n) = 0 <=> ~Named(details, n)
           /\ Named(details, n) => /\ IdByName(0, n) \in DOMAIN details[0]
                                   /\ details[0][IdByName(0, n)] = n
<1> DEFINE named == {p \in DOMAIN details[0] : details[0][p] = n}
<1>1. named = {} <=> ~Named(details, n)
  BY DEF Named
<1>2. CASE named = {}
  BY <1>1, <1>2 DEF IdByName
<1>3. CASE named # {}
  <2>1. IdByName(0, n) \in named
    BY <1>3 DEF IdByName
  <2>2. \A p \in named : p # 0
    BY IdsAreSet DEF Sound
  <2>3. QED
    BY <1>1, <1>3, <2>1, <2>2
<1>4. QED
  BY <1>2, <1>3

(* A generic parameter of a new name is added to every model.               *)
LEMMA AddEverywhereSound ==
    ASSUME NEW D, Sound(D), NEW n \in Names, ~Named(D, n), NEW p \in IdsOf(n),
           NEW E, E = [m \in DOMAIN D |-> Put(D[m], p, n)]
    PROVE  Sound(E) /\ Named(E, n) /\ \A k : Named(D, k) => Named(E, k)
<1>1. DOMAIN E = DOMAIN D /\ 0 \in DOMAIN D
  BY DEF Sound
<1>2. \A m \in DOMAIN D : /\ DOMAIN E[m] = DOMAIN D[m] \cup {p}
                          /\ E[m][p] = n
                          /\ \A q \in DOMAIN D[m] : q # p => E[m][q] = D[m][q]
  BY DEF Put
<1>3. \A m \in DOMAIN D : p \notin DOMAIN D[m]
  BY IdOfOneName DEF Sound, Named
<1>4. ASSUME NEW m \in DOMAIN E, NEW q \in DOMAIN E[m]
      PROVE  /\ E[m][q] \in Names /\ q \in IdsOf(E[m][q])
             /\ q \in DOMAIN E[0] /\ E[0][q] = E[m][q]
  <2>1. CASE q = p
    BY <1>1, <1>2, <2>1
  <2>2. CASE q # p
    <3>1. q \in DOMAIN D[m] /\ E[m][q] = D[m][q]
      BY <1>1, <1>2, <2>2
    <3>2. q \in DOMAIN D[0] /\ D[0][q] = D[m][q] /\ D[m][q] \in Names /\ q \in IdsOf(D[m][q])
      BY <1>1, <3>1 DEF Sound
    <3>3. QED
      BY <1>1, <1>2, <2>2, <3>1, <3>2
  <2>3. QED
    BY <2>1, <2>2
<1>5. ASSUME NEW q \in DOMAIN E[0], NEW r \in DOMAIN E[0], E[0][q] = E[0][r]
      PROVE  q = r
  <2>1. E[0][p] = n /\ \A s \in DOMAIN E[0] \ {p} : s \in DOMAIN D[0] /\ E[0][s] = D[0][s]
    BY <1>1, <1>2
  <2>2. \A s \in DOMAIN D[0] : D[0][s] # n
    BY DEF Named
  <2>3. \A s, t \in DOMAIN D[0] : D[0][s] = D[0][t] => s = t
    BY DEF Sound
  <2>4. QED
    BY <1>5, <2>1, <2>2, <2>3
<1>6. \A k : Named(D, k) => Named(E, k)
  BY <1>1, <1>2, <1>3 DEF Named
<1>7. Named(E, n)
  BY <1>1, <1>2 DEF Named
<1>8. QED
  BY <1>1, <1>4, <1>5, <1>6, <1>7 DEF Sound

(* A parameter of a new name is added to one model and the generic one.     *)
LEMMA AddNewSound ==
    ASSUME NEW D, Sound(D), NEW n \in Names, ~Named(D, n), NEW p \in IdsOf(n),
           NEW m \in DOMAIN D, m # 0,
           NEW E, E = [[D EXCEPT ![m] = Put(@, p, n)] EXCEPT ![0] = Put(@, p, n)]
    PROVE  Sound(E) /\ \A k : Named(D, k) => Named(E, k)
<1>1. DOMAIN E = DOMAIN D /\ 0 \in DOMAIN D
  BY DEF Sound
<1>2. \A l \in {0, m} : /\ DOMAIN E[l] = DOMAIN D[l] \cup {p}
                        /\ E[l][p] = n
                        /\ \A q \in DOMAIN D[l] : q # p => E[l][q] = D[l][q]
  BY <1>1 DEF Put
<1>3. \A l \in DOMAIN D : p \notin DOMAIN D[l]
  BY IdOfOneName DEF Sound, Named
<1>4. \A l \in DOMAIN D : l \notin {0, m} => E[l] = D[l]
  BY <1>1
<1>5. ASSUME NEW l \in DOMAIN E, NEW q \in DOMAIN E[l]
      PROVE  /\ E[l][q] \in Names /\ q \in IdsOf(E[l][q])
             /\ q \in DOMAIN E[0] /\ E[0][q] = E[l][q]
  <2>1. CASE q = p
    BY <1>1, <1>2, <1>3, <1>4, <2>1
  <2>2. CASE q # p
    <3>1. q \in DOMAIN D[l] /\ E[l][q] = D[l][q]
      BY <1>1, <1>2, <1>4, <2>2
    <3>2. q \in DOMAIN D[0] /\ D[0][q] = D[l][q] /\ D[l][q] \in Names /\ q \in IdsOf(D[l][q])
      BY <1>1, <3>1 DEF Sound
    <3>3. QED
      BY <1>2, <2>2, <3>1, <3>2
  <2>3. QED
    BY <2>1, <2>2
<1>6. ASSUME NEW q \in DOMAIN E[0], NEW r \in DOMAIN E[0], E[0][q] = E[0][r]
      PROVE  q = r
  BY <1>2, <1>6 DEF Sound, Named
<1>7. \A k : Named(D, k) => Named(E, k)
  BY <1>1, <1>2, <1>3 DEF Named
<1>8. QED
  BY <1>1, <1>5, <1>6, <1>7 DEF Sound

(* A parameter the generic model has is added to one model, under its id.   *)
LEMMA AddKnownSound ==
    ASSUME NEW D, Sound(D), NEW p \in DOMAIN D[0],
           NEW m \in DOMAIN D, m # 0,
           NEW E, E = [D EXCEPT ![m] = Put(@, p, D[0][p])]
    PROVE  Sound(E) /\ E[0] = D[0]
<1>1. DOMAIN E = DOMAIN D /\ 0 \in DOMAIN D /\ E[0] = D[0]
  BY DEF Sound
<1>2. /\ DOMAIN E[m] = DOMAIN D[m] \cup {p}
      /\ E[m][p] = D[0][p]
      /\ \A q \in DOMAIN D[m] : q # p => E[m][q] = D[m][q]
  BY <1>1 DEF Put
<1>3. \A l \in DOMAIN D : l # m => E[l] = D[l]
  BY <1>1
<1>4. ASSUME NEW l \in DOMAIN E, NEW q \in DOMAIN E[l]
      PROVE  /\ E[l][q] \in Names /\ q \in IdsOf(E[l][q])
             /\ q \in DOMAIN E[0] /\ E[0][q] = E[l][q]
  <2>1. CASE l = m /\ q = p
    BY <1>1, <1>2, <2>1 DEF Sound
  <2>2. CASE ~(l = m /\ q = p)
    <3>1. q \in DOMAIN D[l] /\ E[l][q] = D[l][q]
      BY <1>1, <1>2, <1>3, <2>2
    <3>2. QED
      BY <1>1, <3>1 DEF Sound
  <2>3. QED
    BY <2>1, <2>2
<1>5. QED
  BY <1>1, <1>4 DEF Sound

(* While nothing is declared any model may be added; a model other than the *)
(* generic one may lose a parameter.                                        *)
LEMMA AddModelSound ==
    ASSUME NEW D, 0 \in DOMAIN D, \A l \in DOMAIN D : DOMAIN D[l] = {},
           NEW m, NEW E, E = Put(D, m, << >>)
    PROVE  Sound(E) /\ \A l \in DOMAIN E : DOMAIN E[l] = {}
<1>1. DOMAIN E = DOMAIN D \cup {m}
  BY DEF Put
<1>2. \A l \in DOMAIN E : E[l] = << >> \/ (l \in DOMAIN D /\ E[l] = D[l])
  BY DEF Put
<1>3. \A l \in DOMAIN E : DOMAIN E[l] = {}
  BY <1>2
<1>4. QED
  BY <1>1, <1>3 DEF Sound

LEMMA DropSound ==
    ASSUME NEW D, Sound(D), NEW m \in DOMAIN D, m # 0,
           NEW E, DOMAIN E = DOMAIN D, \A l \in DOMAIN D : l # m => E[l] = D[l],
           DOMAIN E[m] \subseteq DOMAIN D[m], \A q \in DOMAIN E[m] : E[m][q] = D[m][q]
    PROVE  Sound(E) /\ E[0] = D[0]
  BY DEF Sound

-----------------------------------------------------------------------------
(* The types.                                                               *)

(* Ids are numbers other than 0.                                            *)
LEMMA IdsAreNumbers == Ids \subseteq Nat \ {0}
<1>1. ASSUME NEW n \in Names PROVE IdsOf(n) \subseteq Nat \ {0}
  <2>1. HashOf[n] \in Nat \ {0}
    BY NamesAssumption
  <2>2. \A x \in Declarations : x.id \in Nat
    BY DeclarationsAssumption
  <2>3. QED
    BY <2>1, <2>2 DEF IdsOf
<1>2. QED
  BY <1>1 DEF Ids

(* Adding to a table, and dropping from it.                                 *)
LEMMA TablesStay ==
    ASSUME NEW f, NEW k, NEW v
    PROVE  IsTable(Put(f, k, v)) /\ IsTable(Drop(f, k)) /\ IsTable(<<>>)
<1>1. IsTable(Put(f, k, v)) /\ IsTable(Drop(f, k))
  BY DEF IsTable, Put, Drop
<1>2. IsTable(<<>>)
  BY DEF IsTable
<1>3. QED
  BY <1>1, <1>2

(* Options are applied to a model there is, under the id of a name.         *)
LEMMA ApplyTypes ==
    ASSUME NEW D, applied \in Seq(AppliedTo(D)), NEW x, x.options \in Seq(Options),
           x.model \in DOMAIN D, NEW p \in Ids, Apply(x, p)
    PROVE  applied' \in Seq(AppliedTo(D))
<1> DEFINE more == [i \in DOMAIN x.options |->
                      [model |-> x.model, id |-> p, option |-> x.options[i]]]
<1>1. DOMAIN x.options = 1..Len(x.options) /\ Len(x.options) \in Nat
      /\ \A i \in DOMAIN x.options : x.options[i] \in Options
  BY LenProperties, ElementOfSeq
<1>2. more \in [1..Len(x.options) -> AppliedTo(D)]
  BY <1>1 DEF AppliedTo
<1>3. more \in Seq(AppliedTo(D))
  BY <1>1, <1>2
<1> HIDE DEF more
<1>4. applied \o more \in Seq(AppliedTo(D))
  BY <1>3, ConcatProperties
<1>5. QED
  BY <1>4 DEF Apply, more

(* Declaring a generic parameter, by the core or for the connection.        *)
LEMMA GenericTypes ==
    ASSUME DeclaredTypes, NEW x \in Declarations \cup {AutoConnection}, x.model = 0,
           0 \in DOMAIN details, AddGeneric(x)
    PROVE  /\ DOMAIN details' = DOMAIN details /\ IsTable(details')
           /\ \A m \in DOMAIN details' : IsTable(details'[m])
           /\ applied' \in Seq(AppliedTo(details'))
<1>1. /\ details' = [m \in DOMAIN details |-> Put(details[m], GenericId(x), x.name)]
      /\ Apply(x, GenericId(x))
  BY DEF AddGeneric
<1>2. GenericId(x) \in Ids
  BY GenericIdIsOwn DEF Ids
<1>3. x.options \in Seq(Options)
  <2>1. CASE x \in Declarations
    BY <2>1, DeclarationsAssumption
  <2>2. CASE x = AutoConnection
    BY <2>2 DEF AutoConnection, Options
  <2>3. QED
    BY <2>1, <2>2
<1>4. applied' \in Seq(AppliedTo(details))
  BY <1>1, <1>2, <1>3, ApplyTypes DEF DeclaredTypes
<1>5. IsTable(details')
  BY <1>1 DEF IsTable
<1>6. QED
  BY <1>1, <1>4, <1>5, TablesStay DEF AppliedTo

(* Declaring a parameter of one model.                                      *)
LEMMA SpecificTypes ==
    ASSUME DeclarationsInv, DeclaredTypes, NEW x \in Declarations, x.model # 0,
           x.model \in DOMAIN details, AddSpecific(x)
    PROVE  /\ DOMAIN details' = DOMAIN details /\ IsTable(details')
           /\ \A m \in DOMAIN details' : IsTable(details'[m])
           /\ applied' \in Seq(AppliedTo(details'))
<1> DEFINE p == SpecificId(x)
           n == x.name
           added == [details EXCEPT ![x.model] = Put(@, p, n)]
<1>1. /\ details' = [added EXCEPT ![0] = Put(@, p, n)] \/ details' = added
      /\ Apply(x, p)
  BY DEF AddSpecific
<1>2. p \in Ids
  <2>1. GenericId(x) \in IdsOf(n) /\ n \in Names
    BY GenericIdIsOwn
  <2>2. CASE Named(details, n)
    <3>1. IdByName(0, n) # 0 /\ IdByName(0, n) \in DOMAIN details[0]
      BY <2>2, IdByNameFinds DEF DeclarationsInv
    <3>2. \A q \in DOMAIN details[0] : q \in Ids
      BY DEF DeclarationsInv, Sound, Ids
    <3>3. QED
      BY <3>1, <3>2 DEF SpecificId
  <2>3. CASE ~Named(details, n)
    <3>1. p = GenericId(x)
      BY <2>3, IdByNameFinds DEF DeclarationsInv, SpecificId
    <3>2. QED
      BY <2>1, <3>1 DEF Ids
  <2>4. QED
    BY <2>2, <2>3
<1> HIDE DEF p, n
<1>3. DOMAIN added = DOMAIN details /\ IsTable(added) /\ \A m \in DOMAIN added : IsTable(added[m])
  BY TablesStay DEF DeclaredTypes, IsTable
<1> HIDE DEF added
<1>4. /\ DOMAIN details' = DOMAIN details /\ IsTable(details')
      /\ \A m \in DOMAIN details' : IsTable(details'[m])
  <2>1. CASE details' = added
    BY <1>3, <2>1
  <2>2. CASE details' = [added EXCEPT ![0] = Put(@, p, n)]
    <3>1. DOMAIN details' = DOMAIN added /\ IsTable(details')
      BY <2>2 DEF IsTable
    <3>2. \A m \in DOMAIN details' : IsTable(details'[m])
      BY <1>3, <2>2, TablesStay
    <3>3. QED
      BY <1>3, <3>1, <3>2
  <2>3. QED
    BY <1>1, <2>1, <2>2
<1>5. x.options \in Seq(Options)
  BY DeclarationsAssumption
<1>6. applied' \in Seq(AppliedTo(details))
  BY <1>1, <1>2, <1>5, ApplyTypes DEF DeclaredTypes
<1>7. QED
  BY <1>4, <1>6 DEF AppliedTo

-----------------------------------------------------------------------------
(* The calls: one at its next step, and one that has ended.                 *)
Others(c) == DOMAIN call' = Callers /\ \A o \in Callers : o # c => call'[o] = call[o]

LEMMA AtMoves ==
    ASSUME DOMAIN call = Callers, NEW c \in Callers, NEW at, NEW d, NEW m, At(c, at, d, m)
    PROVE  /\ Others(c)
           /\ call'[c].at = at /\ call'[c].device = d /\ call'[c].model = m
           /\ at # "idle" => call'[c] # Idle
<1>1. call'[c] = [at |-> at, device |-> d, model |-> m]
  BY DEF At
<1>2. call'[c].at = at /\ Idle.at = "idle"
  BY <1>1 DEF Idle
<1>3. QED
  BY <1>1, <1>2 DEF At, Others

LEMMA DoneMoves ==
    ASSUME DOMAIN call = Callers, NEW c \in Callers, Done(c)
    PROVE  Others(c) /\ call'[c] = Idle
  BY DEF Done, Others

-----------------------------------------------------------------------------
(* The declarations.                                                        *)

LEMMA DeclaredInit == Init => DeclarationsInv /\ ClosingInv
<1> SUFFICES ASSUME Init PROVE DeclarationsInv /\ ClosingInv
  OBVIOUS
<1>1. DOMAIN details = {0} /\ DOMAIN details[0] = {}
  BY DEF Init
<1>2. Sound(details)
  BY <1>1 DEF Sound
<1>3. DeclarationsInv
  BY <1>1, <1>2 DEF Init, DeclarationsInv
<1>4. QED
  BY <1>3 DEF Init, ClosingInv, OfClosing, InCall

(* No step changes the declarations once a call has ended them.             *)
Kept == parametersDone => UNCHANGED <<details, parametersDone>> /\ Applied' = Applied

(* A declaration that is accepted.                                          *)
Accepted == ~parametersDone /\ UNCHANGED <<parametersDone, cache, call>>

LEMMA RegisterModelDeclared ==
    ASSUME DeclarationsInv, ClosingInv, NEW m \in Models, RegisterModel(m), ~Fatal
    PROVE  DeclarationsInv' /\ Accepted
<1>1. ~modelsDone /\ \E k : AddModel(k)
  BY DEF RegisterModel
<1>2. PICK k : AddModel(k)
  BY <1>1
<1>3. 0 \in DOMAIN details /\ \A l \in DOMAIN details : DOMAIN details[l] = {}
  BY <1>1 DEF DeclarationsInv, Sound
<1>4. details' = Put(details, k, << >>)
  BY <1>2 DEF AddModel
<1>5. Sound(details') /\ \A l \in DOMAIN details' : DOMAIN details'[l] = {}
  BY <1>3, <1>4, AddModelSound
<1>6. ~connectionExists /\ ~parametersDone
  BY <1>1 DEF DeclarationsInv, ClosingInv
<1>7. UNCHANGED <<modelsDone, connectionExists, parametersDone, cache, call>>
  BY <1>2 DEF AddModel
<1>8. QED
  BY <1>5, <1>6, <1>7 DEF DeclarationsInv, Accepted

LEMMA RegisterParameterDeclared ==
    ASSUME DeclarationsInv, NEW x \in Declarations, RegisterParameter(x), ~Fatal
    PROVE  DeclarationsInv' /\ Accepted
<1> DEFINE n == x.name
           p == GenericId(x)
<1>1. n \in Names /\ p \in IdsOf(n)
  BY GenericIdIsOwn
<1>2. ~Refused(x) /\ Accepted /\ modelsDone' = TRUE
  BY DEF RegisterParameter, Refused, Accepted
<1>3. ASSUME Sound(details'), connectionExists' \in BOOLEAN,
             connectionExists' => \E k \in Link : Named(details', k)
      PROVE  DeclarationsInv'
  BY <1>2, <1>3 DEF DeclarationsInv, Accepted
<1>4. CASE x.model = 0
  <2>1. /\ details' = [m \in DOMAIN details |-> Put(details[m], p, n)]
        /\ connectionExists' = (connectionExists \/ n \in Link)
    BY <1>2, <1>4 DEF RegisterParameter, AddGeneric
  <2>2. ~Named(details, n)
    BY <1>2, <1>4, IdByNameFinds DEF Refused, DeclarationsInv
  <2> HIDE DEF n, p
  <2>3. Sound(details') /\ Named(details', n) /\ \A k : Named(details, k) => Named(details', k)
    BY <1>1, <2>1, <2>2, AddEverywhereSound DEF DeclarationsInv
  <2>4. QED
    BY <1>2, <1>3, <2>1, <2>3 DEF DeclarationsInv
<1>5. CASE x.model # 0 /\ ~Named(details, n)
  <2>1. x.model \in DOMAIN details
    BY <1>2, <1>5 DEF Refused
  <2>2. IdByName(0, n) = 0
    BY <1>5, IdByNameFinds DEF DeclarationsInv
  <2>3. /\ details' = [[details EXCEPT ![x.model] = Put(@, p, n)] EXCEPT ![0] = Put(@, p, n)]
        /\ connectionExists' = connectionExists
    BY <1>2, <1>5, <2>2 DEF RegisterParameter, AddSpecific, SpecificId, DeclarationsInv
  <2> HIDE DEF n, p
  <2>4. Sound(details') /\ \A k : Named(details, k) => Named(details', k)
    <3>1. Sound(details)
      BY DEF DeclarationsInv
    <3>2. \A E : E = [[details EXCEPT ![x.model] = Put(@, p, n)] EXCEPT ![0] = Put(@, p, n)]
                    => Sound(E) /\ \A k : Named(details, k) => Named(E, k)
      BY <1>1, <1>5, <2>1, <3>1, AddNewSound
    <3>3. QED
      BY <2>3, <3>2
  <2>5. QED
    BY <1>2, <1>3, <2>3, <2>4 DEF DeclarationsInv
<1>6. CASE x.model # 0 /\ Named(details, n)
  <2> DEFINE q == IdByName(0, n)
  <2>1. x.model \in DOMAIN details
    BY <1>2, <1>6 DEF Refused
  <2>2. q # 0 /\ q \in DOMAIN details[0] /\ details[0][q] = n
    BY <1>6, IdByNameFinds DEF DeclarationsInv
  <2>3. /\ details' = [details EXCEPT ![x.model] = Put(@, q, n)]
        /\ connectionExists' = (connectionExists \/ n \in Link)
    BY <1>2, <1>6, <2>2 DEF RegisterParameter, AddSpecific, SpecificId
  <2> HIDE DEF n, q
  <2>4. Sound(details') /\ details'[0] = details[0]
    BY <1>6, <2>1, <2>2, <2>3, AddKnownSound DEF DeclarationsInv
  <2>5. \A k : Named(details', k) <=> Named(details, k)
    BY <2>4 DEF Named
  <2>6. QED
    BY <1>2, <1>3, <1>6, <2>3, <2>4, <2>5 DEF DeclarationsInv
<1>7. QED
  BY <1>2, <1>4, <1>5, <1>6

LEMMA UnregisterDeclared ==
    ASSUME DeclarationsInv, NEW m, NEW n, Unregister(m, n), ~Fatal
    PROVE  DeclarationsInv' /\ Accepted
<1>1. ~parametersDone /\ m # 0 /\ m \in DOMAIN details
  BY DEF Unregister, Taken
<1>2. PICK p : /\ details' = [details EXCEPT ![m] = Drop(@, p)]
               /\ UNCHANGED <<modelsDone, connectionExists, parametersDone, cache, call>>
  BY DEF Unregister
<1>3. /\ DOMAIN details' = DOMAIN details
      /\ \A l \in DOMAIN details : l # m => details'[l] = details[l]
      /\ DOMAIN details'[m] \subseteq DOMAIN details[m]
      /\ \A q \in DOMAIN details'[m] : details'[m][q] = details[m][q]
  BY <1>1, <1>2 DEF Drop
<1>4. Sound(details') /\ details'[0] = details[0]
  BY <1>1, <1>3, DropSound DEF DeclarationsInv
<1>5. \A k : Named(details', k) <=> Named(details, k)
  BY <1>4 DEF Named
<1>6. QED
  BY <1>1, <1>2, <1>3, <1>4, <1>5 DEF DeclarationsInv, Accepted

(* log.Fatal leaves all of it.                                              *)
LEMMA FatalKeeps ==
    ASSUME DeclarationsInv, ClosingInv, Fatal
    PROVE  DeclarationsInv' /\ ClosingInv' /\ Kept
<1>1. UNCHANGED <<details, applied, modelsDone, connectionExists, parametersDone, cache, call>>
  BY DEF Fatal, declared
<1>2. QED
  BY <1>1 DEF DeclarationsInv, ClosingInv, OfClosing, ConnectionAdded, Kept, Applied, InCall, Named

LEMMA DeclareKeeps ==
    ASSUME DeclarationsInv, ClosingInv, Declare
    PROVE  DeclarationsInv' /\ ClosingInv' /\ Kept
<1>1. CASE Fatal
  BY <1>1, FatalKeeps
<1>2. CASE ~Fatal
  <2>1. DeclarationsInv' /\ Accepted
    BY <1>2, RegisterModelDeclared, RegisterParameterDeclared, UnregisterDeclared DEF Declare
  <2>2. \A c \in Callers : ~InCall(c, Closing) /\ ~InCall(c, Closing)'
    BY <2>1 DEF Declare, Accepted, InCall
  <2>3. cache' = NoCache /\ ~parametersDone'
    BY <2>1, <2>2 DEF ClosingInv, Accepted, InCall, Closing
  <2>4. QED
    BY <2>1, <2>2, <2>3 DEF ClosingInv, OfClosing, Kept, InCall, Closing, Accepted
<1>3. QED
  BY <1>1, <1>2

-----------------------------------------------------------------------------
(* The calls that end the declarations.                                     *)

(* What is known of the other calls stays so.                               *)
LEMMA OthersClose ==
    ASSUME ClosingInv, NEW c \in Callers, Others(c),
           ConnectionAdded => ConnectionAdded',
           connectionExists' => connectionExists \/ ConnectionAdded',
           connectionExists => connectionExists',
           Named(details, Connection)' => Named(details, Connection) \/ ConnectionAdded',
           cache # NoCache => cache' # NoCache
    PROVE  \A o \in Callers : o # c => OfClosing(o)'
<1> SUFFICES ASSUME NEW o \in Callers, o # c PROVE OfClosing(o)'
  OBVIOUS
<1>1. OfClosing(o) /\ call'[o] = call[o]
  BY DEF ClosingInv, Others
<1>2. QED
  BY <1>1 DEF OfClosing, InCall

(* A step of a call that leaves the declarations as they are.               *)
LEMMA ClosingMoves ==
    ASSUME DeclarationsInv, ClosingInv,
           NEW c \in Callers, UNCHANGED <<declared, parametersDone, cache>>, Others(c),
           ~InCall(c, {"complete"}), OfClosing(c)'
    PROVE  DeclarationsInv' /\ ClosingInv' /\ Kept
<1>1. UNCHANGED <<details, applied, modelsDone, connectionExists, parametersDone, cache>>
  BY DEF declared
<1>2. DeclarationsInv' /\ Kept
  BY <1>1 DEF DeclarationsInv, Kept, Applied
<1>3. (ConnectionAdded' <=> ConnectionAdded) /\ (Named(details, Connection)' <=> Named(details, Connection))
  BY <1>1 DEF ConnectionAdded, Applied, Named
<1>4. \A o \in Callers : OfClosing(o)'
  BY <1>1, <1>3, OthersClose
<1>5. \A o \in Callers : InCall(o, {"complete"}) => InCall(o, {"complete"})'
  BY DEF Others, InCall
<1>6. QED
  BY <1>1, <1>2, <1>4, <1>5 DEF ClosingInv

(* One that is not of ending them, before or after.                         *)
LEMMA ClosingRest ==
    ASSUME DeclarationsInv, ClosingInv,
           NEW c \in Callers, UNCHANGED <<declared, parametersDone, cache>>, Others(c),
           ~InCall(c, {"complete"}), ~InCall(c, {"auto", "add", "cache", "complete"})'
    PROVE  DeclarationsInv' /\ ClosingInv' /\ Kept
<1>1. OfClosing(c)'
  BY DEF OfClosing, InCall
<1>2. QED
  BY <1>1, ClosingMoves

LEMMA ConnectKeeps ==
    ASSUME DeclarationsInv, ClosingInv, DOMAIN call = Callers, NEW c \in Callers, Connect(c)
    PROVE  DeclarationsInv' /\ ClosingInv' /\ Kept
<1>1. /\ Others(c) /\ call[c].at = "connect"
      /\ call'[c].at = IF connectionExists THEN "cache" ELSE "auto"
      /\ UNCHANGED <<declared, parametersDone, cache>>
  BY AtMoves DEF Connect, Moves, InCall
<1>2. UNCHANGED connectionExists /\ ~InCall(c, {"complete"})
  BY <1>1 DEF declared, InCall
<1>3. OfClosing(c)'
  BY <1>1, <1>2 DEF OfClosing, InCall
<1>4. QED
  BY <1>1, <1>2, <1>3, ClosingMoves

LEMMA AutoKeeps ==
    ASSUME DeclarationsInv, ClosingInv, DOMAIN call = Callers, NEW c \in Callers, AutoRegister(c)
    PROVE  DeclarationsInv' /\ ClosingInv' /\ Kept
<1>1. CASE Fatal
  BY <1>1, FatalKeeps
<1>2. CASE ~Fatal
  <2>1. /\ Others(c) /\ InCall(c, {"auto"}) /\ call'[c].at = "add" /\ ~Refused(AutoConnection)
        /\ UNCHANGED <<declared, parametersDone, cache>>
    BY <1>2, AtMoves DEF AutoRegister, Moves
  <2>2. UNCHANGED <<details, applied, connectionExists>> /\ ~InCall(c, {"complete"}) /\ InCall(c, {"auto", "add"})
    BY <2>1 DEF declared, InCall
  <2>3. ConnectionAdded' <=> ConnectionAdded
    BY <2>2 DEF ConnectionAdded, Applied
  <2>4. ~Named(details, Connection)
    BY <2>1, IdByNameFinds DEF Refused, AutoConnection, DeclarationsInv
  <2>5. connectionExists => ConnectionAdded
    BY <2>2 DEF ClosingInv, OfClosing
  <2>6. ~Named(details, Connection)'
    BY <2>2, <2>4 DEF Named
  <2>7. OfClosing(c)'
    BY <2>1, <2>2, <2>3, <2>5, <2>6 DEF OfClosing, InCall
  <2>8. QED
    BY <2>1, <2>2, <2>7, ClosingMoves
<1>3. QED
  BY <1>1, <1>2

(* Adding the connection, once more perhaps.                                *)
LEMMA AddsConnection ==
    ASSUME DeclaredTypes, AddGeneric(AutoConnection)
    PROVE  /\ details' = [m \in DOMAIN details |-> Put(details[m], 1, Connection)]
           /\ connectionExists'
           /\ Applied' = Applied \cup {ConnectionOption}
<1>1. GenericId(AutoConnection) = 1 /\ AutoConnection.name = Connection /\ Connection \in Link
  BY NamesAssumption DEF GenericId, AutoConnection
<1>2. /\ details' = [m \in DOMAIN details |-> Put(details[m], 1, Connection)]
      /\ connectionExists' /\ Apply(AutoConnection, 1)
  BY <1>1 DEF AddGeneric
<1>3. Applied' = Applied \cup {ConnectionOption}
  <2> DEFINE more == [i \in DOMAIN AutoConnection.options |->
                        [model |-> AutoConnection.model, id |-> 1,
                         option |-> AutoConnection.options[i]]]
  <2>1. applied' = applied \o more
    BY <1>2 DEF Apply
  <2>2. more = <<ConnectionOption>>
    BY DEF AutoConnection, ConnectionOption
  <2> HIDE DEF more
  <2>3. applied' = Append(applied, ConnectionOption)
    <3>1. ConnectionOption \in [model: {0}, id: {1}, option: {"valid"}]
      BY DEF ConnectionOption
    <3> DEFINE All == AppliedTo(details) \cup [model: {0}, id: {1}, option: {"valid"}]
    <3>2. applied \in Seq(All) /\ ConnectionOption \in All
      <4>1. applied \in Seq(AppliedTo(details)) /\ AppliedTo(details) \subseteq All
        BY DEF DeclaredTypes
      <4>2. QED
        BY <3>1, <4>1, SeqMonotonic
    <3> HIDE DEF All
    <3>3. QED
      BY <2>1, <2>2, <3>2, AppendIsConcat
  <2>4. /\ DOMAIN applied = 1..Len(applied) /\ Len(applied) \in Nat
        /\ DOMAIN applied' = 1..(Len(applied) + 1)
        /\ applied'[Len(applied) + 1] = ConnectionOption
        /\ \A i \in 1..Len(applied) : applied'[i] = applied[i]
    BY <2>3, LenProperties DEF DeclaredTypes
  <2>5. QED
    BY <2>4 DEF Applied
<1>4. QED
  BY <1>2, <1>3

LEMMA AddKeeps ==
    ASSUME DeclarationsInv, ClosingInv, DeclaredTypes, DOMAIN call = Callers,
           NEW c \in Callers, AutoAdd(c)
    PROVE  DeclarationsInv' /\ ClosingInv' /\ Kept
<1>1. /\ details' = [m \in DOMAIN details |-> Put(details[m], 1, Connection)]
      /\ connectionExists' /\ connectionExists' \in BOOLEAN
      /\ Applied' = Applied \cup {ConnectionOption}
      /\ modelsDone' = TRUE /\ UNCHANGED <<parametersDone, cache>>
  BY AddsConnection DEF AutoAdd, AddGeneric, DeclarationsInv
<1>2. Others(c) /\ InCall(c, {"add"}) /\ call'[c].at = "cache"
  BY AtMoves DEF AutoAdd, Moves
<1>3. ConnectionAdded => details' = details /\ Applied' = Applied
  <2> SUFFICES ASSUME ConnectionAdded PROVE details' = details /\ Applied' = Applied
    OBVIOUS
  <2>1. \A m \in DOMAIN details : Put(details[m], 1, Connection) = details[m]
    BY DEF Put, ConnectionAdded, DeclaredTypes, IsTable
  <2>2. details = [m \in DOMAIN details |-> details[m]]
    BY DEF DeclaredTypes, IsTable
  <2>3. QED
    BY <1>1, <2>1, <2>2 DEF ConnectionAdded
<1>4. ConnectionAdded'
  BY <1>1 DEF ConnectionAdded, Put
<1>5. Sound(details') /\ Named(details', Connection)
  <2>1. CASE Named(details, Connection)
    <3>1. details' = details
      BY <1>2, <1>3, <2>1 DEF ClosingInv, OfClosing
    <3>2. QED
      BY <2>1, <3>1 DEF DeclarationsInv
  <2>2. CASE ~Named(details, Connection)
    <3>1. Connection \in Names /\ 1 \in IdsOf(Connection)
      BY NamesAssumption DEF IdsOf
    <3>2. QED
      BY <1>1, <2>2, <3>1, AddEverywhereSound DEF DeclarationsInv
  <2>3. QED
    BY <2>1, <2>2
<1>6. DeclarationsInv'
  BY <1>1, <1>5, NamesAssumption DEF DeclarationsInv
<1>7. cache # NoCache => details' = details /\ Applied' = Applied
  <2>1. InCall(c, {"auto", "add"})
    BY <1>2 DEF InCall
  <2>2. QED
    BY <1>3, <2>1 DEF ClosingInv, OfClosing
<1>8. Kept
  BY <1>1, <1>7 DEF Kept, ClosingInv
<1>9. \A o \in Callers : OfClosing(o)'
  <2>1. OfClosing(c)'
    BY <1>1, <1>2 DEF OfClosing, InCall
  <2>2. QED
    BY <1>1, <1>2, <1>4, <2>1, OthersClose
<1>10. \A o \in Callers : InCall(o, {"complete"}) => InCall(o, {"complete"})'
  BY <1>2 DEF Others, InCall
<1>11. QED
  BY <1>1, <1>6, <1>7, <1>8, <1>9, <1>10 DEF ClosingInv

LEMMA CacheKeeps ==
    ASSUME DeclarationsInv, ClosingInv, DOMAIN call = Callers, NEW c \in Callers, CacheIDMaps(c)
    PROVE  DeclarationsInv' /\ ClosingInv' /\ Kept
<1>1. /\ UNCHANGED <<details, applied, modelsDone, connectionExists, parametersDone>>
      /\ cache' = IF cache = NoCache THEN details ELSE cache
  BY DEF CacheIDMaps, declared
<1>2. Others(c) /\ InCall(c, {"cache"}) /\ call'[c].at = "complete" /\ call'[c] # Idle
  BY AtMoves DEF CacheIDMaps, Moves
<1>3. DeclarationsInv' /\ Kept
  BY <1>1 DEF DeclarationsInv, Kept, Applied
<1>4. (ConnectionAdded' <=> ConnectionAdded) /\ (Named(details, Connection)' <=> Named(details, Connection))
  BY <1>1 DEF ConnectionAdded, Applied, Named
<1>5. connectionExists
  BY <1>2 DEF ClosingInv, OfClosing
<1>6. cache' # NoCache
  <2>1. details # NoCache
    BY DEF DeclarationsInv, Sound, NoCache
  <2>2. QED
    BY <1>1, <2>1
<1>7. \A o \in Callers : OfClosing(o)'
  <2>1. OfClosing(c)'
    BY <1>2, <1>6 DEF OfClosing, InCall
  <2>2. QED
    BY <1>1, <1>2, <1>4, <1>6, <2>1, OthersClose
<1>8. InCall(c, {"complete"})'
  BY <1>2 DEF InCall
<1>9. QED
  BY <1>1, <1>3, <1>5, <1>6, <1>7, <1>8 DEF ClosingInv

LEMMA CompleteKeeps ==
    ASSUME DeclarationsInv, ClosingInv, DOMAIN call = Callers, NEW c \in Callers, Complete(c)
    PROVE  DeclarationsInv' /\ ClosingInv' /\ Kept /\ parametersDone'
<1>1. /\ UNCHANGED <<details, applied, modelsDone, connectionExists, cache>>
      /\ parametersDone' = TRUE
  BY DEF Complete, declared
<1>2. Others(c) /\ InCall(c, {"complete"}) /\ call'[c].at = "check"
  BY AtMoves DEF Complete, Moves
<1>3. DeclarationsInv' /\ Kept
  BY <1>1 DEF DeclarationsInv, Kept, Applied
<1>4. (ConnectionAdded' <=> ConnectionAdded) /\ (Named(details, Connection)' <=> Named(details, Connection))
  BY <1>1 DEF ConnectionAdded, Applied, Named
<1>5. cache # NoCache
  BY <1>2 DEF ClosingInv, OfClosing
<1>6. \A o \in Callers : OfClosing(o)'
  <2>1. OfClosing(c)'
    BY <1>2 DEF OfClosing, InCall
  <2>2. QED
    BY <1>1, <1>2, <1>4, <2>1, OthersClose
<1>7. QED
  BY <1>1, <1>3, <1>5, <1>6 DEF ClosingInv

(* Every other step of a call.                                              *)
Registers(c) ==
    \/ \E d \in DeviceIds, m \in Models \cup {0} : RegisterDevice(c, d, m) \/ ReRegisterDevice(c, d, m)
    \/ Begin(c) \/ Check(c) \/ Publish(c) \/ Store(c) \/ Clear(c) \/ Erase(c)

LEMMA CallSteps ==
    ASSUME NEW c \in Callers, CallNext(c)
    PROVE  \/ Connect(c) \/ AutoRegister(c) \/ AutoAdd(c) \/ CacheIDMaps(c) \/ Complete(c)
           \/ Registers(c)
<1>1. ASSUME NEW d \in DeviceIds, RegisterDeviceWithModelName(c, d)
      PROVE  Registers(c)
  <2>1. 0 \in Models \cup {0} /\ RegisterDevice(c, d, 0)
    BY <1>1 DEF RegisterDeviceWithModelName
  <2>2. QED
    BY <2>1 DEF Registers
<1>2. QED
  BY <1>1, SMT DEF CallNext, Registers

LEMMA RegistersKeeps ==
    ASSUME DeclarationsInv, ClosingInv, DOMAIN call = Callers, NEW c \in Callers, Registers(c)
    PROVE  DeclarationsInv' /\ ClosingInv' /\ Kept
<1>0. Idle.at = "idle"
  BY DEF Idle
<1>1. ASSUME NEW at \in {"clear", "erase", "begin", "connect", "check", "publish", "store"},
             NEW d, NEW m, At(c, at, d, m), ~InCall(c, {"complete"}),
             UNCHANGED <<declared, parametersDone, cache>>
      PROVE  DeclarationsInv' /\ ClosingInv' /\ Kept
  <2>1. Others(c) /\ call'[c].at = at
    BY <1>1, AtMoves
  <2>2. ~InCall(c, {"auto", "add", "cache", "complete"})'
    BY <2>1 DEF InCall
  <2>3. QED
    BY <1>1, <2>1, <2>2, ClosingRest
<1>2. ASSUME Done(c), ~InCall(c, {"complete"}), UNCHANGED <<declared, parametersDone, cache>>
      PROVE  DeclarationsInv' /\ ClosingInv' /\ Kept
  <2>1. Others(c) /\ call'[c] = Idle
    BY <1>2, DoneMoves
  <2>2. ~InCall(c, {"auto", "add", "cache", "complete"})'
    BY <2>1 DEF InCall
  <2>3. QED
    BY <1>2, <2>1, <2>2, ClosingRest
<1>3. CASE Fatal
  BY <1>3, FatalKeeps
<1>4. ASSUME NEW d, NEW m, RegisterDevice(c, d, m)
      PROVE  DeclarationsInv' /\ ClosingInv' /\ Kept
  BY <1>1, <1>4 DEF RegisterDevice, Starts, InCall
<1>5. ASSUME NEW d, NEW m, ReRegisterDevice(c, d, m), ~Fatal
      PROVE  DeclarationsInv' /\ ClosingInv' /\ Kept
  BY <1>1, <1>5 DEF ReRegisterDevice, Starts, InCall
<1>6. CASE Begin(c)
  <2>1. ~InCall(c, {"complete"})
    BY <1>6 DEF Begin, InCall
  <2>2. PICK at \in {"connect", "check"} : At(c, at, call[c].device, call[c].model)
    BY <1>6 DEF Begin, Moves
  <2>3. QED
    BY <1>1, <1>6, <2>1, <2>2 DEF Begin
<1>7. CASE Check(c)
  <2>1. ~InCall(c, {"complete"})
    BY <1>7 DEF Check, InCall
  <2>2. QED
    BY <1>1, <1>2, <1>7, <2>1 DEF Check, Moves
<1>8. CASE Publish(c)
  <2>1. ~InCall(c, {"complete"})
    BY <1>8 DEF Publish, InCall
  <2>2. PICK d, m : At(c, "store", d, m)
    BY <1>8 DEF Publish
  <2>3. QED
    BY <1>1, <1>8, <2>1, <2>2 DEF Publish
<1>9. CASE Store(c)
  <2>1. ~InCall(c, {"complete"})
    BY <1>9 DEF Store, InCall
  <2>2. QED
    BY <1>2, <1>9, <2>1 DEF Store
<1>10. CASE Clear(c)
  <2>1. ~InCall(c, {"complete"})
    BY <1>10 DEF Clear, InCall
  <2>2. QED
    BY <1>1, <1>10, <2>1 DEF Clear, Moves
<1>11. CASE Erase(c)
  <2>1. ~InCall(c, {"complete"})
    BY <1>11 DEF Erase, InCall
  <2>2. QED
    BY <1>1, <1>11, <2>1 DEF Erase, Moves
<1>12. QED
  BY <1>3, <1>4, <1>5, <1>6, <1>7, <1>8, <1>9, <1>10, <1>11 DEF Registers

LEMMA DeclaredStep ==
    ASSUME DeclarationsInv, ClosingInv, DeclaredTypes, CallTypes, [Next]_vars
    PROVE  DeclarationsInv' /\ ClosingInv' /\ Kept
<1>1. CASE UNCHANGED vars
  <2>1. UNCHANGED <<details, applied, modelsDone, connectionExists, parametersDone, cache, call>>
    BY <1>1 DEF vars, declared
  <2>2. QED
    BY <2>1 DEF DeclarationsInv, ClosingInv, OfClosing, ConnectionAdded, Kept, Applied, InCall, Named
<1>2. CASE Declare
  BY <1>2, DeclareKeeps
<1>3. ASSUME NEW c \in Callers, CallNext(c)
      PROVE  DeclarationsInv' /\ ClosingInv' /\ Kept
  BY <1>3, CallSteps, ConnectKeeps, AutoKeeps, AddKeeps, CacheKeeps, CompleteKeeps,
     RegistersKeeps DEF CallTypes
<1>4. QED
  BY <1>1, <1>2, <1>3 DEF Next

-----------------------------------------------------------------------------
(* The types, step by step.                                                *)

(* The declarations of the core.                                            *)
LEMMA DeclareTypes ==
    ASSUME DeclarationsInv, DeclaredTypes, Declare
    PROVE  DeclaredTypes'
<1>1. CASE Fatal
  BY <1>1 DEF Fatal, declared, DeclaredTypes
<1>2. ASSUME NEW m \in Models, RegisterModel(m), ~Fatal
      PROVE  DeclaredTypes'
  <2>1. PICK k \in Nat : AddModel(k)
    <3>1. Cardinality(DOMAIN details) \in Nat
      BY FS_CardinalityType DEF DeclaredTypes
    <3>2. m \in Nat
      BY DeclarationsAssumption
    <3>3. QED
      BY <1>2, <3>1, <3>2 DEF RegisterModel
  <2>2. /\ details' = Put(details, k, << >>)
        /\ UNCHANGED <<applied, count, modelsDone>>
    BY <2>1 DEF AddModel
  <2>3. /\ DOMAIN details' = DOMAIN details \cup {k}
        /\ \A l \in DOMAIN details' : details'[l] = << >> \/ (l \in DOMAIN details /\ details'[l] = details[l])
    BY <2>2 DEF Put
  <2>4. IsFiniteSet(DOMAIN details') /\ DOMAIN details' \subseteq Nat
    BY <2>3, FS_AddElement DEF DeclaredTypes
  <2>5. IsTable(details') /\ \A l \in DOMAIN details' : IsTable(details'[l])
    BY <2>2, <2>3, TablesStay DEF DeclaredTypes
  <2>6. applied' \in Seq(AppliedTo(details'))
    <3>1. AppliedTo(details) \subseteq AppliedTo(details')
      BY <2>3 DEF AppliedTo
    <3>2. QED
      BY <2>2, <3>1, SeqMonotonic DEF DeclaredTypes
  <2>7. QED
    BY <2>2, <2>4, <2>5, <2>6 DEF DeclaredTypes
<1>3. ASSUME NEW x \in Declarations, RegisterParameter(x), ~Fatal
      PROVE  DeclaredTypes'
  <2>1. /\ ~Refused(x) /\ count < MaxDeclarations /\ count' = count + 1 /\ modelsDone' = TRUE
        /\ x.model = 0 => AddGeneric(x)
        /\ x.model # 0 => AddSpecific(x)
    BY <1>3 DEF RegisterParameter
  <2>2. 0 \in DOMAIN details /\ x.model \in DOMAIN details
    BY <2>1 DEF Refused, DeclarationsInv, Sound
  <2>3. /\ DOMAIN details' = DOMAIN details /\ IsTable(details')
        /\ \A m \in DOMAIN details' : IsTable(details'[m])
        /\ applied' \in Seq(AppliedTo(details'))
    BY <2>1, <2>2, GenericTypes, SpecificTypes
  <2>4. count' \in 0..MaxDeclarations
    BY <2>1, DeclarationsAssumption DEF DeclaredTypes
  <2>5. QED
    BY <2>1, <2>3, <2>4 DEF DeclaredTypes
<1>4. ASSUME NEW m \in Models, NEW n \in Names, Unregister(m, n), ~Fatal
      PROVE  DeclaredTypes'
  <2>1. /\ details' = [details EXCEPT ![m] = Drop(@, IdByName(m, n))]
        /\ UNCHANGED <<applied, count, modelsDone>>
    BY <1>4 DEF Unregister
  <2>2. DOMAIN details' = DOMAIN details /\ \A l \in DOMAIN details' : IsTable(details'[l])
    BY <2>1, TablesStay DEF DeclaredTypes
  <2>3. IsTable(details')
    BY <2>1 DEF IsTable
  <2>4. QED
    BY <2>1, <2>2, <2>3 DEF DeclaredTypes, AppliedTo
<1>5. QED
  BY <1>1, <1>2, <1>3, <1>4 DEF Declare

(* The automatic connection.                                                *)
LEMMA AutoAddTypes ==
    ASSUME DeclarationsInv, DeclaredTypes, NEW c, AutoAdd(c)
    PROVE  DeclaredTypes'
<1>1. AddGeneric(AutoConnection) /\ modelsDone' = TRUE /\ UNCHANGED count
  BY DEF AutoAdd
<1>2. 0 \in DOMAIN details /\ AutoConnection.model = 0
  BY DEF DeclarationsInv, Sound, AutoConnection
<1>3. /\ DOMAIN details' = DOMAIN details /\ IsTable(details')
      /\ \A l \in DOMAIN details' : IsTable(details'[l])
      /\ applied' \in Seq(AppliedTo(details'))
  BY <1>1, <1>2, GenericTypes
<1>4. QED
  BY <1>1, <1>3 DEF DeclaredTypes

(* A call moves to a stage with a device and a model.                       *)
LEMMA CallMovesTypes ==
    ASSUME CallTypes, NEW c \in Callers, NEW d \in Nat, NEW m \in Nat, NEW at \in Stages,
           At(c, at, d, m), fatal' \in BOOLEAN,
           IsFiniteSet(DOMAIN infos'), DOMAIN infos' \subseteq Nat \ {0}
    PROVE  CallTypes'
<1>1. /\ DOMAIN call' = Callers
      /\ call'[c].at = at /\ call'[c].device = d /\ call'[c].model = m
      /\ \A other \in Callers : other # c => call'[other] = call[other]
  BY AtMoves DEF CallTypes, Others
<1>2. QED
  BY <1>1 DEF CallTypes

(* It moves on, for the device and the model it has.                        *)
LEMMA CallMovesOnTypes ==
    ASSUME CallTypes, NEW c \in Callers, call[c] # Idle, NEW at \in Stages, Moves(c, at),
           UNCHANGED fatal, DOMAIN infos' \subseteq DOMAIN infos
    PROVE  CallTypes'
<1> DEFINE d == call[c].device
           m == call[c].model
<1>1. d \in Nat /\ m \in Nat /\ fatal \in BOOLEAN
  BY DEF CallTypes
<1>2. At(c, at, d, m)
  BY DEF Moves
<1> HIDE DEF d, m
<1>3. IsFiniteSet(DOMAIN infos') /\ DOMAIN infos' \subseteq Nat \ {0}
  BY FS_Subset DEF CallTypes
<1>4. QED
  BY <1>1, <1>2, <1>3, CallMovesTypes

(* Or ends.                                                                 *)
LEMMA CallEndsTypes ==
    ASSUME CallTypes, NEW c \in Callers, Done(c), UNCHANGED <<infos, fatal>>
    PROVE  CallTypes'
<1>1. /\ DOMAIN call' = Callers /\ call'[c] = Idle
      /\ \A other \in Callers : other # c => call'[other] = call[other]
  BY DoneMoves DEF CallTypes, Others
<1>2. QED
  BY <1>1 DEF CallTypes

(* A device has a number other than 0, an assigned one too.                 *)
LEMMA AssignedIdType ==
    ASSUME CallTypes, NEW d \in Nat
    PROVE  AssignedId(d) \in Nat \ {0}
<1>1. Cardinality(DOMAIN infos) \in Nat
  BY FS_CardinalityType DEF CallTypes
<1>2. QED
  BY <1>1 DEF AssignedId

LEMMA PublishTypes ==
    ASSUME CallTypes, NEW c \in Callers, Publish(c)
    PROVE  CallTypes'
<1> DEFINE e == call[c].device
           k == call[c].model
           d == AssignedId(e)
<1>1. /\ call[c] # Idle /\ infos' = Put(infos, d, k) /\ At(c, "store", d, k) /\ UNCHANGED fatal
  BY DEF Publish, InCall
<1>2. e \in Nat /\ k \in Nat /\ fatal \in BOOLEAN
  BY <1>1 DEF CallTypes
<1>3. d \in Nat \ {0}
  BY <1>2, AssignedIdType
<1> HIDE DEF e, k, d
<1>4. DOMAIN infos' = DOMAIN infos \cup {d}
  BY <1>1 DEF Put
<1>5. IsFiniteSet(DOMAIN infos') /\ DOMAIN infos' \subseteq Nat \ {0}
  BY <1>3, <1>4, FS_AddElement DEF CallTypes
<1>6. "store" \in Stages
  BY DEF Stages
<1>7. QED
  BY <1>1, <1>2, <1>3, <1>5, <1>6, CallMovesTypes

(* The calls that register devices.                                         *)
LEMMA CallNextTypes ==
    ASSUME CallTypes, NEW c \in Callers, CallNext(c)
    PROVE  CallTypes'
<1>1. CASE Fatal
  BY <1>1 DEF Fatal, devices, CallTypes
<1>2. ASSUME NEW d \in DeviceIds, NEW m \in Models \cup {0}, NEW at \in Stages,
             Starts(c, at, d, m), UNCHANGED <<infos, fatal>>
      PROVE  CallTypes'
  <2>1. d \in Nat /\ m \in Nat
    BY DeclarationsAssumption
  <2>2. At(c, at, d, m)
    BY <1>2 DEF Starts
  <2>3. QED
    BY <1>2, <2>1, <2>2, CallMovesTypes DEF CallTypes
<1>3. ASSUME NEW d \in DeviceIds, NEW m \in Models \cup {0}, RegisterDevice(c, d, m)
      PROVE  CallTypes'
  BY <1>2, <1>3 DEF RegisterDevice, devices, Stages
<1>4. ASSUME NEW d \in DeviceIds, NEW m \in Models \cup {0}, ReRegisterDevice(c, d, m), ~Fatal
      PROVE  CallTypes'
  BY <1>2, <1>4 DEF ReRegisterDevice, devices, Stages, Clearing
<1>5. ASSUME NEW at \in Stages, call[c] # Idle, Moves(c, at), UNCHANGED <<infos, fatal>>
      PROVE  CallTypes'
  BY <1>5, CallMovesOnTypes
<1>6. CASE Begin(c)
  BY <1>5, <1>6 DEF Begin, InCall, devices, Stages, Closing
<1>7. CASE Connect(c)
  BY <1>5, <1>7 DEF Connect, InCall, devices, Stages, Closing
<1>8. CASE AutoRegister(c) /\ ~Fatal
  BY <1>5, <1>8 DEF AutoRegister, InCall, devices, Stages, Closing
<1>9. CASE AutoAdd(c)
  BY <1>5, <1>9 DEF AutoAdd, InCall, devices, Stages, Closing
<1>10. CASE CacheIDMaps(c)
  BY <1>5, <1>10 DEF CacheIDMaps, InCall, devices, Stages, Closing
<1>11. CASE Complete(c)
  BY <1>5, <1>11 DEF Complete, InCall, devices, Stages
<1>12. CASE Check(c)
  BY <1>5, <1>12, CallEndsTypes DEF Check, InCall, devices, Stages
<1>13. CASE Store(c)
  BY <1>13, CallEndsTypes DEF Store
<1>14. CASE Clear(c)
  <2>1. call[c] # Idle /\ Moves(c, "erase") /\ UNCHANGED fatal /\ infos' = Drop(infos, call[c].device)
    BY <1>14 DEF Clear, InCall
  <2>2. DOMAIN infos' \subseteq DOMAIN infos /\ "erase" \in Stages
    BY <2>1 DEF Drop, Stages, Clearing
  <2>3. QED
    BY <2>1, <2>2, CallMovesOnTypes
<1>15. CASE Erase(c)
  BY <1>5, <1>15 DEF Erase, InCall, Stages
<1>16. CASE Connect(c) \/ AutoRegister(c) \/ AutoAdd(c) \/ CacheIDMaps(c) \/ Complete(c)
  BY <1>1, <1>7, <1>8, <1>9, <1>10, <1>11, <1>16
<1>17. CASE Registers(c)
  BY <1>1, <1>3, <1>4, <1>6, <1>12, <1>13, <1>14, <1>15, <1>17, PublishTypes DEF Registers
<1>18. QED
  BY <1>16, <1>17, CallSteps

LEMMA TypesInit == Init => DeclaredTypes /\ CallTypes
<1> SUFFICES ASSUME Init PROVE DeclaredTypes /\ CallTypes
  OBVIOUS
<1>1. DOMAIN details = {0} /\ details[0] = << >> /\ applied = << >> /\ count = 0 /\ modelsDone = FALSE
  BY DEF Init
<1>2. IsFiniteSet({0}) /\ IsFiniteSet({}) /\ IsTable(<<>>)
  BY FS_Singleton, FS_EmptySet, TablesStay
<1>3. DeclaredTypes
  <2>1. IsTable(details)
    BY DEF Init, IsTable
  <2>2. 0 \in 0..MaxDeclarations
    BY DeclarationsAssumption
  <2>3. \A m \in DOMAIN details : IsTable(details[m])
    BY <1>1, <1>2
  <2>4. QED
    BY <1>1, <1>2, <2>1, <2>2, <2>3 DEF DeclaredTypes
<1>4. DOMAIN infos = {} /\ DOMAIN call = Callers /\ fatal = FALSE /\ \A c \in Callers : call[c] = Idle
  BY DEF Init
<1>5. QED
  BY <1>2, <1>3, <1>4 DEF CallTypes

(* One call steps, or the core declares.                                    *)
LEMMA TypesStep ==
    ASSUME DeclarationsInv, DeclaredTypes, CallTypes, [Next]_vars
    PROVE  DeclaredTypes' /\ CallTypes'
<1>1. CASE UNCHANGED vars
  BY <1>1 DEF vars, declared, devices, DeclaredTypes, CallTypes
<1>2. CASE Declare
  <2>1. UNCHANGED <<infos, call>> /\ fatal' \in {fatal, TRUE}
    BY <1>2 DEF Declare, RegisterModel, AddModel, RegisterParameter, Unregister, Fatal, devices
  <2>2. CallTypes'
    BY <2>1 DEF CallTypes
  <2>3. QED
    BY <1>2, <2>2, DeclareTypes
<1>3. ASSUME NEW c \in Callers, CallNext(c)
      PROVE  DeclaredTypes' /\ CallTypes'
  <2>1. CallTypes'
    BY <1>3, CallNextTypes
  <2>2. CASE UNCHANGED declared
    BY <2>1, <2>2 DEF declared, DeclaredTypes
  <2>3. CASE AutoAdd(c)
    BY <2>1, <2>3, AutoAddTypes
  <2>4. CASE Fatal
    BY <2>2, <2>4 DEF Fatal
  <2>5. CASE Connect(c) \/ AutoRegister(c) \/ CacheIDMaps(c) \/ Complete(c)
    BY <2>2, <2>4, <2>5 DEF Connect, AutoRegister, CacheIDMaps, Complete
  <2>6. CASE Registers(c)
    BY <2>2, <2>4, <2>6 DEF Registers, RegisterDevice, ReRegisterDevice, Begin, Check, Publish,
       Store, Clear, Erase
  <2>7. QED
    BY <1>3, <2>3, <2>5, <2>6, CallSteps
<1>4. QED
  BY <1>1, <1>2, <1>3 DEF Next

-----------------------------------------------------------------------------
(* The calls that register devices.                                         *)

LEMMA CallsInit == Init => CallsInv
<1> SUFFICES ASSUME Init PROVE CallsInv
  OBVIOUS
<1>1. DOMAIN infos = {} /\ DOMAIN states = {} /\ contested = {} /\ disturbed = {}
  BY DEF Init
<1>2. \A c \in Callers : call[c] = Idle
  BY DEF Init
<1>3. QED
  BY <1>1, <1>2 DEF CallsInv, Apart, OfCall, InCall

(* What is known of a call, and of a device, that a step leaves alone.      *)
LEMMA OfCallStays ==
    ASSUME CallsInv, Kept, NEW o \in Callers, UNCHANGED <<infos, states>>,
           call'[o] = call[o],
           contested \subseteq contested', disturbed \subseteq disturbed'
    PROVE  OfCall(o)'
<1>1. OfCall(o)
  BY DEF CallsInv
<1>2. InCall(o, {"check", "publish", "store"}) => UNCHANGED <<details, parametersDone>>
  BY <1>1 DEF OfCall, Kept
<1>3. QED
  BY <1>1, <1>2 DEF OfCall, InCall

LEMMA DevicesStay ==
    ASSUME CallsInv, Kept, UNCHANGED <<infos, states>>, contested \subseteq contested',
           \A o \in Callers : InCall(o, {"store"}) => call'[o] = call[o]
    PROVE  /\ DOMAIN infos' # {} => parametersDone'
           /\ \A d \in DOMAIN infos' \ contested' : InProgress(d)' \/ Stored(d)'
           /\ \A d \in DOMAIN infos' : infos'[d] \in DOMAIN details'
<1>1. DOMAIN infos # {} => UNCHANGED <<details, parametersDone>>
  BY DEF CallsInv, Kept
<1>2. \A d : InProgress(d) => InProgress(d)'
  BY DEF InProgress, InCall
<1>3. \A d \in DOMAIN infos : Stored(d) => Stored(d)'
  BY <1>1 DEF Stored
<1>4. QED
  BY <1>1, <1>2, <1>3 DEF CallsInv

(* Steps that leave the devices and the calls alone.                        *)
LEMMA CallsRest ==
    ASSUME CallsInv, Kept, UNCHANGED <<devices, call, history>>
    PROVE  CallsInv'
<1>1. UNCHANGED <<infos, states, call, contested, disturbed>>
  BY DEF devices, history
<1>2. \A o \in Callers : OfCall(o)'
  BY <1>1, OfCallStays
<1>3. Apart'
  BY <1>1 DEF CallsInv, Apart, InCall
<1>4. QED
  BY <1>1, <1>2, <1>3, DevicesStay DEF CallsInv

(* A call begins.  If its device is not registered and another call is      *)
(* about it too, the device is contested from here on.                      *)
LEMMA StartKeepsCalls ==
    ASSUME CallsInv, Kept, DOMAIN call = Callers,
           NEW c \in Callers, NEW d, NEW m, NEW at \in {"begin", "clear"},
           Starts(c, at, d, m), UNCHANGED devices, at = "clear" => d \notin DOMAIN infos
    PROVE  CallsInv'
<1>1. UNCHANGED <<infos, states>> /\ call[c] = Idle
  BY DEF devices, Starts
<1>2. /\ Others(c)
      /\ call'[c].at = at /\ call'[c].device = d /\ call'[c] # Idle
  BY AtMoves DEF Starts
<1>3. contested \subseteq contested' /\ disturbed \subseteq disturbed' /\ disturbed' \subseteq contested'
  BY DEF Starts, Records, CallsInv
<1>4. ASSUME NEW o \in Callers, o # c, call[o] # Idle, call[o].device = d, d # 0
      PROVE  /\ d \in DOMAIN infos \cup contested'
             /\ at = "clear" => d \in disturbed'
             /\ InCall(o, Clearing) => d \in disturbed'
  <2>1. About(d, c) /\ (InCall(o, Clearing) => Cleared(d, c))
    BY <1>4 DEF About, Cleared
  <2>2. CASE d \notin DOMAIN infos
    BY <1>4, <2>1, <2>2 DEF Starts, Records
  <2>3. CASE d \in DOMAIN infos
    <3>1. OfCall(o)
      BY DEF CallsInv
    <3>2. QED
      BY <1>3, <1>4, <2>3, <3>1 DEF OfCall
  <2>4. QED
    BY <2>2, <2>3
<1>5. Apart'
  <2> SUFFICES ASSUME NEW c1 \in Callers, NEW c2 \in Callers, c1 # c2,
                      call'[c1] # Idle, call'[c2] # Idle,
                      call'[c2].device = call'[c1].device, call'[c1].device # 0
               PROVE  /\ call'[c1].device \in DOMAIN infos' \cup contested'
                      /\ InCall(c1, Clearing)' => call'[c1].device \in disturbed'
                      /\ InCall(c1, {"store"})' /\ InCall(c2, {"store"})' => call'[c1].device \in contested'
    BY DEF Apart
  <2>1. CASE c1 # c /\ c2 # c
    <3>1. call'[c1] = call[c1] /\ call'[c2] = call[c2]
      BY <1>2, <2>1 DEF Others
    <3>2. QED
      BY <1>1, <1>3, <3>1 DEF CallsInv, Apart, InCall
  <2>2. CASE c1 = c
    <3>1. c2 # c /\ call'[c2] = call[c2]
      BY <1>2, <2>2 DEF Others
    <3>2. call[c2] # Idle /\ call[c2].device = d /\ d # 0
      BY <1>2, <2>2, <3>1
    <3>3. ~InCall(c1, {"store"})' /\ (InCall(c1, Clearing)' => at = "clear")
      BY <1>2, <2>2 DEF InCall, Clearing
    <3>4. QED
      BY <1>1, <1>2, <1>4, <2>2, <3>1, <3>2, <3>3
  <2>3. CASE c2 = c
    <3>1. c1 # c /\ call'[c1] = call[c1]
      BY <1>2, <2>3 DEF Others
    <3>2. call[c1] # Idle /\ call[c1].device = d /\ d # 0
      BY <1>2, <2>3, <3>1
    <3>3. ~InCall(c2, {"store"})' /\ (InCall(c1, Clearing)' => InCall(c1, Clearing))
      BY <1>2, <2>3, <3>1 DEF InCall
    <3>4. QED
      BY <1>1, <1>2, <1>4, <2>3, <3>1, <3>2, <3>3
  <2>4. QED
    BY <2>1, <2>2, <2>3
<1>6. \A o \in Callers : OfCall(o)'
  <2>1. \A o \in Callers : o # c => OfCall(o)'
    BY <1>1, <1>2, <1>3, OfCallStays DEF Others
  <2>2. OfCall(c)'
    BY <1>1, <1>2 DEF OfCall, InCall, Clearing
  <2>3. QED
    BY <2>1, <2>2
<1>7. \A o \in Callers : InCall(o, {"store"}) => call'[o] = call[o]
  BY <1>1, <1>2 DEF InCall, Others
<1>8. DOMAIN states' \subseteq DOMAIN infos' \cup disturbed'
  BY <1>1, <1>3 DEF CallsInv
<1>9. QED
  BY <1>1, <1>3, <1>5, <1>6, <1>7, <1>8, DevicesStay DEF CallsInv

(* A call goes on with the same device, or ends, and touches no device.     *)
LEMMA MoveKeepsCalls ==
    ASSUME CallsInv, Kept, DOMAIN call = Callers, NEW c \in Callers,
           ~InCall(c, {"store"}), call[c] # Idle,
           UNCHANGED <<infos, states, contested, disturbed>>, Others(c),
           \/ call'[c] = Idle
           \/ call'[c].device = call[c].device /\ ~InCall(c, Clearing \cup {"store"})',
           OfCall(c)'
    PROVE  CallsInv'
<1>1. Apart'
  <2> SUFFICES ASSUME NEW c1 \in Callers, NEW c2 \in Callers, c1 # c2,
                      call'[c1] # Idle, call'[c2] # Idle,
                      call'[c2].device = call'[c1].device, call'[c1].device # 0
               PROVE  /\ call'[c1].device \in DOMAIN infos' \cup contested'
                      /\ InCall(c1, Clearing)' => call'[c1].device \in disturbed'
                      /\ InCall(c1, {"store"})' /\ InCall(c2, {"store"})' => call'[c1].device \in contested'
    BY DEF Apart
  <2>1. \A o \in {c1, c2} : /\ call[o] # Idle /\ call[o].device = call'[o].device
                            /\ InCall(o, Clearing)' => InCall(o, Clearing)
                            /\ InCall(o, {"store"})' => InCall(o, {"store"})
    BY DEF Others, InCall
  <2>2. QED
    BY <2>1 DEF CallsInv, Apart
<1>2. \A o \in Callers : OfCall(o)'
  <2>1. \A o \in Callers : o # c => OfCall(o)'
    BY OfCallStays DEF Others
  <2>2. QED
    BY <2>1
<1>3. \A o \in Callers : InCall(o, {"store"}) => call'[o] = call[o]
  BY DEF Others
<1>4. QED
  BY <1>1, <1>2, <1>3, DevicesStay DEF CallsInv

(* A step that ends the declarations, or comes to the checks.               *)
LEMMA ClosingKeepsCalls ==
    ASSUME CallsInv, Kept, DOMAIN call = Callers, NEW c \in Callers,
           InCall(c, {"begin", "connect", "auto", "add", "cache", "complete"}),
           NEW at \in Closing \cup {"check"}, Moves(c, at), at = "check" => parametersDone',
           UNCHANGED <<infos, states, contested, disturbed>>
    PROVE  CallsInv'
<1>1. Others(c) /\ call'[c].at = at /\ call'[c].device = call[c].device
  BY AtMoves DEF Moves
<1>2. OfCall(c)' /\ ~InCall(c, Clearing \cup {"store"})'
  BY <1>1 DEF OfCall, InCall, Clearing, Closing
<1>3. call[c] # Idle /\ ~InCall(c, {"store"})
  BY DEF InCall
<1>4. QED
  BY <1>1, <1>2, <1>3, MoveKeepsCalls

LEMMA CheckKeepsCalls ==
    ASSUME CallsInv, Kept, DOMAIN call = Callers, NEW c \in Callers, Check(c)
    PROVE  CallsInv'
<1>1. /\ InCall(c, {"check"}) /\ UNCHANGED <<infos, states, details, parametersDone, contested, disturbed>>
      /\ call[c] # Idle /\ ~InCall(c, {"store"})
  BY DEF Check, InCall, declared, devices, history
<1>2. CASE Done(c)
  <2>1. Others(c) /\ call'[c] = Idle
    BY <1>2, DoneMoves
  <2>2. OfCall(c)'
    BY <2>1 DEF OfCall, InCall
  <2>3. QED
    BY <1>1, <2>1, <2>2, MoveKeepsCalls
<1>3. CASE /\ call[c].model \in DOMAIN details /\ call[c].device \notin DOMAIN infos
           /\ Moves(c, "publish")
  <2>1. /\ Others(c) /\ call'[c].at = "publish"
        /\ call'[c].device = call[c].device /\ call'[c].model = call[c].model
    BY <1>3, AtMoves DEF Moves
  <2>2. parametersDone
    BY <1>1 DEF CallsInv, OfCall, InCall
  <2>3. OfCall(c)' /\ ~InCall(c, Clearing \cup {"store"})'
    BY <1>1, <1>3, <2>1, <2>2 DEF OfCall, InCall, Clearing
  <2>4. QED
    BY <1>1, <2>1, <2>3, MoveKeepsCalls
<1>4. QED
  BY <1>2, <1>3 DEF Check, Taken

(* A device is published that no other call is about, or it is contested.   *)
LEMMA PublishKeepsCalls ==
    ASSUME CallsInv, Kept, CallTypes, NEW c \in Callers, Publish(c)
    PROVE  /\ CallsInv'
           /\ \A e \in DOMAIN states \ contested : e \in DOMAIN states' /\ states'[e] = states[e]
<1> DEFINE d == AssignedId(call[c].device)
           m == call[c].model
<1>0. DOMAIN call = Callers
  BY DEF CallTypes
<1>1. /\ InCall(c, {"publish"}) /\ call[c] # Idle
      /\ UNCHANGED <<states, details, parametersDone>>
      /\ infos' = Put(infos, d, m)
  BY DEF Publish, InCall, declared
<1>2. /\ Others(c) /\ call'[c] # Idle /\ call'[c].at = "store"
      /\ call'[c].device = d /\ call'[c].model = m
  BY <1>0, AtMoves DEF Publish
<1>3. /\ m \in DOMAIN details /\ parametersDone
      /\ call[c].device \notin DOMAIN infos \ contested
      /\ call[c].device \in Nat
  BY <1>1 DEF CallsInv, OfCall, InCall, CallTypes
<1>4. d # 0 /\ (call[c].device # 0 => d = call[c].device)
  BY <1>3, AssignedIdType DEF AssignedId
<1>5. contested \subseteq contested' /\ disturbed \subseteq disturbed' /\ disturbed' \subseteq contested'
  BY DEF Publish, Records, CallsInv
<1>6. d \notin DOMAIN infos \ contested'
  <2>1. CASE call[c].device = 0
    BY <2>1 DEF Publish, Records
  <2>2. CASE call[c].device # 0
    BY <1>3, <1>4, <1>5, <2>2
  <2>3. QED
    BY <2>1, <2>2
<1>7. ASSUME NEW o \in Callers, o # c, call[o] # Idle, call[o].device = d
      PROVE  d \in contested' /\ (InCall(o, Clearing) => d \in disturbed')
  <2>1. About(d, c) /\ (InCall(o, Clearing) => Cleared(d, c))
    BY <1>7 DEF About, Cleared
  <2>2. CASE call[c].device = 0
    BY <2>1, <2>2 DEF Publish, Records
  <2>3. CASE call[c].device # 0
    <3>1. d \in DOMAIN infos \cup contested /\ (InCall(o, Clearing) => d \in disturbed)
      BY <1>1, <1>4, <1>7, <2>3 DEF CallsInv, Apart
    <3>2. QED
      BY <1>5, <1>6, <3>1
  <2>4. QED
    BY <2>2, <2>3
<1>8. /\ DOMAIN infos' = DOMAIN infos \cup {d} /\ infos'[d] = m
      /\ \A e \in DOMAIN infos : e # d => infos'[e] = infos[e]
  BY <1>1 DEF Put
<1>9. d \notin DOMAIN states \ contested'
  BY <1>5, <1>6 DEF CallsInv
<1> HIDE DEF d, m
<1>10. Apart'
  <2> SUFFICES ASSUME NEW c1 \in Callers, NEW c2 \in Callers, c1 # c2,
                      call'[c1] # Idle, call'[c2] # Idle,
                      call'[c2].device = call'[c1].device, call'[c1].device # 0
               PROVE  /\ call'[c1].device \in DOMAIN infos' \cup contested'
                      /\ InCall(c1, Clearing)' => call'[c1].device \in disturbed'
                      /\ InCall(c1, {"store"})' /\ InCall(c2, {"store"})' => call'[c1].device \in contested'
    BY DEF Apart
  <2>1. CASE c1 # c /\ c2 # c
    <3>1. call'[c1] = call[c1] /\ call'[c2] = call[c2]
      BY <1>2, <2>1 DEF Others
    <3>2. QED
      BY <1>5, <1>8, <3>1 DEF CallsInv, Apart, InCall
  <2>2. CASE c1 = c
    <3>1. c2 # c /\ call'[c2] = call[c2] /\ call[c2].device = d /\ call[c2] # Idle
      BY <1>2, <2>2 DEF Others
    <3>2. ~InCall(c1, Clearing)'
      BY <1>2, <2>2 DEF InCall, Clearing
    <3>3. QED
      BY <1>2, <1>7, <2>2, <3>1, <3>2
  <2>3. CASE c2 = c
    <3>1. c1 # c /\ call'[c1] = call[c1] /\ call[c1].device = d /\ call[c1] # Idle
      BY <1>2, <2>3 DEF Others
    <3>2. InCall(c1, Clearing)' => InCall(c1, Clearing)
      BY <3>1 DEF InCall
    <3>3. QED
      BY <1>2, <1>7, <2>3, <3>1, <3>2
  <2>4. QED
    BY <2>1, <2>2, <2>3
<1>11. \A o \in Callers : OfCall(o)'
  <2>1. OfCall(c)'
    BY <1>1, <1>2, <1>3, <1>4, <1>8, <1>9 DEF OfCall, InCall, Clearing
  <2>2. ASSUME NEW o \in Callers, o # c
        PROVE  OfCall(o)'
    <3>1. call'[o] = call[o] /\ OfCall(o)
      BY <1>2, <2>2 DEF Others, CallsInv
    <3>2. CASE call[o] = Idle
      BY <3>1, <3>2 DEF OfCall, InCall
    <3>3. CASE call[o] # Idle /\ call[o].device = d
      <4>1. d \in contested' /\ (InCall(o, Clearing) => d \in disturbed')
        BY <1>7, <2>2, <3>3
      <4>2. QED
        BY <1>1, <1>4, <1>8, <3>1, <3>3, <4>1 DEF OfCall, InCall
    <3>4. CASE call[o] # Idle /\ call[o].device # d
      BY <1>1, <1>5, <1>8, <3>1, <3>4 DEF OfCall, InCall
    <3>5. QED
      BY <3>2, <3>3, <3>4
  <2>3. QED
    BY <2>1, <2>2
<1>12. \A e \in DOMAIN infos' \ contested' : InProgress(e)' \/ Stored(e)'
  <2>1. ASSUME NEW e, e = d
        PROVE  InProgress(e)'
    BY <1>2, <2>1 DEF InProgress, InCall
  <2>2. ASSUME NEW e \in DOMAIN infos \ contested, e # d
        PROVE  InProgress(e)' \/ Stored(e)'
    <3>1. CASE InProgress(e)
      <4>1. PICK o \in Callers : InCall(o, {"store"}) /\ call[o].device = e
        BY <3>1 DEF InProgress
      <4>2. o # c /\ call'[o] = call[o]
        BY <1>1, <1>2, <4>1 DEF InCall, Others
      <4>3. QED
        BY <4>1, <4>2 DEF InProgress, InCall
    <3>2. CASE Stored(e)
      BY <1>1, <1>8, <2>2, <3>2 DEF Stored
    <3>3. QED
      BY <2>2, <3>1, <3>2 DEF CallsInv
  <2>3. QED
    BY <1>5, <1>8, <2>1, <2>2
<1>13. QED
  BY <1>1, <1>3, <1>5, <1>8, <1>10, <1>11, <1>12 DEF CallsInv

(* Values are stored for a device that is published and has none, or that   *)
(* is contested.                                                            *)
LEMMA StoreKeepsCalls ==
    ASSUME CallsInv, Kept, DOMAIN call = Callers, NEW c \in Callers, Store(c)
    PROVE  /\ CallsInv'
           /\ \A e \in DOMAIN states \ contested : e \in DOMAIN states' /\ states'[e] = states[e]
<1> DEFINE d == call[c].device
           m == call[c].model
<1>1. /\ InCall(c, {"store"}) /\ call[c] # Idle
      /\ UNCHANGED <<infos, details, parametersDone, contested, disturbed>>
      /\ states' = Put(states, d, Buffers(m))
  BY DEF Store, InCall, declared, history
<1>2. Others(c) /\ call'[c] = Idle
  BY DoneMoves DEF Store
<1>3. /\ d # 0 /\ d \in DOMAIN infos \cup disturbed
      /\ d \notin contested => infos[d] = m /\ d \notin DOMAIN states
  BY <1>1 DEF CallsInv, OfCall
<1>4. /\ DOMAIN states' = DOMAIN states \cup {d}
      /\ DOMAIN states'[d] = DOMAIN details[m]
      /\ \A e \in DOMAIN states : e # d => states'[e] = states[e]
  BY <1>1 DEF Put, Buffers
<1>5. \A o \in Callers : o # c /\ InCall(o, {"store"}) /\ call[o].device = d => d \in contested
  BY <1>1, <1>3 DEF CallsInv, Apart, InCall
<1> HIDE DEF d, m
<1>6. Apart'
  BY <1>1, <1>2 DEF CallsInv, Apart, InCall, Others
<1>7. \A o \in Callers : OfCall(o)'
  <2>1. OfCall(c)'
    BY <1>2 DEF OfCall, InCall
  <2>2. ASSUME NEW o \in Callers, o # c
        PROVE  OfCall(o)'
    <3>1. call'[o] = call[o] /\ OfCall(o)
      BY <1>2, <2>2 DEF Others, CallsInv
    <3>2. InCall(o, {"store"}) /\ call[o].device \notin contested => call[o].device \notin DOMAIN states'
      BY <1>4, <1>5, <2>2, <3>1 DEF OfCall
    <3>3. QED
      BY <1>1, <3>1, <3>2 DEF OfCall, InCall
  <2>3. QED
    BY <2>1, <2>2
<1>8. \A e \in DOMAIN infos' \ contested' : InProgress(e)' \/ Stored(e)'
  <2> SUFFICES ASSUME NEW e \in DOMAIN infos \ contested
               PROVE  InProgress(e)' \/ Stored(e)'
    BY <1>1
  <2>1. CASE e = d
    BY <1>1, <1>3, <1>4, <2>1 DEF Stored
  <2>2. CASE e # d /\ InProgress(e)
    <3>1. PICK o \in Callers : InCall(o, {"store"}) /\ call[o].device = e
      BY <2>2 DEF InProgress
    <3>2. o # c /\ call'[o] = call[o]
      BY <1>2, <2>2, <3>1 DEF Others, d
    <3>3. QED
      BY <3>1, <3>2 DEF InProgress, InCall
  <2>3. CASE e # d /\ Stored(e)
    BY <1>1, <1>4, <2>3 DEF Stored
  <2>4. QED
    BY <2>1, <2>2, <2>3 DEF CallsInv
<1>9. QED
  BY <1>1, <1>3, <1>4, <1>6, <1>7, <1>8 DEF CallsInv

(* A ReRegisterDevice call has nothing to clear, unless another call is     *)
(* about the device.                                                        *)
LEMMA ClearKeepsCalls ==
    ASSUME CallsInv, Kept, DOMAIN call = Callers, NEW c \in Callers, Clear(c)
    PROVE  CallsInv'
<1> DEFINE d == call[c].device
<1>1. /\ InCall(c, {"clear"}) /\ call[c] # Idle
      /\ UNCHANGED <<states, details, parametersDone, contested, disturbed>>
      /\ infos' = Drop(infos, d)
  BY DEF Clear, InCall, declared, history
<1>2. /\ Others(c) /\ call'[c] # Idle /\ call'[c].at = "erase" /\ call'[c].device = d
  BY AtMoves DEF Clear, Moves
<1>3. d \notin DOMAIN infos \ disturbed /\ InCall(c, Clearing)
  BY <1>1 DEF CallsInv, OfCall, InCall, Clearing
<1>4. DOMAIN infos' = DOMAIN infos \ {d} /\ \A e \in DOMAIN infos' : infos'[e] = infos[e]
  BY <1>1 DEF Drop
<1>5. \A e \in DOMAIN infos \ disturbed : e \in DOMAIN infos' /\ infos'[e] = infos[e]
  BY <1>3, <1>4
<1>6. disturbed \subseteq contested
  BY DEF CallsInv
<1>7. Apart'
  <2> SUFFICES ASSUME NEW c1 \in Callers, NEW c2 \in Callers, c1 # c2,
                      call'[c1] # Idle, call'[c2] # Idle,
                      call'[c2].device = call'[c1].device, call'[c1].device # 0
               PROVE  /\ call'[c1].device \in DOMAIN infos' \cup contested'
                      /\ InCall(c1, Clearing)' => call'[c1].device \in disturbed'
                      /\ InCall(c1, {"store"})' /\ InCall(c2, {"store"})' => call'[c1].device \in contested'
    BY DEF Apart
  <2>1. \A o \in {c1, c2} : /\ call[o] # Idle /\ call[o].device = call'[o].device
                            /\ InCall(o, Clearing)' => InCall(o, Clearing)
                            /\ InCall(o, {"store"})' => InCall(o, {"store"})
    BY <1>1, <1>2, <1>3 DEF Others, InCall
  <2>2. /\ call[c1].device \in DOMAIN infos \cup contested
        /\ InCall(c1, Clearing) => call[c1].device \in disturbed
        /\ InCall(c1, {"store"}) /\ InCall(c2, {"store"}) => call[c1].device \in contested
    BY <2>1 DEF CallsInv, Apart
  <2>3. QED
    BY <1>1, <1>5, <1>6, <2>1, <2>2
<1> HIDE DEF d
<1>8. \A o \in Callers : OfCall(o)'
  <2>1. OfCall(c)'
    BY <1>2, <1>4 DEF OfCall, InCall
  <2>2. ASSUME NEW o \in Callers, o # c
        PROVE  OfCall(o)'
    <3>1. call'[o] = call[o] /\ OfCall(o)
      BY <1>2, <2>2 DEF Others, CallsInv
    <3>2. QED
      BY <1>1, <1>4, <1>5, <1>6, <3>1 DEF OfCall, InCall
  <2>3. QED
    BY <2>1, <2>2
<1>9. \A e \in DOMAIN infos' \ contested' : InProgress(e)' \/ Stored(e)'
  <2> SUFFICES ASSUME NEW e \in DOMAIN infos', e \notin contested
               PROVE  InProgress(e)' \/ Stored(e)'
    BY <1>1
  <2>1. e \in DOMAIN infos /\ infos'[e] = infos[e]
    BY <1>4
  <2>2. CASE InProgress(e)
    <3>1. PICK o \in Callers : InCall(o, {"store"}) /\ call[o].device = e
      BY <2>2 DEF InProgress
    <3>2. o # c /\ call'[o] = call[o]
      BY <1>1, <1>2, <3>1 DEF Others, InCall
    <3>3. QED
      BY <3>1, <3>2 DEF InProgress, InCall
  <2>3. CASE Stored(e)
    BY <1>1, <2>1, <2>3 DEF Stored
  <2>4. QED
    BY <2>1, <2>2, <2>3 DEF CallsInv
<1>10. DOMAIN states' \subseteq DOMAIN infos' \cup disturbed'
  BY <1>1, <1>5 DEF CallsInv
<1>11. QED
  BY <1>1, <1>4, <1>7, <1>8, <1>9, <1>10 DEF CallsInv

LEMMA EraseKeepsCalls ==
    ASSUME CallsInv, Kept, DOMAIN call = Callers, NEW c \in Callers, Erase(c)
    PROVE  /\ CallsInv'
           /\ \A e \in DOMAIN states \ contested : e \in DOMAIN states' /\ states'[e] = states[e]
<1> DEFINE d == call[c].device
<1>1. /\ InCall(c, {"erase"}) /\ call[c] # Idle
      /\ UNCHANGED <<infos, details, parametersDone, contested, disturbed>>
      /\ states' = Drop(states, d)
  BY DEF Erase, InCall, declared, history
<1>2. /\ Others(c) /\ call'[c] # Idle /\ call'[c].at = "begin" /\ call'[c].device = d
  BY AtMoves DEF Erase, Moves
<1>3. d \notin DOMAIN infos \ disturbed /\ InCall(c, Clearing)
  BY <1>1 DEF CallsInv, OfCall, InCall, Clearing
<1>4. DOMAIN states' = DOMAIN states \ {d} /\ \A e \in DOMAIN states' : states'[e] = states[e]
  BY <1>1 DEF Drop
<1>5. \A e \in DOMAIN states \ contested : e \in DOMAIN states' /\ states'[e] = states[e]
  BY <1>3, <1>4 DEF CallsInv
<1>6. Apart'
  <2> SUFFICES ASSUME NEW c1 \in Callers, NEW c2 \in Callers, c1 # c2,
                      call'[c1] # Idle, call'[c2] # Idle,
                      call'[c2].device = call'[c1].device, call'[c1].device # 0
               PROVE  /\ call'[c1].device \in DOMAIN infos' \cup contested'
                      /\ InCall(c1, Clearing)' => call'[c1].device \in disturbed'
                      /\ InCall(c1, {"store"})' /\ InCall(c2, {"store"})' => call'[c1].device \in contested'
    BY DEF Apart
  <2>1. \A o \in {c1, c2} : /\ call[o] # Idle /\ call[o].device = call'[o].device
                            /\ InCall(o, Clearing)' => InCall(o, Clearing)
                            /\ InCall(o, {"store"})' => InCall(o, {"store"})
    BY <1>1, <1>2, <1>3 DEF Others, InCall
  <2>2. /\ call[c1].device \in DOMAIN infos \cup contested
        /\ InCall(c1, Clearing) => call[c1].device \in disturbed
        /\ InCall(c1, {"store"}) /\ InCall(c2, {"store"}) => call[c1].device \in contested
    BY <2>1 DEF CallsInv, Apart
  <2>3. QED
    BY <1>1, <2>1, <2>2
<1> HIDE DEF d
<1>7. \A o \in Callers : OfCall(o)'
  <2>1. OfCall(c)'
    BY <1>2 DEF OfCall, InCall, Clearing
  <2>2. ASSUME NEW o \in Callers, o # c
        PROVE  OfCall(o)'
    <3>1. call'[o] = call[o] /\ OfCall(o)
      BY <1>2, <2>2 DEF Others, CallsInv
    <3>2. QED
      BY <1>1, <1>4, <3>1 DEF OfCall, InCall
  <2>3. QED
    BY <2>1, <2>2
<1>8. \A e \in DOMAIN infos' \ contested' : InProgress(e)' \/ Stored(e)'
  <2> SUFFICES ASSUME NEW e \in DOMAIN infos, e \notin contested
               PROVE  InProgress(e)' \/ Stored(e)'
    BY <1>1
  <2>1. CASE InProgress(e)
    <3>1. PICK o \in Callers : InCall(o, {"store"}) /\ call[o].device = e
      BY <2>1 DEF InProgress
    <3>2. o # c /\ call'[o] = call[o]
      BY <1>1, <1>2, <3>1 DEF Others, InCall
    <3>3. QED
      BY <3>1, <3>2 DEF InProgress, InCall
  <2>2. CASE Stored(e)
    BY <1>1, <1>5, <2>2 DEF Stored
  <2>3. QED
    BY <2>1, <2>2 DEF CallsInv
<1>9. DOMAIN states' \subseteq DOMAIN infos' \cup disturbed'
  BY <1>1, <1>4 DEF CallsInv
<1>10. QED
  BY <1>1, <1>5, <1>6, <1>7, <1>8, <1>9 DEF CallsInv

(* No step breaks what is known of the devices, and none takes or replaces  *)
(* the values of one that is not contested.                                 *)
LEMMA CallsStep ==
    ASSUME DeclarationsInv, ClosingInv, DeclaredTypes, CallTypes, CallsInv, [Next]_vars
    PROVE  /\ CallsInv'
           /\ \A e \in DOMAIN states \ contested : e \in DOMAIN states' /\ states'[e] = states[e]
<1> DEFINE Goal == /\ CallsInv'
                  /\ \A e \in DOMAIN states \ contested : e \in DOMAIN states' /\ states'[e] = states[e]
<1>0. Kept /\ DOMAIN call = Callers
  BY DeclaredStep DEF CallTypes
<1>1. CASE UNCHANGED <<devices, call, history>>
  BY <1>0, <1>1, CallsRest DEF devices
<1>2. CASE Declare
  BY <1>1, <1>2 DEF Declare, RegisterModel, AddModel, RegisterParameter, Unregister, Fatal
<1>3. ASSUME NEW c \in Callers, CallNext(c)
      PROVE  Goal
  <2>1. CASE Fatal
    BY <1>1, <2>1 DEF Fatal
  <2>2. ASSUME NEW d, NEW m, RegisterDevice(c, d, m)
        PROVE  Goal
    BY <1>0, <2>2, StartKeepsCalls DEF RegisterDevice, devices
  <2>3. ASSUME NEW d, NEW m, ReRegisterDevice(c, d, m), ~Fatal
        PROVE  Goal
    BY <1>0, <2>3, StartKeepsCalls DEF ReRegisterDevice, devices
  <2>4. ASSUME InCall(c, {"begin", "connect", "auto", "add", "cache", "complete"}),
               NEW at \in Closing \cup {"check"}, Moves(c, at), at = "check" => parametersDone',
               UNCHANGED <<devices, history>>
        PROVE  Goal
    BY <1>0, <2>4, ClosingKeepsCalls DEF devices, history
  <2>5. CASE Begin(c)
    <3>1. InCall(c, {"begin", "connect", "auto", "add", "cache", "complete"}) /\ UNCHANGED <<devices, history>>
      BY <2>5 DEF Begin, InCall
    <3>2. PICK at \in Closing \cup {"check"} : Moves(c, at) /\ (at = "check" => parametersDone')
      BY <2>5 DEF Begin, Closing
    <3>3. QED
      BY <2>4, <3>1, <3>2
  <2>6. CASE Connect(c)
    <3>1. InCall(c, {"begin", "connect", "auto", "add", "cache", "complete"}) /\ UNCHANGED <<devices, history>>
      BY <2>6 DEF Connect, InCall
    <3>2. PICK at \in {"cache", "auto"} : Moves(c, at)
      BY <2>6 DEF Connect
    <3>3. at \in Closing \cup {"check"} /\ at # "check"
      BY <3>2 DEF Closing
    <3>4. QED
      BY <2>4, <3>1, <3>2, <3>3
  <2>7. CASE AutoRegister(c) /\ ~Fatal
    <3>1. /\ InCall(c, {"begin", "connect", "auto", "add", "cache", "complete"}) /\ UNCHANGED <<devices, history>>
          /\ Moves(c, "add")
      BY <2>7 DEF AutoRegister, InCall
    <3>2. QED
      BY <2>4, <3>1 DEF Closing
  <2>8. CASE AutoAdd(c)
    <3>1. /\ InCall(c, {"begin", "connect", "auto", "add", "cache", "complete"}) /\ UNCHANGED <<devices, history>>
          /\ Moves(c, "cache")
      BY <2>8 DEF AutoAdd, InCall
    <3>2. QED
      BY <2>4, <3>1 DEF Closing
  <2>9. CASE CacheIDMaps(c)
    <3>1. /\ InCall(c, {"begin", "connect", "auto", "add", "cache", "complete"}) /\ UNCHANGED <<devices, history>>
          /\ Moves(c, "complete")
      BY <2>9 DEF CacheIDMaps, InCall
    <3>2. QED
      BY <2>4, <3>1 DEF Closing
  <2>10. CASE Complete(c)
    <3>1. /\ InCall(c, {"begin", "connect", "auto", "add", "cache", "complete"}) /\ UNCHANGED <<devices, history>>
          /\ Moves(c, "check") /\ parametersDone'
      BY <2>10 DEF Complete, InCall
    <3>2. QED
      BY <2>4, <3>1
  <2>11. CASE Check(c)
    BY <1>0, <2>11, CheckKeepsCalls DEF Check, devices
  <2>12. CASE Clear(c)
    BY <1>0, <2>12, ClearKeepsCalls DEF Clear
  <2>13. CASE Publish(c) \/ Store(c) \/ Erase(c)
    BY <1>0, <2>13, PublishKeepsCalls, StoreKeepsCalls, EraseKeepsCalls
  <2>14. CASE Registers(c)
    BY <2>1, <2>2, <2>3, <2>5, <2>11, <2>12, <2>13, <2>14 DEF Registers
  <2>15. QED
    BY <1>3, <2>1, <2>6, <2>7, <2>8, <2>9, <2>10, <2>14, CallSteps
<1>4. QED
  BY <1>1, <1>2, <1>3 DEF Next, vars

-----------------------------------------------------------------------------
(* All of it together.                                                      *)
Inv == DeclarationsInv /\ ClosingInv /\ DeclaredTypes /\ CallTypes /\ CallsInv

LEMMA InvStep ==
    ASSUME Inv, [Next]_vars
    PROVE  /\ Inv' /\ Kept
           /\ \A e \in DOMAIN states \ contested : e \in DOMAIN states' /\ states'[e] = states[e]
  BY DeclaredStep, TypesStep, CallsStep DEF Inv

LEMMA InvHolds == Spec => []Inv
<1>1. Init => Inv
  BY DeclaredInit, TypesInit, CallsInit DEF Inv
<1>2. Inv /\ [Next]_vars => Inv'
  BY InvStep
<1>3. QED
  BY <1>1, <1>2, PTL DEF Spec

-----------------------------------------------------------------------------
(* The properties of the declarations.                                      *)

(* A parameter has one id, in every model that has it: the id PID finds.    *)
THEOREM OneIdPerNameHolds == Spec => []OneIdPerName
<1>1. Inv => OneIdPerName
  <2> SUFFICES ASSUME DeclarationsInv,
                      NEW m1 \in DOMAIN details, NEW m2 \in DOMAIN details,
                      NEW p1 \in DOMAIN details[m1], NEW p2 \in DOMAIN details[m2]
               PROVE  /\ (details[m1][p1] = details[m2][p2]) <=> (p1 = p2)
                      /\ p1 \in DOMAIN details[0]
    BY DEF OneIdPerName, Inv
  <2>1. /\ p1 \in DOMAIN details[0] /\ details[0][p1] = details[m1][p1]
        /\ p2 \in DOMAIN details[0] /\ details[0][p2] = details[m2][p2]
    BY DEF DeclarationsInv, Sound
  <2>2. details[0][p1] = details[0][p2] => p1 = p2
    BY <2>1 DEF DeclarationsInv, Sound
  <2>3. QED
    BY <2>1, <2>2
<1>2. QED
  BY <1>1, InvHolds, PTL

(* The name tables, fixed by the first calls, however many at once, are     *)
(* those of the parameters, the automatic connection included.              *)
THEOREM CacheFreshHolds == Spec => []CacheFresh
<1>1. Inv => CacheFresh
  BY DEF Inv, ClosingInv, CacheFresh
<1>2. QED
  BY <1>1, InvHolds, PTL

(* A core with devices has a connection state.                              *)
THEOREM ConnectionDeclaredHolds == Spec => []ConnectionDeclared
<1>1. Inv => ConnectionDeclared
  BY DEF Inv, DeclarationsInv, ClosingInv, ConnectionDeclared, Named
<1>2. QED
  BY <1>1, InvHolds, PTL

(* What the workers read without a lock is the same ever after.             *)
THEOREM DetailsFrozenHolds == Spec => DetailsFrozen
<1>1. Inv /\ [Next]_vars => [parametersDone => details' = details /\ Applied' = Applied]_vars
  BY InvStep DEF Kept
<1>2. QED
  BY <1>1, InvHolds, PTL DEF Spec, DetailsFrozen

-----------------------------------------------------------------------------
(* The properties of the devices.                                           *)

(* Looking up the model of a device that has values never ends the process, *)
(* however RegisterDevice calls for it interleave; only a ReRegisterDevice  *)
(* that clears it beside another call can take the information away.        *)
THEOREM StatesHaveInfoHolds == Spec => []StatesHaveInfo
<1>1. Inv => StatesHaveInfo
  BY DEF Inv, CallsInv, StatesHaveInfo
<1>2. QED
  BY <1>1, InvHolds, PTL

(* All getters know the same parameters of a device that no two calls raced *)
(* to register.                                                             *)
THEOREM GettersAgreeHolds == Spec => []GettersAgree
<1>1. Inv => GettersAgree
  <2> SUFFICES ASSUME Inv, NEW d \in DOMAIN infos \ contested, ~InProgress(d), NEW p
               PROVE  /\ HasValue(d, p) <=> HasDetail(d, p)
                      /\ HasValue(d, p) => p \in DOMAIN cache[ModelOf(d)]
    BY DEF GettersAgree
  <2>1. d \in DOMAIN states /\ DOMAIN states[d] = DOMAIN details[infos[d]]
    BY DEF Inv, CallsInv, Stored
  <2>2. cache = details
    BY DEF Inv, CallsInv, ClosingInv
  <2>3. QED
    BY <2>1, <2>2 DEF HasValue, HasDetail, ModelOf
<1>2. QED
  BY <1>1, InvHolds, PTL

(* Registering a device never replaces the model or the values of one that  *)
(* is registered, unless two calls raced to register it or its id was       *)
(* assigned once more.                                                      *)
THEOREM NothingReplacedHolds == Spec => NothingReplaced
<1>1. Inv /\ [Next]_vars =>
          [\A d \in DOMAIN states \ contested : d \in DOMAIN states' /\ states'[d] = states[d]]_vars
  BY InvStep
<1>2. QED
  BY <1>1, InvHolds, PTL DEF Spec, NothingReplaced

(* The tables hold names under ids, the options belong to models there are, *)
(* and devices have numbers other than 0, however ids are assigned.         *)
THEOREM TypeOKHolds == Spec => []TypeOK
<1>1. Inv => TypeOK
  <2> SUFFICES ASSUME Inv PROVE TypeOK
    OBVIOUS
  <2>0. DeclarationsInv /\ DeclaredTypes /\ CallTypes /\ CallsInv
    BY DEF Inv
  <2>1. ASSUME NEW m \in DOMAIN details PROVE details[m] \in Tables
    <3> DEFINE S == DOMAIN details[m]
    <3>1. \A p \in S : p \in Ids /\ details[m][p] \in Names
      BY <2>0 DEF DeclarationsInv, Sound, Ids
    <3>2. S \in SUBSET Ids
      BY <3>1
    <3>3. details[m] \in [S -> Names]
      BY <2>0, <3>1 DEF DeclaredTypes, IsTable
    <3>4. QED
      BY <3>2, <3>3 DEF Tables, Ids
  <2>2. ASSUME NEW i \in DOMAIN applied
        PROVE  applied[i] \in [model: DOMAIN details, id: Nat \ {0}, option: Options]
    <3>1. applied[i] \in AppliedTo(details)
      BY <2>0, LenProperties, ElementOfSeq DEF DeclaredTypes
    <3>2. QED
      BY <3>1, IdsAreNumbers DEF AppliedTo
  <2>3. 0 \in DOMAIN details /\ {modelsDone, parametersDone, connectionExists, fatal} \subseteq BOOLEAN
    BY <2>0 DEF DeclarationsInv, Sound, DeclaredTypes, CallTypes
  <2>4. QED
    BY <2>0, <2>1, <2>2, <2>3 DEF TypeOK, DeclaredTypes, CallTypes, CallsInv
<1>2. QED
  BY <1>1, InvHolds, PTL
=============================================================================
