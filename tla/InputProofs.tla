----------------------------- MODULE InputProofs -----------------------------
(***************************************************************************)
(* Proofs about the parts of the registry that compute: whatever they are  *)
(* given, they agree with their references.  The recursions go over        *)
(* numbers and paths; CountedUp is the induction they are proved by.       *)
(***************************************************************************)
EXTENDS RegistryInputs, FiniteSetTheorems, SequenceTheorems, WellFoundedInduction, TLAPS

(* A set of numbers that has 0 and with each number the next has them all. *)
LEMMA CountedUp ==
    ASSUME NEW T, 0 \in T, \A n \in Nat : n \in T => n + 1 \in T
    PROVE  \A n \in Nat : n \in T
<1> DEFINE R == {ss \in Nat \X Nat : ss[1] < ss[2]}
           Left == {n \in Nat : n \notin T}
<1>1. IsWellFoundedOn(R, Nat)
  BY NatLessThanWellFounded DEF OpToRel
<1>2. \A m, n \in Nat : <<m, n>> \in R <=> m < n
  OBVIOUS
<1> HIDE DEF R
<1>3. SUFFICES ASSUME Left # {} PROVE FALSE
  OBVIOUS
<1>4. PICK n \in Left : \A m \in Left : <<m, n>> \notin R
  <2>1. Left \subseteq Nat
    OBVIOUS
  <2> HIDE DEF Left
  <2>2. QED
    BY <1>1, <1>3, <2>1, WFMin
<1>5. n \in Nat \ {0} /\ n \notin T
  BY <1>4
<1>6. n - 1 \in Nat /\ n - 1 \notin Left
  <2>1. n - 1 \in Nat /\ n \in Nat /\ n - 1 < n
    BY <1>5
  <2>2. <<n - 1, n>> \in R
    BY <1>2, <2>1
  <2> HIDE DEF Left
  <2>3. QED
    BY <1>4, <2>1, <2>2
<1>7. n - 1 + 1 \in T
  BY <1>6
<1>8. QED
  BY <1>5, <1>7

-----------------------------------------------------------------------------
(* Ranges.                                                                 *)

(* A positive multiple of b is b times a positive whole number.            *)
LEMMA WholeTimes ==
    ASSUME NEW a \in Int, NEW b \in Int, a > 0, b > 0, a % b = 0
    PROVE  a \div b \in Nat \ {0} /\ a = b * (a \div b)
  OBVIOUS

(* Dividing and multiplying by the same positive number keep the order.    *)
LEMMA Ordered ==
    ASSUME NEW x \in Int, NEW y \in Int, NEW k \in Nat \ {0}, x <= y
    PROVE  x \div k <= y \div k /\ x * k <= y * k
  OBVIOUS

(* What was multiplied divides back.                                       *)
LEMMA Multiples ==
    ASSUME NEW a \in Int, NEW k \in Int, a > 0, k > 0
    PROVE  (a * k) \div k = a /\ 0 \div k = 0
  OBVIOUS

(* Remainders of a number by a larger one and by itself.                   *)
LEMMA Remainders ==
    ASSUME NEW a \in Int, NEW b \in Int, a > 0, b > 0
    PROVE  /\ b > a => a % b = a
           /\ a % a = 0
  OBVIOUS

(* Normalise between any two ranges of which one holds the other a whole   *)
(* number of times.                                                        *)
LEMMA Normalising ==
    ASSUME NEW low \in Int, NEW high \in Int, NEW newLow \in Int, NEW newHigh \in Int
    PROVE  NormalisesWithin(low, high, newLow, newHigh)
<1> DEFINE a == high - low
           b == newHigh - newLow
           to(v) == Normalise(v, low, high, newLow, newHigh)
<1>1. SUFFICES ASSUME a > 0, b > 0, a % b = 0 \/ b % a = 0
               PROVE  /\ to(low) = newLow /\ to(high) = newHigh
                      /\ \A v, w \in low..high : v <= w => to(v) <= to(w)
                      /\ \A v \in low..high : Constrain(to(v), newLow, newHigh) = to(v)
  BY DEF NormalisesWithin, Whole
<1>2. SUFFICES /\ to(low) = newLow /\ to(high) = newHigh
               /\ \A v \in low..high : to(v) \in Int
               /\ \A v, w \in low..high : v <= w => to(v) <= to(w)
  <2> HIDE DEF to
  <2>1. low \in low..high /\ high \in low..high
    BY <1>1
  <2>2. ASSUME NEW v \in low..high PROVE Constrain(to(v), newLow, newHigh) = to(v)
    <3>1. to(low) <= to(v) /\ to(v) <= to(high)
      BY <1>2, <2>1
    <3>2. QED
      BY <1>2, <3>1 DEF Constrain
  <2>3. QED
    BY <1>2, <2>2
<1>3. CASE b > a
  <2> DEFINE k == b \div a
  <2>1. k \in Nat \ {0} /\ b = a * k
    BY <1>1, <1>3, WholeTimes, Remainders
  <2>2. \A v : to(v) = newLow + (v - low) * k
    BY <1>3 DEF Normalise
  <2> HIDE DEF k, to
  <2>3. to(low) = newLow /\ to(high) = newHigh
    BY <2>1, <2>2
  <2>4. \A v, w \in low..high : v <= w => (v - low) * k <= (w - low) * k
    BY <2>1, Ordered
  <2>5. \A v \in low..high : (v - low) * k \in Int
    BY <2>1
  <2>6. \A v \in low..high : to(v) \in Int
    BY <2>2, <2>5
  <2>7. \A v, w \in low..high : v <= w => to(v) <= to(w)
    BY <2>2, <2>4, <2>5
  <2>8. QED
    BY <2>3, <2>6, <2>7
<1>4. CASE ~(b > a)
  <2> DEFINE k == a \div b
  <2>1. a % b = 0
    BY <1>1, <1>4, Remainders
  <2>2. k \in Nat \ {0} /\ a = b * k
    BY <1>1, <2>1, WholeTimes
  <2>3. \A v : to(v) = newLow + (v - low) \div k
    BY <1>4 DEF Normalise
  <2> HIDE DEF k, to
  <2>4. (high - low) \div k = newHigh - newLow /\ (low - low) \div k = 0
    BY <1>1, <2>2, Multiples
  <2>5. to(low) = newLow /\ to(high) = newHigh
    BY <2>3, <2>4
  <2>6. \A v, w \in low..high : v <= w => (v - low) \div k <= (w - low) \div k
    BY <2>2, Ordered
  <2>7. \A v \in low..high : (v - low) \div k \in Int
    BY <2>2
  <2>8. \A v \in low..high : to(v) \in Int
    BY <2>3, <2>7
  <2>9. \A v, w \in low..high : v <= w => to(v) <= to(w)
    BY <2>3, <2>6, <2>7
  <2>10. QED
    BY <2>5, <2>8, <2>9
<1>5. QED
  BY <1>3, <1>4

-----------------------------------------------------------------------------
(* What the checks accept.                                                 *)
LEMMA FineStepsAreMoves ==
    ASSUME NEW x, x.threshold \in Nat, x.fineSteps \in Nat, FineStepsAreCoarser(x)
    PROVE  FineStepsMove(x)
<1>1. SUFFICES ASSUME x.fineSteps # 0, NEW n \in {-x.fineSteps, x.fineSteps}
               PROVE  ~Managed(x)!WithinThreshold(
                          Managed(x)!Retarget(Managed(x)!InitialBuffer(TRUE), Managed(x)!IntValue(n)))
  BY DEF FineStepsMove
<1> DEFINE r == Managed(x)!Retarget(Managed(x)!InitialBuffer(TRUE), Managed(x)!IntValue(n))
<1>2. r.target.n = n /\ r.current.n = 0
  BY DEF Managed!Retarget, Managed!InitialBuffer, Managed!IntValue
<1> HIDE DEF r
<1>3. ~Managed(x)!WithinThreshold(r)
  BY <1>1, <1>2 DEF Managed!WithinThreshold, FineStepsAreCoarser
<1>4. QED
  BY <1>3 DEF r

(* The checks of a declared parameter are the assumptions of the manager.  *)
LEMMA ChecksAreAssumed ==
    ASSUME NEW x, Accepted(x), x.control \in Controls, x.feedback \in Feedbacks,
           {x.retries, x.delay, x.step, x.threshold, x.fineSteps} \subseteq Nat,
           {x.minimum, x.maximum, x.stepsLower, x.stepsUpper} \subseteq Int
    PROVE  Managed(x)!ConfigAssumption
<1>1. /\ ControlIsPossible(x) /\ RetriesAreTimed(x) /\ Registrable(x)
      /\ x.control \in {"Normal", "Incremental", "Oneshot", "NoControl"}
      /\ x.feedback \in {"Normal", "Delayed", "NoFeedback"}
  BY DEF Accepted, Validated, Controls, Feedbacks
<1>2. QED
  BY <1>1 DEF Managed!ConfigAssumption, ControlIsPossible, RetriesAreTimed, Registrable

-----------------------------------------------------------------------------
(* The trees of dimensions.                                                *)

(* A path is a sequence of numbers, and what makes it one longer.          *)
LEMMA PathIs ==
    ASSUME NEW config \in Seq(Dimension), NEW n \in 0..Len(config), NEW a \in PathsTo(config, n)
    PROVE  /\ a \in Seq(Nat) /\ Len(a) = n /\ DOMAIN a = 1..n
           /\ \A i \in 1..n : a[i] \in ElementIds(config[i])
<1>1. \A i \in 1..n : ElementIds(config[i]) \subseteq Nat
  <2>1. ASSUME NEW i \in 1..n PROVE ElementIds(config[i]) \subseteq Nat
    <3>1. i \in 1..Len(config)
      OBVIOUS
    <3>2. config[i] \in Dimension
      BY <3>1, ElementOfSeq
    <3>3. QED
      BY <3>2 DEF Dimension, ElementIds
  <2>2. QED
    BY <2>1
<1>2. n \in Nat /\ a \in [1..n -> Nat]
  BY <1>1 DEF PathsTo
<1>3. QED
  BY <1>2 DEF PathsTo

(* An element of the next dimension makes it longer.                       *)
LEMMA PathGrows ==
    ASSUME NEW config \in Seq(Dimension), NEW n \in 0..Len(config), n < Len(config),
           NEW a \in PathsTo(config, n), NEW id \in ElementIds(config[n + 1])
    PROVE  /\ Append(a, id) \in PathsTo(config, n + 1) /\ Append(a, id) \in Paths(config)
           /\ Len(Append(a, id)) = n + 1
<1>1. a \in Seq(Nat) /\ Len(a) = n /\ \A i \in 1..n : a[i] \in ElementIds(config[i])
  BY PathIs
<1>2. n + 1 \in 0..Len(config) /\ n \in Nat
  OBVIOUS
<1>3. id \in Nat
  <2>1. config[n + 1] \in Dimension
    BY <1>2, ElementOfSeq
  <2>2. QED
    BY <2>1 DEF Dimension, ElementIds
<1> DEFINE b == Append(a, id)
<1>4. /\ b \in Seq(Nat) /\ Len(b) = n + 1
      /\ \A i \in 1..n : b[i] = a[i]
      /\ b[n + 1] = id
  BY <1>1, <1>3, AppendProperties
<1> HIDE DEF b
<1>5. \A i \in 1..(n + 1) : b[i] \in ElementIds(config[i])
  BY <1>1, <1>2, <1>4
<1>6. b = [i \in 1..(n + 1) |-> b[i]]
  BY <1>4, LenProperties
<1>7. b \in PathsTo(config, n + 1)
  BY <1>5, <1>6 DEF PathsTo
<1>8. QED
  BY <1>2, <1>4, <1>7 DEF Paths, b

(* A path without its last element is one.                                 *)
LEMMA PathShrinks ==
    ASSUME NEW config \in Seq(Dimension), NEW n \in 0..Len(config), n < Len(config),
           NEW a \in PathsTo(config, n + 1), NEW p, p = [i \in 1..n |-> a[i]]
    PROVE  /\ p \in PathsTo(config, n) /\ a[n + 1] \in ElementIds(config[n + 1])
           /\ Append(p, a[n + 1]) = a
<1>1. n + 1 \in 0..Len(config) /\ n \in Nat
  OBVIOUS
<1>2. /\ a \in Seq(Nat) /\ Len(a) = n + 1 /\ DOMAIN a = 1..(n + 1)
      /\ \A i \in 1..(n + 1) : a[i] \in ElementIds(config[i])
  BY <1>1, PathIs
<1>3. p \in PathsTo(config, n)
  <2>1. \A i \in 1..n : a[i] \in ElementIds(config[i])
    BY <1>1, <1>2
  <2>2. QED
    BY <2>1 DEF PathsTo
<1>4. Append(p, a[n + 1]) = a
  <2>1. p \in Seq(Nat) /\ Len(p) = n
    BY <1>3, PathIs
  <2>2. a[n + 1] \in Nat
    BY <1>1, <1>2
  <2> DEFINE b == Append(p, a[n + 1])
  <2>3. /\ b \in Seq(Nat) /\ Len(b) = n + 1
        /\ \A i \in 1..n : b[i] = p[i]
        /\ b[n + 1] = a[n + 1]
    BY <2>1, <2>2, AppendProperties
  <2> HIDE DEF b
  <2>4. \A i \in 1..(n + 1) : b[i] = a[i]
    BY <1>1, <2>3
  <2>5. b = a
    BY <1>2, <2>3, <2>4, SeqEqual
  <2>6. QED
    BY <2>5 DEF b
<1>5. QED
  BY <1>2, <1>3, <1>4

-----------------------------------------------------------------------------
(* What generateDimensions builds below each path.                         *)
Deepest(config, n) == {a \in Paths(config) : Len(a) >= n}
Grown(config, below, paths) ==
    [a \in paths |->
        IF Len(a) = Len(config)
          THEN Buffer(a)
          ELSE [sub |-> [id \in ElementIds(config[Len(a) + 1]) |-> below[Append(a, id)]]]]
IsTree(config, below) == below = Grown(config, below, Paths(config))
TreeOf(config) == CHOOSE below : IsTree(config, below)

(* The recursion is well founded: it goes from the longest paths to the    *)
(* empty one.                                                              *)
LEMMA TreeExists ==
    ASSUME NEW config \in Seq(Dimension)
    PROVE  IsTree(config, TreeOf(config))
<1> DEFINE L == Len(config)
           Builds(k) == \E f : f = Grown(config, f, Deepest(config, L - k))
           T == {k \in Nat : k <= L => Builds(k)}
<1>1. L \in Nat
  BY LenProperties
<1>2. \A a \in Paths(config) : Len(a) \in 0..L /\ a \in PathsTo(config, Len(a))
  BY PathIs DEF Paths
<1>3. 0 \in T
  <2> DEFINE f == [a \in Deepest(config, L) |-> Buffer(a)]
  <2>1. \A a \in Deepest(config, L) : Len(a) = L
    BY <1>1, <1>2 DEF Deepest
  <2>2. f = Grown(config, f, Deepest(config, L))
    BY <2>1 DEF Grown
  <2>3. L - 0 = L
    BY <1>1
  <2> HIDE DEF f
  <2>4. Builds(0)
    BY <2>2, <2>3
  <2>5. QED
    BY <2>4
<1>4. ASSUME NEW k \in Nat, k \in T PROVE k + 1 \in T
  <2>1. SUFFICES ASSUME k + 1 <= L PROVE Builds(k + 1)
    BY <1>4
  <2>2. PICK f : f = Grown(config, f, Deepest(config, L - k))
    BY <1>1, <1>4, <2>1
  <2> DEFINE n == L - (k + 1)
             g == Grown(config, f, Deepest(config, n))
  <2>3. n \in 0..L /\ n < L /\ L - k = n + 1
    BY <1>1, <2>1
  <2>4. ASSUME NEW a \in Deepest(config, n), Len(a) # L,
               NEW id \in ElementIds(config[Len(a) + 1])
        PROVE  g[Append(a, id)] = f[Append(a, id)]
    <3>1. Len(a) \in 0..L /\ Len(a) < L /\ a \in PathsTo(config, Len(a)) /\ Len(a) >= n
      BY <1>1, <1>2, <2>4 DEF Deepest
    <3>2. Append(a, id) \in Paths(config) /\ Len(Append(a, id)) = Len(a) + 1
      BY <2>4, <3>1, PathGrows
    <3>3. Append(a, id) \in Deepest(config, n + 1) /\ Append(a, id) \in Deepest(config, n)
      BY <2>3, <3>1, <3>2 DEF Deepest
    <3>4. QED
      BY <2>2, <2>3, <3>3 DEF Grown
  <2>5. g = Grown(config, g, Deepest(config, n))
    <3> HIDE DEF n
    <3>1. \A a \in Deepest(config, n) :
              Len(a) # L => [id \in ElementIds(config[Len(a) + 1]) |-> f[Append(a, id)]]
                            = [id \in ElementIds(config[Len(a) + 1]) |-> g[Append(a, id)]]
      BY <2>4
    <3>2. QED
      BY <3>1 DEF Grown
  <2>6. QED
    BY <2>5
<1>5. Builds(L)
  <2> HIDE DEF Builds
  <2>1. \A k \in Nat : k \in T
    <3> HIDE DEF T
    <3>1. QED
      BY <1>3, <1>4, CountedUp
  <2>2. QED
    BY <1>1, <2>1
<1>6. Deepest(config, L - L) = Paths(config)
  BY <1>1, <1>2 DEF Deepest
<1>7. \E below : IsTree(config, below)
  BY <1>5, <1>6 DEF IsTree
<1>8. QED
  BY <1>7 DEF TreeOf

(* What generateDimensions returns is the tree at the empty path.          *)
LEMMA GeneratesTree ==
    ASSUME NEW config
    PROVE  GenerateDimensions(config) = TreeOf(config)[<< >>]
BY DEF GenerateDimensions, TreeOf, IsTree, Grown

(* A tree is a value at the end of a path, and elsewhere split by the      *)
(* elements of the next dimension.                                         *)
LEMMA TreeIs ==
    ASSUME NEW config \in Seq(Dimension), NEW n \in 0..Len(config), NEW a \in PathsTo(config, n),
           NEW t, t = TreeOf(config)[a]
    PROVE  /\ n = Len(config) =>
                  t = Buffer(a) /\ IsValue(t) /\ ~IsSplit(t) /\ t.address = a
           /\ n # Len(config) =>
                  /\ IsSplit(t) /\ ~IsValue(t) /\ DOMAIN t.sub = ElementIds(config[n + 1])
                  /\ \A id \in ElementIds(config[n + 1]) :
                         t.sub[id] = TreeOf(config)[Append(a, id)]
<1>1. a \in Paths(config) /\ Len(a) = n
  BY PathIs DEF Paths
<1>2. TreeOf(config) = Grown(config, TreeOf(config), Paths(config))
  BY TreeExists DEF IsTree
<1> DEFINE sub == [id \in ElementIds(config[n + 1]) |-> TreeOf(config)[Append(a, id)]]
<1>3. t = IF n = Len(config) THEN Buffer(a) ELSE [sub |-> sub]
  BY <1>1, <1>2 DEF Grown
<1>4. CASE n = Len(config)
  <2>1. t = [address |-> a]
    BY <1>3, <1>4 DEF Buffer
  <2>2. DOMAIN t = {"address"} /\ t.address = a
    BY <2>1
  <2>3. QED
    BY <1>3, <1>4, <2>2 DEF IsValue, IsSplit
<1>5. CASE n # Len(config)
  <2>1. DOMAIN t = {"sub"} /\ t.sub = sub
    BY <1>3, <1>5
  <2>2. QED
    BY <1>5, <2>1 DEF IsValue, IsSplit
<1>6. QED
  BY <1>4, <1>5

(* getValues goes down level by level.                                     *)
Level(config, n) == {TreeOf(config)[a] : a \in PathsTo(config, n)}

(* One level of getValues goes from a level to the next and stays at the   *)
(* last.                                                                   *)
LEMMA GoesDown ==
    ASSUME NEW config \in Seq(Dimension), NEW n \in 0..Len(config)
    PROVE  Below(Level(config, n)) = Level(config, IF n = Len(config) THEN n ELSE n + 1)
<1>1. CASE n = Len(config)
  <2>1. \A t \in Level(config, n) : ~IsSplit(t)
    BY <1>1, TreeIs DEF Level
  <2>2. QED
    BY <1>1, <2>1 DEF Below
<1>2. CASE n # Len(config)
  <2>1. n < Len(config) /\ n \in 0..Len(config)
    BY <1>2, LenProperties
  <2>2. \A a \in PathsTo(config, n) :
            /\ IsSplit(TreeOf(config)[a])
            /\ Range(TreeOf(config)[a].sub)
                   = {TreeOf(config)[Append(a, id)] : id \in ElementIds(config[n + 1])}
    BY <1>2, TreeIs DEF Range
  <2>3. ASSUME NEW t \in Below(Level(config, n)) PROVE t \in Level(config, n + 1)
    <3>1. PICK a \in PathsTo(config, n) : t \in Range(TreeOf(config)[a].sub)
      BY <2>2, <2>3 DEF Below, Level
    <3>2. PICK id \in ElementIds(config[n + 1]) : t = TreeOf(config)[Append(a, id)]
      BY <2>2, <3>1
    <3>3. QED
      BY <2>1, <3>2, PathGrows DEF Level
  <2>4. ASSUME NEW t \in Level(config, n + 1) PROVE t \in Below(Level(config, n))
    <3>1. PICK b \in PathsTo(config, n + 1) : t = TreeOf(config)[b]
      BY <2>4 DEF Level
    <3> DEFINE a == [i \in 1..n |-> b[i]]
    <3>2. /\ a \in PathsTo(config, n) /\ b[n + 1] \in ElementIds(config[n + 1])
          /\ Append(a, b[n + 1]) = b
      BY <2>1, <3>1, PathShrinks
    <3> HIDE DEF a
    <3>3. t \in Range(TreeOf(config)[a].sub) /\ IsSplit(TreeOf(config)[a])
      BY <2>2, <3>1, <3>2
    <3>4. QED
      BY <3>2, <3>3 DEF Below, Level
  <2>5. QED
    BY <1>2, <2>3, <2>4
<1>3. QED
  BY <1>1, <1>2

(* Only the empty path is of length 0.                                     *)
LEMMA EmptyPath ==
    ASSUME NEW config
    PROVE  PathsTo(config, 0) = {<< >>}
<1>1. \A a \in PathsTo(config, 0) : a = << >>
  BY DEF PathsTo
<1>2. << >> \in PathsTo(config, 0)
  BY DEF PathsTo
<1>3. QED
  BY <1>1, <1>2

(* Three levels are enough for the dimensions RegisterDevice allows.       *)
LEMMA GetsAll ==
    ASSUME NEW config \in Seq(Dimension), Len(config) <= MaxDimensions
    PROVE  GetValues(GenerateDimensions(config)) = Addresses(config)
<1> DEFINE L == Len(config)
           down(n) == IF n = L THEN n ELSE n + 1
<1>1. L \in Nat /\ L <= 3
  BY LenProperties DEF MaxDimensions
<1>2. {GenerateDimensions(config)} = Level(config, 0)
  BY EmptyPath, GeneratesTree DEF Level
<1>3. \A n \in 0..L : Below(Level(config, n)) = Level(config, down(n)) /\ down(n) \in 0..L
  BY <1>1, GoesDown
<1>4. down(down(down(0))) = L
  <2> HIDE DEF L
  <2>1. L = 0 \/ L = 1 \/ L = 2 \/ L = 3
    BY <1>1
  <2>2. QED
    BY <2>1
<1> HIDE DEF down
<1>5. Below(Below(Below(Level(config, 0)))) = Level(config, L)
  BY <1>1, <1>3, <1>4
<1>6. \A a \in PathsTo(config, L) : TreeOf(config)[a].address = a
  BY <1>1, TreeIs
<1>7. {t.address : t \in Level(config, L)} = PathsTo(config, L)
  BY <1>6 DEF Level
<1>8. QED
  BY <1>2, <1>5, <1>7 DEF GetValues, Addresses

(* multiIndex goes down element by element.                                *)
Walked(tree, address, at, last) ==
    [n \in 0..last |-> IF n = 0 THEN tree ELSE Index(at[n - 1], address[n])]
IsWalk(tree, address, at) == at = Walked(tree, address, at, Len(address))
WalkOf(tree, address) == CHOOSE at : IsWalk(tree, address, at)

(* The walk of multiIndex along an address exists.                         *)
LEMMA WalkExists ==
    ASSUME NEW tree, NEW address \in Seq(Nat)
    PROVE  IsWalk(tree, address, WalkOf(tree, address))
<1> DEFINE Walks(n) == \E at : at = Walked(tree, address, at, n)
           T == {n \in Nat : Walks(n)}
<1>1. 0 \in T
  <2> DEFINE f == [n \in 0..0 |-> tree]
  <2>1. f = Walked(tree, address, f, 0)
    BY DEF Walked
  <2> HIDE DEF f
  <2>2. QED
    BY <2>1
<1>2. ASSUME NEW k \in Nat, k \in T PROVE k + 1 \in T
  <2>1. PICK f : f = Walked(tree, address, f, k)
    BY <1>2
  <2> DEFINE g == Walked(tree, address, f, k + 1)
  <2>2. \A n \in 0..(k + 1) : n # 0 => n - 1 \in 0..k /\ n - 1 \in 0..(k + 1)
    OBVIOUS
  <2>3. \A n \in 0..k : n \in 0..(k + 1) /\ f[n] = g[n]
    BY <2>1 DEF Walked
  <2>4. \A n \in 0..(k + 1) : n # 0 => f[n - 1] = g[n - 1]
    BY <2>2, <2>3
  <2>5. g = Walked(tree, address, g, k + 1)
    BY <2>4 DEF Walked
  <2> HIDE DEF g
  <2>6. QED
    BY <2>5
<1>3. Len(address) \in T
  <2> HIDE DEF T
  <2>1. \A n \in Nat : n \in T
    BY <1>1, <1>2, CountedUp
  <2>2. QED
    BY <2>1, LenProperties
<1>4. QED
  BY <1>3 DEF IsWalk, WalkOf

(* It finds the tree below the address, if that is a path.                 *)
LEMMA FindsTree ==
    ASSUME NEW config \in Seq(Dimension), NEW address \in Seq(Nat)
    PROVE  MultiIndex(GenerateDimensions(config), address) =
               IF address \in Paths(config) THEN TreeOf(config)[address] ELSE Missing
<1> DEFINE L == Len(config)
           at == WalkOf(GenerateDimensions(config), address)
           first(n) == [i \in 1..n |-> address[i]]
           Found(n) == IF n <= L /\ first(n) \in PathsTo(config, n)
                         THEN TreeOf(config)[first(n)] ELSE Missing
           T == {n \in Nat : n <= Len(address) => at[n] = Found(n)}
<1>1. L \in Nat /\ Len(address) \in Nat
  BY LenProperties
<1>2. /\ at[0] = GenerateDimensions(config)
      /\ \A n \in 1..Len(address) : at[n] = Index(at[n - 1], address[n])
  <2>1. at = Walked(GenerateDimensions(config), address, at, Len(address))
    BY WalkExists DEF IsWalk
  <2> HIDE DEF at
  <2>2. 0 \in 0..Len(address) /\ \A n \in 1..Len(address) : n \in 0..Len(address) /\ n # 0
    BY <1>1
  <2>3. QED
    BY <2>1, <2>2 DEF Walked
<1> HIDE DEF at
<1>3. 0 \in T
  <2>1. first(0) = << >> /\ << >> \in PathsTo(config, 0)
    BY EmptyPath
  <2>2. QED
    BY <1>1, <1>2, <2>1, GeneratesTree
<1>4. ASSUME NEW n \in Nat, n \in T PROVE n + 1 \in T
  <2> DEFINE m == n + 1
             id == address[m]
  <2>1. SUFFICES ASSUME m <= Len(address) PROVE at[m] = Found(m)
    BY <1>4
  <2>2. at[n] = Found(n) /\ at[m] = Index(at[n], id)
    <3>1. n <= Len(address) /\ m \in 1..Len(address) /\ m - 1 = n
      BY <1>1, <2>1
    <3>2. QED
      BY <1>2, <1>4, <3>1
  <2>3. first(n) = [i \in 1..n |-> first(m)[i]] /\ first(m)[m] = id
    OBVIOUS
  <2>4. CASE n <= L /\ first(n) \in PathsTo(config, n)
    <3>1. n \in 0..L
      BY <1>1, <2>4
    <3>2. at[n] = TreeOf(config)[first(n)]
      BY <2>2, <2>4
    <3> DEFINE a == first(n)
               b == first(m)
    <3>3. a = [i \in 1..n |-> b[i]] /\ b[m] = id /\ a \in PathsTo(config, n)
      BY <2>3, <2>4
    <3>4. id \in Nat
      BY <2>1, <1>1, ElementOfSeq
    <3>5. CASE n = L
      <4>1. ~IsSplit(at[n])
        BY <3>1, <3>2, <3>5, <2>4, TreeIs
      <4>2. at[m] = Missing
        BY <2>2, <4>1 DEF Index
      <4>3. ~(m <= L)
        BY <1>1, <3>5
      <4>4. QED
        BY <4>2, <4>3
    <3>6. CASE n # L /\ id \in ElementIds(config[m])
      <4>1. n < L
        BY <1>1, <3>1, <3>6
      <4>2. /\ IsSplit(at[n]) /\ id \in DOMAIN at[n].sub
            /\ at[n].sub[id] = TreeOf(config)[Append(a, id)]
        BY <3>1, <3>2, <3>3, <3>6, TreeIs
      <4>3. Append(a, id) \in PathsTo(config, m)
        BY <3>1, <3>3, <3>6, <4>1, PathGrows
      <4>4. Append(a, id) = b
        <5>1. a \in Seq(Nat) /\ Len(a) = n
          BY <3>1, <3>3, PathIs
        <5>2. /\ Append(a, id) \in Seq(Nat) /\ Len(Append(a, id)) = m
              /\ \A i \in 1..n : Append(a, id)[i] = a[i]
              /\ Append(a, id)[m] = id
          BY <3>4, <5>1, AppendProperties
        <5>3. Append(a, id) = [i \in 1..m |-> Append(a, id)[i]]
          BY <5>2, LenProperties
        <5>4. \A i \in 1..m : Append(a, id)[i] = address[i]
          BY <5>2
        <5>5. QED
          BY <5>3, <5>4
      <4> HIDE DEF a, b, id
      <4>5. at[m] = TreeOf(config)[Append(a, id)]
        BY <2>2, <4>2 DEF Index
      <4>6. at[m] = TreeOf(config)[b] /\ b \in PathsTo(config, m)
        BY <4>3, <4>4, <4>5
      <4>7. m <= L
        BY <1>1, <4>1
      <4>8. QED
        BY <4>6, <4>7 DEF b
    <3>7. CASE n # L /\ id \notin ElementIds(config[m])
      <4>1. n < L
        BY <1>1, <3>1, <3>7
      <4>2. IsSplit(at[n]) /\ id \notin DOMAIN at[n].sub
        BY <3>1, <3>2, <3>3, <3>7, TreeIs
      <4>3. at[m] = Missing
        BY <2>2, <4>2 DEF Index
      <4>4. b \notin PathsTo(config, m)
        BY <3>1, <3>3, <3>7, <4>1, PathShrinks
      <4>5. QED
        BY <4>3, <4>4
    <3>8. QED
      BY <3>5, <3>6, <3>7
  <2>5. CASE ~(n <= L /\ first(n) \in PathsTo(config, n))
    <3>1. at[n] = Missing
      BY <2>2, <2>5
    <3>2. at[m] = Missing
      BY <2>2, <3>1 DEF Index, Missing, IsSplit
    <3>3. ~(m <= L /\ first(m) \in PathsTo(config, m))
      <4>1. SUFFICES ASSUME m <= L, first(m) \in PathsTo(config, m) PROVE FALSE
        OBVIOUS
      <4>2. n \in 0..L /\ n < L
        BY <1>1, <4>1
      <4> DEFINE a == first(n)
                 b == first(m)
      <4>3. b \in PathsTo(config, n + 1) /\ a = [i \in 1..n |-> b[i]]
        BY <2>3, <4>1
      <4>4. a \in PathsTo(config, n)
        BY <4>2, <4>3, PathShrinks
      <4>5. QED
        BY <2>5, <4>2, <4>4
    <3>4. QED
      BY <3>2, <3>3
  <2>6. QED
    BY <2>4, <2>5
<1>5. at[Len(address)] = Found(Len(address))
  <2> HIDE DEF Found
  <2>1. \A n \in Nat : n \in T
    <3> HIDE DEF T
    <3>1. QED
      BY <1>3, <1>4, CountedUp
  <2>2. QED
    BY <1>1, <2>1
<1>6. first(Len(address)) = address
  BY LenProperties
<1>7. address \in Paths(config) <=> Len(address) <= L /\ address \in PathsTo(config, Len(address))
  BY <1>1, PathIs DEF Paths
<1>8. MultiIndex(GenerateDimensions(config), address) = at[Len(address)]
  BY DEF MultiIndex, WalkOf, IsWalk, Walked, at
<1>9. QED
  BY <1>5, <1>6, <1>7, <1>8

(* Whatever is declared and sent, exactly the declared addresses have a    *)
(* value, and each its own.                                                *)
LEMMA AddressesExactly ==
    ASSUME NEW config \in Seq(Dimension), Len(config) <= MaxDimensions,
           NEW sent \in SUBSET Seq(Nat)
    PROVE  AddressedExactly(config, sent)
<1> DEFINE L == Len(config)
           tree == GenerateDimensions(config)
<1>1. L \in Nat /\ L \in 0..L
  BY LenProperties
<1>2. \A a \in Paths(config) : a \in Seq(Nat) /\ Len(a) \in 0..L /\ a \in PathsTo(config, Len(a))
  BY PathIs DEF Paths
<1>3. \A a \in Addresses(config) : a \in Paths(config) /\ Len(a) = L
  BY <1>1, PathIs DEF Addresses, Paths
<1>4. \A a \in Paths(config) : Len(a) = L => a \in Addresses(config)
  BY <1>2 DEF Addresses
<1>5. ASSUME NEW a \in sent PROVE HasValueAt(tree, a) <=> a \in Addresses(config)
  <2>1. MultiIndex(tree, a) = IF a \in Paths(config) THEN TreeOf(config)[a] ELSE Missing
    BY FindsTree
  <2>2. ~IsValue(Missing)
    BY DEF IsValue, Missing
  <2>3. a \in Paths(config) => (IsValue(TreeOf(config)[a]) <=> Len(a) = L)
    BY <1>2, TreeIs
  <2>4. QED
    BY <1>3, <1>4, <2>1, <2>2, <2>3 DEF HasValueAt
<1>6. ASSUME NEW a \in Addresses(config) PROVE MultiIndex(tree, a).address = a
  <2>1. MultiIndex(tree, a) = TreeOf(config)[a]
    BY <1>2, <1>3, FindsTree
  <2>2. TreeOf(config)[a].address = a
    BY <1>1, TreeIs DEF Addresses
  <2>3. QED
    BY <2>1, <2>2
<1>7. QED
  BY <1>5, <1>6, GetsAll DEF AddressedExactly

(* A parameter whose dimensions all have elements has values.              *)
LEMMA ValuesExist ==
    ASSUME NEW config \in Seq(Dimension), Len(config) <= MaxDimensions,
           \A i \in DOMAIN config : config[i].count # 0 \/ config[i].labels # {}
    PROVE  GetValues(GenerateDimensions(config)) # {}
<1>1. ASSUME NEW i \in 1..Len(config) PROVE ElementIds(config[i]) # {}
  <2>1. config[i].count \in Nat /\ i \in DOMAIN config
    <3>1. config[i] \in Dimension
      BY ElementOfSeq
    <3>2. QED
      BY <3>1, LenProperties DEF Dimension
  <2>2. config[i].count # 0 => 1 \in 1..config[i].count
    BY <2>1
  <2>3. QED
    BY <2>1, <2>2 DEF ElementIds
<1> DEFINE a == [i \in 1..Len(config) |-> CHOOSE id \in ElementIds(config[i]) : TRUE]
<1>2. \A i \in 1..Len(config) : a[i] \in ElementIds(config[i])
  BY <1>1
<1>3. a \in Addresses(config)
  BY <1>2 DEF Addresses, PathsTo
<1>4. QED
  BY <1>3, GetsAll

-----------------------------------------------------------------------------
(* Bracket splitting: the depth goes up and down with the brackets.        *)
Counted(text, c, i) == {j \in 1..i : text[j] = c}

(* One more character counts once, if it is the one that is counted.       *)
LEMMA CountGrows ==
    ASSUME NEW text, NEW c, NEW i \in Nat
    PROVE  /\ Cardinality(Counted(text, c, 0)) = 0
           /\ Cardinality(Counted(text, c, i)) \in Nat
           /\ Cardinality(Counted(text, c, i + 1)) =
                  Cardinality(Counted(text, c, i)) + IF text[i + 1] = c THEN 1 ELSE 0
<1>1. Counted(text, c, 0) = {}
  BY DEF Counted
<1>2. IsFiniteSet(Counted(text, c, i))
  <2>1. IsFiniteSet(1..i)
    BY FS_Interval
  <2>2. QED
    BY <2>1, FS_Subset DEF Counted
<1>3. i + 1 \notin Counted(text, c, i)
  BY DEF Counted
<1>4. Counted(text, c, i + 1) =
          Counted(text, c, i) \cup (IF text[i + 1] = c THEN {i + 1} ELSE {})
  BY DEF Counted
<1> HIDE DEF Counted
<1>5. Cardinality(Counted(text, c, 0)) = 0
  BY <1>1, FS_EmptySet
<1>6. Cardinality(Counted(text, c, i)) \in Nat
  BY <1>2, FS_CardinalityType
<1>7. CASE text[i + 1] = c
  BY <1>2, <1>3, <1>4, <1>5, <1>6, <1>7, FS_AddElement
<1>8. CASE text[i + 1] # c
  BY <1>4, <1>5, <1>6, <1>8
<1>9. QED
  BY <1>7, <1>8

(* The depth starts at 0 and moves by one at a bracket.                    *)
LEMMA DepthMoves ==
    ASSUME NEW text, NEW i \in Nat
    PROVE  /\ Depth(text, 0) = 0 /\ Depth(text, i) \in Int
           /\ text[i + 1] = "{" => Depth(text, i + 1) = Depth(text, i) + 1
           /\ text[i + 1] = "}" => Depth(text, i + 1) = Depth(text, i) - 1
           /\ text[i + 1] \notin {"{", "}"} => Depth(text, i + 1) = Depth(text, i)
<1>1. \A n : Depth(text, n) =
          Cardinality(Counted(text, "{", n)) - Cardinality(Counted(text, "}", n))
  BY DEF Depth, Counted
<1>2. \A c : /\ Cardinality(Counted(text, c, 0)) = 0
             /\ Cardinality(Counted(text, c, i)) \in Nat
             /\ Cardinality(Counted(text, c, i + 1)) =
                    Cardinality(Counted(text, c, i)) + IF text[i + 1] = c THEN 1 ELSE 0
  BY CountGrows
<1> DEFINE up(n) == Cardinality(Counted(text, "{", n))
           down(n) == Cardinality(Counted(text, "}", n))
<1>3. /\ Depth(text, 0) = up(0) - down(0)
      /\ Depth(text, i) = up(i) - down(i)
      /\ Depth(text, i + 1) = up(i + 1) - down(i + 1)
  BY <1>1
<1>4. up(0) = 0 /\ down(0) = 0 /\ up(i) \in Nat /\ down(i) \in Nat
  BY <1>2
<1>5. /\ text[i + 1] = "{" => up(i + 1) = up(i) + 1 /\ down(i + 1) = down(i) + 0
      /\ text[i + 1] = "}" => up(i + 1) = up(i) + 0 /\ down(i + 1) = down(i) + 1
      /\ text[i + 1] \notin {"{", "}"} => up(i + 1) = up(i) + 0 /\ down(i + 1) = down(i) + 0
  BY <1>2
<1> HIDE DEF up, down
<1>6. Depth(text, 0) = 0 /\ Depth(text, i) \in Int
  BY <1>3, <1>4
<1>7. ASSUME NEW x \in {0, 1}, NEW y \in {0, 1}, up(i + 1) = up(i) + x, down(i + 1) = down(i) + y
      PROVE  Depth(text, i + 1) = Depth(text, i) + (x - y)
  BY <1>3, <1>4, <1>7
<1>8. text[i + 1] = "{" => Depth(text, i + 1) = Depth(text, i) + (1 - 0)
  BY <1>5, <1>7
<1>9. text[i + 1] = "}" => Depth(text, i + 1) = Depth(text, i) + (0 - 1)
  BY <1>5, <1>7
<1>10. text[i + 1] \notin {"{", "}"} => Depth(text, i + 1) = Depth(text, i) + (0 - 0)
  BY <1>5, <1>7
<1>11. /\ Depth(text, i) + (1 - 0) = Depth(text, i) + 1
       /\ Depth(text, i) + (0 - 1) = Depth(text, i) - 1
       /\ Depth(text, i) + (0 - 0) = Depth(text, i)
  BY <1>6
<1>12. QED
  BY <1>6, <1>8, <1>9, <1>10, <1>11

(* The place of a part: the number of outer brackets up to a position.     *)
Rank(text, n) == Cardinality({o \in Outer(text) : o <= n})

(* The rank moves by one at an outer bracket.                              *)
LEMMA RankGrows ==
    ASSUME NEW text \in Seq(STRING), NEW n \in Nat
    PROVE  /\ Rank(text, 0) = 0 /\ Rank(text, n) \in Nat
           /\ n + 1 \in Outer(text) => Rank(text, n + 1) = Rank(text, n) + 1
           /\ n + 1 \notin Outer(text) => Rank(text, n + 1) = Rank(text, n)
           /\ n \in Outer(text) => Rank(text, n) >= 1
           /\ Rank(text, Len(text)) = Cardinality(Outer(text))
<1> DEFINE Upto(k) == {o \in Outer(text) : o <= k}
<1>1. IsFiniteSet(Outer(text)) /\ Outer(text) \subseteq 1..Len(text) /\ Len(text) \in Nat
  <2>1. DOMAIN text = 1..Len(text) /\ Len(text) \in Nat
    BY LenProperties
  <2>2. IsFiniteSet(1..Len(text))
    BY <2>1, FS_Interval
  <2>3. QED
    BY <2>1, <2>2, FS_Subset DEF Outer
<1>2. \A k : IsFiniteSet(Upto(k)) /\ Cardinality(Upto(k)) \in Nat
  BY <1>1, FS_Subset, FS_CardinalityType
<1>3. Upto(0) = {} /\ Upto(Len(text)) = Outer(text)
  BY <1>1
<1>4. /\ n + 1 \notin Upto(n)
      /\ n + 1 \in Outer(text) => Upto(n + 1) = Upto(n) \cup {n + 1}
      /\ n + 1 \notin Outer(text) => Upto(n + 1) = Upto(n)
  <2>1. \A o \in Outer(text) : o \in Nat /\ (o <= n + 1 <=> o <= n \/ o = n + 1)
    BY <1>1
  <2>2. ~(n + 1 <= n) /\ n + 1 <= n + 1
    OBVIOUS
  <2>3. QED
    BY <2>1, <2>2
<1>5. n \in Outer(text) => Upto(n) # {}
  BY <1>1
<1> HIDE DEF Upto
<1>6. n \in Outer(text) => Cardinality(Upto(n)) # 0
  BY <1>2, <1>5, FS_EmptySet
<1>7. Cardinality(Upto(0)) = 0
  BY <1>3, FS_EmptySet
<1>8. /\ n + 1 \in Outer(text) => Cardinality(Upto(n + 1)) = Cardinality(Upto(n)) + 1
      /\ n + 1 \notin Outer(text) => Cardinality(Upto(n + 1)) = Cardinality(Upto(n))
  BY <1>2, <1>4, FS_AddElement
<1>9. \A k : Rank(text, k) = Cardinality(Upto(k))
  BY DEF Rank, Upto
<1>10. QED
  BY <1>2, <1>3, <1>6, <1>7, <1>8, <1>9

(* What one character does.                                                *)
Pieces == Seq(Seq(STRING))
SplitStates == [open : Int, start : Nat, parts : Pieces]

SplitMove(text, i, r, r2) ==
    /\ r2 \in SplitStates
    /\ text[i] = "{" => /\ r2.open = r.open + 1 /\ r2.parts = r.parts
                        /\ r2.start = IF r.open = 0 THEN i ELSE r.start
    /\ text[i] = "}" => /\ r2.open = r.open - 1
                        /\ IF r.open = 1 /\ r.start # 0
                             THEN /\ r2.start = 0
                                  /\ r2.parts = Append(r.parts, SubSeq(text, r.start + 1, i - 1))
                             ELSE r2.start = r.start /\ r2.parts = r.parts
    /\ text[i] \notin {"{", "}"} => r2 = r

(* A step of the loop is one of the moves above.                           *)
LEMMA SplitsOn ==
    ASSUME NEW text \in Seq(STRING), NEW i \in 1..Len(text), NEW r \in SplitStates
    PROVE  SplitMove(text, i, r, SplitStep(text, r, i))
<1> DEFINE r2 == SplitStep(text, r, i)
<1> SUFFICES SplitMove(text, i, r, r2)
  OBVIOUS
<1>1. i \in Nat /\ i \in Int /\ r.open \in Int /\ r.start \in Nat /\ r.parts \in Pieces
  BY DEF SplitStates
<1>2. CASE text[i] = "{"
  <2>1. r2 = [r EXCEPT !.open = @ + 1, !.start = IF r.open = 0 THEN i ELSE @]
    BY <1>2 DEF SplitStep
  <2> HIDE DEF r2
  <2> DEFINE start == IF r.open = 0 THEN i ELSE r.start
  <2>2. r2 = [open |-> r.open + 1, start |-> start, parts |-> r.parts]
    BY <2>1 DEF SplitStates
  <2>3. start \in Nat
    BY <1>1
  <2> HIDE DEF start
  <2>4. /\ r2 \in SplitStates /\ r2.open = r.open + 1 /\ r2.parts = r.parts
        /\ r2.start = start
    BY <1>1, <2>2, <2>3 DEF SplitStates
  <2>5. text[i] # "}"
    BY <1>2
  <2>6. QED
    BY <1>2, <2>4, <2>5 DEF start, SplitMove
<1>3. CASE text[i] = "}" /\ r.open = 1 /\ r.start # 0
  <2> DEFINE part == SubSeq(text, r.start + 1, i - 1)
  <2>1. r2 = [open |-> 0, start |-> 0, parts |-> Append(r.parts, part)]
    BY <1>3 DEF SplitStep
  <2> HIDE DEF r2
  <2>2. part \in Seq(STRING)
    <3>1. r.start + 1 \in Int /\ i - 1 \in Int
      BY <1>1
    <3>2. \A k \in (r.start + 1)..(i - 1) : k \in 1..Len(text)
      BY <1>1, LenProperties
    <3>3. \A k \in (r.start + 1)..(i - 1) : text[k] \in STRING
      BY <3>2, ElementOfSeq
    <3>4. QED
      BY <3>1, <3>3, SubSeqProperties
  <2> HIDE DEF part
  <2>3. Append(r.parts, part) \in Pieces
    BY <1>1, <2>2, AppendProperties DEF Pieces
  <2>4. r2 \in SplitStates /\ r2.open = 0 /\ r2.start = 0 /\ r2.parts = Append(r.parts, part)
    BY <2>1, <2>3 DEF SplitStates
  <2>5. r2.open = r.open - 1
    <3>1. r.open = 1 /\ r2.open = 0
      BY <1>3, <2>4
    <3>2. QED
      BY <3>1
  <2>6. text[i] # "{"
    BY <1>3
  <2>7. QED
    BY <1>3, <2>4, <2>5, <2>6 DEF part, SplitMove
<1>4. CASE text[i] = "}" /\ ~(r.open = 1 /\ r.start # 0)
  <2>1. r2 = [r EXCEPT !.open = @ - 1]
    BY <1>4 DEF SplitStep
  <2> HIDE DEF r2
  <2>2. r2 \in SplitStates /\ r2.open = r.open - 1 /\ r2.start = r.start /\ r2.parts = r.parts
    BY <1>1, <2>1 DEF SplitStates
  <2>3. text[i] # "{"
    BY <1>4
  <2>4. QED
    BY <1>4, <2>2, <2>3 DEF SplitMove
<1>5. CASE text[i] \notin {"{", "}"}
  <2>1. r2 = r
    BY <1>5 DEF SplitStep
  <2> HIDE DEF r2
  <2>2. QED
    BY <1>5, <2>1 DEF SplitMove
<1>6. QED
  BY <1>2, <1>3, <1>4, <1>5

(* The loop goes through the text.                                         *)
SplitFirst == [open |-> 0, start |-> 0, parts |-> << >>]
Splitting(text, at, last) ==
    [i \in 0..last |-> IF i = 0 THEN SplitFirst ELSE SplitStep(text, at[i - 1], i)]
IsSplitting(text, at) == at = Splitting(text, at, Len(text))
SplittingOf(text) == CHOOSE at : IsSplitting(text, at)

(* The states of the loop along a text exist.                              *)
LEMMA SplittingExists ==
    ASSUME NEW text \in Seq(STRING)
    PROVE  IsSplitting(text, SplittingOf(text))
<1> DEFINE Splits(n) == \E at : at = Splitting(text, at, n)
           T == {n \in Nat : Splits(n)}
<1>1. 0 \in T
  <2> DEFINE f == [n \in 0..0 |-> SplitFirst]
  <2>1. f = Splitting(text, f, 0)
    BY DEF Splitting
  <2> HIDE DEF f
  <2>2. QED
    BY <2>1
<1>2. ASSUME NEW k \in Nat, k \in T PROVE k + 1 \in T
  <2>1. PICK f : f = Splitting(text, f, k)
    BY <1>2
  <2> DEFINE g == Splitting(text, f, k + 1)
  <2>2. \A n \in 0..(k + 1) : n # 0 => n - 1 \in 0..k /\ n - 1 \in 0..(k + 1)
    OBVIOUS
  <2>3. \A n \in 0..k : n \in 0..(k + 1) /\ f[n] = g[n]
    BY <2>1 DEF Splitting
  <2>4. \A n \in 0..(k + 1) : n # 0 => f[n - 1] = g[n - 1]
    BY <2>2, <2>3
  <2>5. g = Splitting(text, g, k + 1)
    BY <2>4 DEF Splitting
  <2> HIDE DEF g
  <2>6. QED
    BY <2>5
<1>3. Len(text) \in T
  <2> HIDE DEF T
  <2>1. \A n \in Nat : n \in T
    BY <1>1, <1>2, CountedUp
  <2>2. QED
    BY <2>1, LenProperties
<1>4. QED
  BY <1>3 DEF IsSplitting, SplittingOf

(* It counts the depth.                                                    *)
LEMMA SplitsAlong ==
    ASSUME NEW text \in Seq(STRING)
    PROVE  /\ SplittingOf(text)[0] = SplitFirst
           /\ \A n \in 1..Len(text) :
                  SplittingOf(text)[n] = SplitStep(text, SplittingOf(text)[n - 1], n)
           /\ \A n \in 0..Len(text) : /\ SplittingOf(text)[n] \in SplitStates
                                      /\ SplittingOf(text)[n].open = Depth(text, n)
           /\ Split(text) = SplittingOf(text)[Len(text)]
<1> DEFINE at == SplittingOf(text)
           Counts(n) == at[n] \in SplitStates /\ at[n].open = Depth(text, n)
           T == {n \in Nat : n <= Len(text) => Counts(n)}
<1>1. Len(text) \in Nat
  BY LenProperties
<1>2. at[0] = SplitFirst /\ \A n \in 1..Len(text) : at[n] = SplitStep(text, at[n - 1], n)
  <2>1. at = Splitting(text, at, Len(text))
    BY SplittingExists DEF IsSplitting
  <2> HIDE DEF at
  <2>2. 0 \in 0..Len(text) /\ \A n \in 1..Len(text) : n \in 0..Len(text) /\ n # 0
    BY <1>1
  <2>3. QED
    BY <2>1, <2>2 DEF Splitting
<1>3. Split(text) = at[Len(text)]
  BY DEF Split, SplittingOf, IsSplitting, Splitting, SplitFirst
<1> HIDE DEF at
<1>4. 0 \in T
  <2>1. Depth(text, 0) = 0
    BY DepthMoves
  <2>2. SplitFirst \in SplitStates /\ SplitFirst.open = 0
    BY EmptySeq DEF SplitFirst, SplitStates, Pieces
  <2>3. QED
    BY <1>2, <2>1, <2>2
<1>5. ASSUME NEW n \in Nat, n \in T PROVE n + 1 \in T
  <2>1. SUFFICES ASSUME n + 1 <= Len(text) PROVE Counts(n + 1)
    BY <1>5
  <2>2. n + 1 \in 1..Len(text) /\ (n + 1) - 1 = n /\ n <= Len(text)
    BY <1>1, <2>1
  <2>3. Counts(n) /\ at[n + 1] = SplitStep(text, at[n], n + 1)
    BY <1>2, <1>5, <2>2
  <2> DEFINE r == at[n]
             r2 == at[n + 1]
             c == text[n + 1]
  <2>4. /\ r2 \in SplitStates
        /\ c = "{" => r2.open = r.open + 1
        /\ c = "}" => r2.open = r.open - 1
        /\ c \notin {"{", "}"} => r2 = r
    <3>1. r \in SplitStates /\ r2 = SplitStep(text, r, n + 1)
      BY <2>3
    <3> HIDE DEF r, r2
    <3>2. n + 1 \in 1..Len(text)
      BY <2>2
    <3>3. SplitMove(text, n + 1, r, r2)
      BY <3>1, <3>2, SplitsOn
    <3>4. QED
      BY <3>3 DEF SplitMove
  <2>5. r.open = Depth(text, n)
    BY <2>3
  <2>6. r2.open = Depth(text, n + 1)
    <3> HIDE DEF r, r2
    <3>1. CASE c = "{"
      BY <2>4, <2>5, <3>1, DepthMoves
    <3>2. CASE c = "}"
      BY <2>4, <2>5, <3>2, DepthMoves
    <3>3. CASE c \notin {"{", "}"}
      BY <2>4, <2>5, <3>3, DepthMoves
    <3>4. QED
      BY <3>1, <3>2, <3>3
  <2>7. QED
    BY <2>4, <2>6
<1>6. \A n \in Nat : n \in T
  <2> HIDE DEF T
  <2>1. QED
    BY <1>4, <1>5, CountedUp
<1>7. \A n \in 0..Len(text) : Counts(n)
  BY <1>6
<1>8. QED
  BY <1>2, <1>3, <1>7 DEF at

(* What the loop knows of a balanced text after n characters: where the    *)
(* part it is in began, and the parts before it, each at its place.        *)
Inside(text, n, r) ==
    IF Depth(text, n) = 0 THEN r.start = 0 /\ Len(r.parts) = Rank(text, n)
    ELSE /\ r.start \in Outer(text) /\ r.start <= n
         /\ \A k \in r.start..n : Depth(text, k) # 0
         /\ \A o \in Outer(text) : o <= n => o <= r.start
         /\ Len(r.parts) + 1 = Rank(text, n) /\ Rank(text, r.start) = Rank(text, n)
Before(text, n, r) ==
    \A i \in Outer(text), j \in 1..n :
        Closes(text, i, j) =>
            /\ Rank(text, i) \in 1..Len(r.parts)
            /\ r.parts[Rank(text, i)] = SubSeq(text, i + 1, j - 1)

(* An outer bracket opens at depth 0.                                      *)
LEMMA OuterIs ==
    ASSUME NEW text \in Seq(STRING), NEW n \in Nat, n + 1 <= Len(text)
    PROVE  n + 1 \in Outer(text) <=> text[n + 1] = "{" /\ Depth(text, n) = 0
<1>1. n + 1 \in DOMAIN text /\ (n + 1) - 1 = n
  BY LenProperties
<1>2. QED
  BY <1>1 DEF Outer

(* A step of the loop keeps both, as long as the brackets balance.         *)
LEMMA PartsGrow ==
    ASSUME NEW text \in Seq(STRING), Balanced(text), NEW n \in Nat, n + 1 <= Len(text),
           NEW r \in SplitStates, NEW r2, SplitMove(text, n + 1, r, r2),
           r.open = Depth(text, n), Inside(text, n, r), Before(text, n, r)
    PROVE  Inside(text, n + 1, r2) /\ Before(text, n + 1, r2)
<1> DEFINE m == n + 1
           D == Depth(text, n)
           D2 == Depth(text, m)
<1>1. /\ D \in Int /\ D2 \in Int /\ Rank(text, n) \in Nat /\ m \in Nat
      /\ Len(r.parts) \in Nat /\ r2 \in SplitStates /\ r.start \in Nat
      /\ m \in 1..Len(text) /\ D2 >= 0 /\ D >= 0
  <2>1. D \in Int /\ D2 \in Int /\ Rank(text, n) \in Nat
    <3>1. m \in Nat
      OBVIOUS
    <3>2. \A i \in Nat : Depth(text, i) \in Int
      BY DepthMoves
    <3>3. QED
      BY <3>1, <3>2, RankGrows
  <2>2. r2 \in SplitStates
    BY DEF SplitMove
  <2>3. Len(r.parts) \in Nat /\ r.start \in Nat
    BY LenProperties DEF SplitStates, Pieces
  <2>4. Len(text) \in Nat /\ DOMAIN text = 1..Len(text)
    BY LenProperties
  <2>5. m \in 1..Len(text)
    BY <2>4
  <2>6. D2 >= 0
    BY <2>4, <2>5 DEF Balanced
  <2>7. D >= 0
    <3>1. CASE n = 0
      <4>1. Depth(text, 0) = 0
        BY DepthMoves
      <4>2. QED
        BY <3>1, <4>1
    <3>2. CASE n # 0
      <4>1. n \in DOMAIN text
        BY <2>4, <2>5, <3>2
      <4>2. QED
        BY <4>1 DEF Balanced
    <3>3. QED
      BY <3>1, <3>2
  <2>8. QED
    BY <2>1, <2>2, <2>3, <2>5, <2>6, <2>7
<1>2. /\ text[m] = "{" => D2 = D + 1
      /\ text[m] = "}" => D2 = D - 1
      /\ text[m] \notin {"{", "}"} => D2 = D
  BY DepthMoves
<1>3. m \in Outer(text) <=> text[m] = "{" /\ D = 0
  BY <1>1, OuterIs
<1>4. /\ m \in Outer(text) => Rank(text, m) = Rank(text, n) + 1
      /\ m \notin Outer(text) => Rank(text, m) = Rank(text, n)
  BY RankGrows
<1>5. \A k \in Nat : k <= m <=> k <= n \/ k = m
  OBVIOUS
<1>6. Outer(text) \subseteq Nat \ {0}
  <2>1. DOMAIN text = 1..Len(text) /\ Len(text) \in Nat
    BY LenProperties
  <2>2. Outer(text) \subseteq DOMAIN text
    BY DEF Outer
  <2>3. \A i \in 1..Len(text) : i \in Nat \ {0}
    BY <2>1
  <2>4. QED
    BY <2>1, <2>2, <2>3
(* A part that closes later than here or not at all closes nothing now.    *)
<1>7. ASSUME D2 # 0 \/ D = 0, r2.parts = r.parts PROVE Before(text, m, r2)
  <2>1. SUFFICES ASSUME NEW i \in Outer(text), NEW j \in 1..m, Closes(text, i, j)
                 PROVE  /\ Rank(text, i) \in 1..Len(r.parts)
                        /\ r.parts[Rank(text, i)] = SubSeq(text, i + 1, j - 1)
    BY <1>7 DEF Before
  <2>2. j # m
    <3>1. SUFFICES ASSUME j = m PROVE FALSE
      OBVIOUS
    <3>2. D2 = 0 /\ n \in i..(m - 1)
      BY <1>1, <1>6, <2>1, <3>1 DEF Closes
    <3>3. D # 0
      BY <2>1, <3>1, <3>2 DEF Closes
    <3>4. QED
      BY <1>7, <3>2, <3>3
  <2>3. j \in 1..n
    BY <2>2
  <2>4. QED
    BY <2>1, <2>3 DEF Before
<1>8. CASE text[m] = "{"
  <2>1. r2.parts = r.parts /\ r2.start = (IF D = 0 THEN m ELSE r.start) /\ D2 = D + 1
    BY <1>2, <1>8 DEF SplitMove
  <2>2. Len(r2.parts) = Len(r.parts)
    BY <2>1
  <2>3. D2 # 0
    BY <1>1, <2>1
  <2>4. CASE D = 0
    <3>1. m \in Outer(text) /\ Rank(text, m) = Rank(text, n) + 1 /\ r2.start = m
      BY <1>3, <1>4, <1>8, <2>1, <2>4
    <3>2. Len(r.parts) = Rank(text, n)
      BY <2>4 DEF Inside
    <3>3. \A k \in m..m : Depth(text, k) # 0
      BY <1>1, <2>3
    <3>4. Inside(text, m, r2)
      BY <1>1, <2>2, <2>3, <3>1, <3>2, <3>3 DEF Inside
    <3>5. QED
      BY <1>7, <2>1, <2>3, <3>4
  <2>5. CASE D # 0
    <3>1. m \notin Outer(text) /\ Rank(text, m) = Rank(text, n) /\ r2.start = r.start
      <4>1. m \notin Outer(text)
        BY <1>3, <2>5
      <4>2. QED
        BY <1>4, <2>1, <2>5, <4>1
    <3>2. /\ r.start \in Outer(text) /\ r.start <= n
          /\ \A k \in r.start..n : Depth(text, k) # 0
          /\ \A o \in Outer(text) : o <= n => o <= r.start
          /\ Len(r.parts) + 1 = Rank(text, n) /\ Rank(text, r.start) = Rank(text, n)
      BY <2>5 DEF Inside
    <3>3. r.start <= m /\ \A k \in r.start..m : Depth(text, k) # 0
      BY <1>1, <1>5, <2>3, <3>2
    <3>4. \A o \in Outer(text) : o <= m => o <= r.start
      BY <1>5, <1>6, <3>1, <3>2
    <3>5. Inside(text, m, r2)
      BY <2>2, <2>3, <3>1, <3>2, <3>3, <3>4 DEF Inside
    <3>6. QED
      BY <1>7, <2>1, <2>3, <3>5
  <2>6. QED
    BY <2>4, <2>5
<1>9. CASE text[m] = "}"
  <2>1. D2 = D - 1 /\ D # 0 /\ m \notin Outer(text) /\ Rank(text, m) = Rank(text, n)
    <3>1. D2 = D - 1 /\ text[m] # "{"
      BY <1>2, <1>9
    <3>2. D2 = D - 1 /\ D2 >= 0 /\ D \in Int
      BY <1>1, <3>1
    <3>3. D # 0
      BY <3>2
    <3>4. m \notin Outer(text)
      BY <1>3, <3>1
    <3>5. QED
      BY <1>4, <3>2, <3>3, <3>4
  <2>2. /\ r.start \in Outer(text) /\ r.start <= n
        /\ \A k \in r.start..n : Depth(text, k) # 0
        /\ \A o \in Outer(text) : o <= n => o <= r.start
        /\ Len(r.parts) + 1 = Rank(text, n) /\ Rank(text, r.start) = Rank(text, n)
    BY <2>1 DEF Inside
  <2>3. r.start # 0
    BY <1>6, <2>2
  <2>4. CASE D = 1
    <3> DEFINE part == SubSeq(text, r.start + 1, m - 1)
    <3>1. r2.start = 0 /\ r2.parts = Append(r.parts, part)
      BY <1>9, <2>3, <2>4 DEF SplitMove
    <3>2. part \in Seq(STRING)
      <4>1. \A k \in (r.start + 1)..(m - 1) : k \in 1..Len(text)
        BY <1>1, LenProperties
      <4>2. \A k \in (r.start + 1)..(m - 1) : text[k] \in STRING
        BY <4>1, ElementOfSeq
      <4>3. r.start + 1 \in Int /\ m - 1 \in Int
        BY <1>1
      <4>4. QED
        BY <4>2, <4>3, SubSeqProperties
    <3> HIDE DEF part
    <3>3. /\ Len(r2.parts) = Len(r.parts) + 1
          /\ \A k \in 1..Len(r.parts) : r2.parts[k] = r.parts[k]
          /\ r2.parts[Len(r.parts) + 1] = part
      <4>1. r.parts \in Seq(Seq(STRING))
        BY DEF SplitStates, Pieces
      <4>2. QED
        BY <3>1, <3>2, <4>1, AppendProperties
    <3>4. D2 = 0 /\ Inside(text, m, r2)
      <4>1. D2 = 0
        BY <2>1, <2>4
      <4>2. QED
        BY <2>1, <2>2, <3>1, <3>3, <4>1 DEF Inside
    <3>5. ASSUME NEW i \in Outer(text), NEW j \in 1..m, Closes(text, i, j)
          PROVE  /\ Rank(text, i) \in 1..Len(r2.parts)
                 /\ r2.parts[Rank(text, i)] = SubSeq(text, i + 1, j - 1)
      <4>1. CASE j = m
        <5>1. i \in Nat /\ i <= n
          BY <1>6, <3>5, <4>1 DEF Closes
        <5>2. i <= r.start
          BY <2>2, <5>1
        <5>3. i = r.start
          <6>1. SUFFICES ASSUME i < r.start PROVE FALSE
            BY <1>1, <5>1, <5>2
          <6>2. r.start - 1 \in i..(m - 1)
            BY <1>1, <2>2, <5>1, <6>1
          <6>3. Depth(text, r.start - 1) = 0
            BY <2>2 DEF Outer
          <6>4. QED
            BY <3>5, <4>1, <6>2, <6>3 DEF Closes
        <5>4. Rank(text, i) = Len(r.parts) + 1
          BY <2>2, <5>3
        <5>5. Rank(text, i) \in 1..Len(r2.parts) /\ r2.parts[Rank(text, i)] = part
          BY <1>1, <3>3, <5>4
        <5>6. QED
          BY <4>1, <5>3, <5>5 DEF part
      <4>2. CASE j # m
        <5>1. j \in 1..n
          BY <4>2
        <5>2. /\ Rank(text, i) \in 1..Len(r.parts)
              /\ r.parts[Rank(text, i)] = SubSeq(text, i + 1, j - 1)
          BY <3>5, <5>1 DEF Before
        <5>3. Rank(text, i) \in 1..Len(r2.parts)
          BY <1>1, <3>3, <5>2
        <5>4. QED
          BY <3>3, <5>2, <5>3
      <4>3. QED
        BY <4>1, <4>2
    <3>6. QED
      BY <3>4, <3>5 DEF Before
  <2>5. CASE D # 1
    <3>1. r2.start = r.start /\ r2.parts = r.parts
      BY <1>9, <2>5 DEF SplitMove
    <3>2. D2 # 0
      BY <1>1, <2>1, <2>5
    <3>3. r.start <= m /\ \A k \in r.start..m : Depth(text, k) # 0
      BY <1>1, <1>5, <2>2, <3>2
    <3>4. \A o \in Outer(text) : o <= m => o <= r.start
      BY <1>5, <1>6, <2>1, <2>2
    <3>5. Inside(text, m, r2)
      BY <2>1, <2>2, <3>1, <3>2, <3>3, <3>4 DEF Inside
    <3>6. QED
      BY <1>7, <3>1, <3>2, <3>5
  <2>6. QED
    BY <2>4, <2>5
<1>10. CASE text[m] \notin {"{", "}"}
  <2>1. /\ r2.start = r.start /\ r2.parts = r.parts /\ D2 = D
        /\ m \notin Outer(text) /\ Rank(text, m) = Rank(text, n)
    <3>1. text[m] # "{"
      BY <1>10
    <3>2. m \notin Outer(text)
      BY <1>3, <3>1
    <3>3. D2 = D /\ r2 = r
      BY <1>2, <1>10 DEF SplitMove
    <3>4. QED
      BY <1>4, <3>2, <3>3
  <2>2. Before(text, m, r2)
    BY <1>7, <2>1
  <2>3. CASE D = 0
    BY <2>1, <2>2, <2>3 DEF Inside
  <2>4. CASE D # 0
    <3>1. /\ r.start \in Outer(text) /\ r.start <= n
          /\ \A k \in r.start..n : Depth(text, k) # 0
          /\ \A o \in Outer(text) : o <= n => o <= r.start
          /\ Len(r.parts) + 1 = Rank(text, n) /\ Rank(text, r.start) = Rank(text, n)
      BY <2>4 DEF Inside
    <3>2. r.start <= m /\ \A k \in r.start..m : Depth(text, k) # 0
      BY <1>1, <1>5, <2>1, <2>4, <3>1
    <3>3. \A o \in Outer(text) : o <= m => o <= r.start
      BY <1>5, <1>6, <2>1, <3>1
    <3>4. Inside(text, m, r2)
      BY <2>1, <2>4, <3>1, <3>2, <3>3 DEF Inside
    <3>5. QED
      BY <2>2, <3>4
  <2>5. QED
    BY <2>3, <2>4
<1>11. QED
  BY <1>8, <1>9, <1>10

(* Any text is split as its reference says.                                *)
LEMMA SplitsRight ==
    ASSUME NEW text \in Seq(STRING)
    PROVE  SplitRight(text)
<1> DEFINE at == SplittingOf(text)
           L == Len(text)
<1>1. L \in Nat /\ DOMAIN text = 1..L /\ L \in 0..L
  BY LenProperties
<1>2. Split(text) = at[L] /\ Split(text).open = Depth(text, L)
  BY <1>1, SplitsAlong
<1>3. ASSUME Balanced(text) PROVE Inside(text, L, at[L]) /\ Before(text, L, at[L])
  <2> DEFINE Knows(n) == Inside(text, n, at[n]) /\ Before(text, n, at[n])
             T == {n \in Nat : n <= L => Knows(n)}
  <2> HIDE DEF at
  <2>1. 0 \in T
    <3>1. at[0] = SplitFirst /\ Depth(text, 0) = 0 /\ Rank(text, 0) = 0
      BY SplitsAlong, DepthMoves, RankGrows DEF at
    <3>2. Len(SplitFirst.parts) = 0 /\ SplitFirst.start = 0
      BY DEF SplitFirst
    <3>3. Inside(text, 0, at[0])
      BY <3>1, <3>2 DEF Inside
    <3>4. Before(text, 0, at[0])
      BY DEF Before
    <3>5. QED
      BY <3>3, <3>4
  <2>2. ASSUME NEW n \in Nat, n \in T PROVE n + 1 \in T
    <3>1. SUFFICES ASSUME n + 1 <= L PROVE Knows(n + 1)
      BY <2>2
    <3>2. n \in 0..L /\ n + 1 \in 1..L /\ (n + 1) - 1 = n
      BY <1>1, <3>1
    <3>3. /\ at[n] \in SplitStates /\ at[n].open = Depth(text, n)
          /\ at[n + 1] = SplitStep(text, at[n], n + 1)
      <4>1. \A k \in 1..L : at[k] = SplitStep(text, at[k - 1], k)
        BY SplitsAlong DEF at
      <4>2. at[n] \in SplitStates /\ at[n].open = Depth(text, n)
        BY <3>2, SplitsAlong DEF at
      <4>3. QED
        BY <3>2, <4>1, <4>2
    <3>4. SplitMove(text, n + 1, at[n], at[n + 1])
      BY <3>2, <3>3, SplitsOn
    <3>5. Knows(n)
      BY <2>2, <3>2
    <3> DEFINE r == at[n]
               r2 == at[n + 1]
    <3>6. /\ r \in SplitStates /\ r.open = Depth(text, n) /\ SplitMove(text, n + 1, r, r2)
          /\ Inside(text, n, r) /\ Before(text, n, r)
      BY <3>3, <3>4, <3>5
    <3> HIDE DEF r, r2
    <3>7. Inside(text, n + 1, r2) /\ Before(text, n + 1, r2)
      BY <1>3, <3>1, <3>6, PartsGrow
    <3>8. QED
      BY <3>7 DEF r2
  <2>3. \A n \in Nat : n \in T
    <3> HIDE DEF T
    <3>1. QED
      BY <2>1, <2>2, CountedUp
  <2>4. QED
    BY <1>1, <2>3
<1>4. ASSUME Balanced(text)
      PROVE  Split(text).open = 0 /\ PartsOf(text, Split(text).parts)
  <2>1. Depth(text, L) = 0
    BY <1>4 DEF Balanced
  <2>2. Inside(text, L, at[L]) /\ Before(text, L, at[L])
    BY <1>3, <1>4
  <2> HIDE DEF at
  <2>3. Len(at[L].parts) = Cardinality(Outer(text))
    BY <2>1, <2>2, RankGrows DEF Inside
  <2>4. QED
    BY <1>1, <1>2, <2>1, <2>2, <2>3 DEF Before, PartsOf, Rank
<1>5. QED
  BY <1>2, <1>4 DEF SplitRight

-----------------------------------------------------------------------------
(* The inputs stand still.                                                 *)
LEMMA InputStays == InputSpec => [](input \in Inputs \cup {NoInput})
<1> DEFINE I == input \in Inputs \cup {NoInput}
<1>1. InputInit => I
  BY DEF InputInit
<1>2. I /\ [InputNext]_<<vars, input>> => I'
  BY DEF InputNext
<1>3. QED
  BY <1>1, <1>2, PTL DEF InputSpec

(* What kind an input is of says where it comes from.                      *)
LEMMA InputIs ==
    ASSUME input \in Inputs \cup {NoInput}
    PROVE  /\ input.of = "dimensions" => input.is \in Configs
           /\ input.of = "parameter" => input.is \in Details /\ Accepted(input.is)
           /\ input.of = "text" => input.is \in Texts
           /\ input.of = "ranges" => input.is \in Ranges
BY DEF Inputs, NoInput

(* For any dimensions, at most three, and any addresses that are sent:     *)
(* exactly the declared addresses have a value, every value answers with   *)
(* its own address, and Get reads them all.                                *)
THEOREM AddressesAreExactHolds == InputSpec => []AddressesAreExact
<1>1. input \in Inputs \cup {NoInput} => AddressesAreExact
  <2>1. SUFFICES ASSUME input \in Inputs \cup {NoInput}, input.of = "dimensions"
                 PROVE  AddressedExactly(input.is, Sent)
    BY DEF AddressesAreExact
  <2>2. input.is \in Seq(Dimension) /\ Len(input.is) <= MaxDimensions
    BY <2>1, InputIs, InputsAssumption
  <2>3. Sent \in SUBSET Seq(Nat)
    BY InputsAssumption
  <2>4. QED
    BY <2>2, <2>3, AddressesExactly
<1>2. QED
  BY <1>1, InputStays, PTL

(* What passes the checks satisfies what the theorems about the parameter  *)
(* manager assume of a parameter, and it has values.                       *)
THEOREM AcceptedIsManageableHolds == InputSpec => []AcceptedIsManageable
<1>1. input \in Inputs \cup {NoInput} => AcceptedIsManageable
  <2>1. SUFFICES ASSUME input \in Inputs \cup {NoInput}, input.of = "parameter"
                 PROVE  Manageable(input.is)
    BY DEF AcceptedIsManageable
  <2> DEFINE x == input.is
  <2>2. /\ Accepted(x) /\ x.control \in Controls /\ x.feedback \in Feedbacks
        /\ {x.retries, x.delay, x.step, x.threshold, x.fineSteps} \subseteq Nat
        /\ {x.minimum, x.maximum, x.stepsLower, x.stepsUpper} \subseteq Int
        /\ x.dimensions \in Seq(Dimension)
    BY <2>1, InputIs, InputsAssumption
  <2> HIDE DEF x
  <2>3. Managed(x)!ConfigAssumption
    BY <2>2, ChecksAreAssumed
  <2>4. /\ Len(x.dimensions) <= MaxDimensions
        /\ \A i \in DOMAIN x.dimensions :
               x.dimensions[i].count # 0 \/ x.dimensions[i].labels # {}
    BY <2>2 DEF Accepted, Validated, Registrable, DimensionsHaveElements
  <2>5. GetValues(GenerateDimensions(x.dimensions)) # {}
    BY <2>2, <2>4, ValuesExist
  <2>6. QED
    BY <2>3, <2>5 DEF Manageable, x
<1>2. QED
  BY <1>1, InputStays, PTL

(* A fine step of any accepted parameter leaves the acceptance threshold.  *)
THEOREM FineStepsAreSentHolds == InputSpec => []FineStepsAreSent
<1>1. input \in Inputs \cup {NoInput} => FineStepsAreSent
  <2>1. SUFFICES ASSUME input \in Inputs \cup {NoInput}, input.of = "parameter"
                 PROVE  FineStepsMove(input.is)
    BY DEF FineStepsAreSent
  <2> DEFINE x == input.is
  <2>2. Accepted(x) /\ {x.retries, x.delay, x.step, x.threshold, x.fineSteps} \subseteq Nat
    BY <2>1, InputIs, InputsAssumption
  <2> HIDE DEF x
  <2>3. FineStepsAreCoarser(x) /\ x.threshold \in Nat /\ x.fineSteps \in Nat
    BY <2>2 DEF Accepted, Validated
  <2>4. FineStepsMove(x)
    BY <2>3, FineStepsAreMoves
  <2>5. QED
    BY <2>4 DEF x
<1>2. QED
  BY <1>1, InputStays, PTL

(* Any text whose brackets balance is valid and split at the outer ones; a *)
(* text with more brackets of one kind is not valid.                       *)
THEOREM TextsSplitRightHolds == InputSpec => []TextsSplitRight
<1>1. input \in Inputs \cup {NoInput} => TextsSplitRight
  BY InputIs, InputsAssumption, SplitsRight DEF TextsSplitRight
<1>2. QED
  BY <1>1, InputStays, PTL

(* Between any two ranges of which one holds the other a whole number of   *)
(* times, the ends meet, the order is kept and no value leaves.            *)
THEOREM RangesFitHolds == InputSpec => []RangesFit
<1>1. input \in Inputs \cup {NoInput} => RangesFit
  <2>1. SUFFICES ASSUME input \in Inputs \cup {NoInput}, input.of = "ranges"
                 PROVE  NormalisesWithin(input.is[1], input.is[2], input.is[3], input.is[4])
    BY DEF RangesFit
  <2>2. input.is \in Int \X Int \X Int \X Int
    BY <2>1, InputIs, InputsAssumption
  <2>3. /\ input.is[1] \in Int /\ input.is[2] \in Int
        /\ input.is[3] \in Int /\ input.is[4] \in Int
    BY <2>2
  <2>4. QED
    BY <2>3, Normalising
<1>2. QED
  BY <1>1, InputStays, PTL
=============================================================================
