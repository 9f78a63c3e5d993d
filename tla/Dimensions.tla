----------------------------- MODULE Dimensions -----------------------------
(* The dimensions of a parameter: the tree of value buffers that is built  *)
(* from their declaration, how a value is addressed in it, and what Get    *)
(* reads from it.  A buffer is reduced to the address it sends with its    *)
(* values.                                                                 *)
EXTENDS Naturals, Sequences, Functions

(* A dimension has the elements 1 to Count and those that have a label.    *)
ElementIds(dimension) == 1..dimension.count \cup dimension.labels

(* A path names an element of each of the first n dimensions.              *)
PathsTo(config, n) ==
    {a \in [1..n -> UNION {ElementIds(config[i]) : i \in 1..n}] :
        \A i \in 1..n : a[i] \in ElementIds(config[i])}
Paths(config) == UNION {PathsTo(config, n) : n \in 0..Len(config)}

Buffer(address) == [address |-> address]
Missing == [missing |-> TRUE]
IsValue(tree) == "address" \in DOMAIN tree
IsSplit(tree) == "sub" \in DOMAIN tree

(* Broken: elements of the deeper dimensions forget the ones above.        *)
GenerateForgetting(config) ==
    LET below[a \in Paths(config)] ==
            IF Len(a) = Len(config)
              THEN Buffer([i \in DOMAIN a \cap {1} |-> a[Len(a)]])
              ELSE [sub |-> [id \in ElementIds(config[Len(a) + 1]) |-> below[Append(a, id)]]]
    IN  below[<< >>]

(* generateDimensions: what is below a path.  A nil dimension, which it    *)
(* would treat as the end, has made RegisterParameter panic before.        *)
GenerateDimensions(config) ==
    LET below[a \in Paths(config)] ==
            IF Len(a) = Len(config)
              THEN Buffer(a)
              ELSE [sub |-> [id \in ElementIds(config[Len(a) + 1]) |-> below[Append(a, id)]]]
    IN  below[<< >>]

Index(tree, id) == IF IsSplit(tree) /\ id \in DOMAIN tree.sub THEN tree.sub[id] ELSE Missing

(* multiIndex finds whatever is at an address, multiIndexHasValue says     *)
(* whether that is a buffer.                                               *)
MultiIndex(tree, address) ==
    LET at[n \in 0..Len(address)] == IF n = 0 THEN tree ELSE Index(at[n - 1], address[n])
    IN  at[Len(address)]
HasValueAt(tree, address) == IsValue(MultiIndex(tree, address))

(* getValues, without a filter, as all its callers call it: down to the    *)
(* values, at most three levels deep (Registrable).                        *)
MaxDimensions == 3
Below(trees) == UNION {IF IsSplit(t) THEN Range(t.sub) ELSE {t} : t \in trees}
GetValues(tree) == {t.address : t \in Below(Below(Below({tree})))}

-----------------------------------------------------------------------------
(* The reference: an address names one element of every dimension.         *)
Addresses(config) == PathsTo(config, Len(config))

(* For one declaration and a set of addresses a client may send: exactly   *)
(* the declared addresses have a value, each value carries the address it  *)
(* is found at, and Get reads every one of them.                           *)
AddressedExactly(config, sent) ==
    LET tree == GenerateDimensions(config) IN
    /\ \A a \in sent : HasValueAt(tree, a) <=> a \in Addresses(config)
    /\ \A a \in Addresses(config) : MultiIndex(tree, a).address = a
    /\ GetValues(tree) = Addresses(config)
=============================================================================
