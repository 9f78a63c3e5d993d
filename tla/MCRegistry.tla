----------------------------- MODULE MCRegistry -----------------------------
(* Instances of Registry and of its inputs for TLC.                        *)
EXTENDS RegistryInputs, TLC

CONSTANTS c1, c2
CallersAlike == Permutations(Callers)

HashTable == [n \in Names |-> CASE n = "connection" -> 11 [] n = "link" -> 12 [] n = "gain" -> 13]

Decl(m, n, i, o) == [model |-> m, name |-> n, id |-> i, options |-> o]

(* One parameter declared for all models or, with ids of their own, for    *)
(* two of them, and a connection state for all or for one.                 *)
Declared == {
    Decl(0, "gain", 0, <<"exclude">>),
    Decl(1, "gain", 5, <<"smooth", "valid">>),
    Decl(2, "gain", 6, <<"unavailable">>),
    Decl(0, "link", 0, << >>),
    Decl(1, "link", 0, << >>)}

Sequences3(S, n) == UNION {[1..k -> S] : k \in 0..n}

SmallDimensions == {d \in [count: 0..2, labels: SUBSET {0, 2, 7}] :
                        d.count + Cardinality(d.labels) \in 1..3}
SomeConfigs == Sequences3(SmallDimensions, 2)
SomeAddresses == Sequences3({0, 1, 2, 3, 7}, 3)

SomeDetails ==
    [control: Controls, feedback: Feedbacks, type: {"Integer", "Opt", "NoValue"},
     retries: 0..1, delay: 0..1, stepsLower: {-1, 0}, stepsUpper: {0, 1},
     step: 0..1, threshold: 0..2, fineSteps: 0..2, minimum: {0}, maximum: 0..1,
     options: 0..1, optionsDynamic: {FALSE}, expo: {"none"}, precision: {FALSE},
     default: {"none", "Opt"}, dimensions: {<< >>, <<[count |-> 0, labels |-> {}]>>,
                                            <<[count |-> 1, labels |-> {}]>>}]

SomeTexts == Sequences3({"{", "}", "a"}, 6)

SomeRanges ==
    {<<low, low + width, newLow, newLow + newWidth>> :
        low \in -2..1, newLow \in -2..1, width \in 1..6, newWidth \in 1..6}
=============================================================================
