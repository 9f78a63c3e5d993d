---------------------------- MODULE DeviceOrder ----------------------------
(* What the worker pool promises for each device: its messages of one kind *)
(* are handled one by one in the order they were accepted, none is lost or *)
(* handled twice, and no two messages of a device are handled at a time.   *)
EXTENDS Naturals

CONSTANTS Devices, Kinds

VARIABLES
    accepted,  \* accepted[d][k]: messages of kind k accepted for device d
    begun,     \* begun[d][k]: how many of them a handler was started for
    running    \* running[d]: the set of messages of d being handled

vars == <<accepted, begun, running>>

Init ==
    /\ accepted = [d \in Devices |-> [k \in Kinds |-> 0]]
    /\ begun = accepted
    /\ running = [d \in Devices |-> {}]

Accept(d, k) ==
    /\ accepted' = [accepted EXCEPT ![d][k] = @ + 1]
    /\ UNCHANGED <<begun, running>>

Begin(d, k) ==
    /\ running[d] = {}
    /\ begun[d][k] < accepted[d][k]
    /\ begun' = [begun EXCEPT ![d][k] = @ + 1]
    /\ running' = [running EXCEPT ![d] = {<<k, begun[d][k] + 1>>}]
    /\ UNCHANGED accepted

Finish(d) ==
    /\ running[d] # {}
    /\ running' = [running EXCEPT ![d] = {}]
    /\ UNCHANGED <<accepted, begun>>

Next == \E d \in Devices : Finish(d) \/ \E k \in Kinds : Accept(d, k) \/ Begin(d, k)

Spec == Init /\ [][Next]_vars
=============================================================================
