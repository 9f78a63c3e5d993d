----------------------------- MODULE MCFilters -----------------------------
(* Scenes of Subscription, each a part of its behaviours: the filters of   *)
(* two overlapping calls while parameters change, and the statuses of      *)
(* several kinds shown to one client.                                      *)
EXTENDS Subscription

CONSTANTS s1, s2, client, none

VARIABLE scene

p == <<1, 1>>
q == <<2, 1>>
unknown == <<2, 9>>
Known == {p, q}
Requested == {p, q, unknown}

(* Everything, one device, lists, and a list that Get refuses.             *)
Mixed == {<<>>, <<<<1, 0>>>>, <<q, unknown>>, <<p, <<1, 0>>>>}
(* The parameter with the statuses, and the other device.                  *)
Narrow == {<<p>>, <<<<2, 0>>>>}
AllFilters == Mixed \cup Narrow

(* Statuses of a device, one a prefix of another, and of its parameter.    *)
Nested == {[id |-> <<1, 0>>, name |-> <<"net">>],
           [id |-> <<1, 0>>, name |-> <<"net", "work">>],
           [id |-> <<1, 1>>, name |-> <<"net">>]}
(* A status of a parameter that changes its severity, and a global one.    *)
Escalated == {[id |-> <<1, 1>>, name |-> <<"net">>],
              [id |-> <<0, 0>>, name |-> <<"net">>]}
AllStatuses == Nested \cup Escalated

(* One client, values that stand still, and some of the statuses.          *)
Notified(filters, statuses, severities) ==
    /\ UNCHANGED value
    /\ \A s \in Sessions : call'[s] # Idle =>
           s = s1 /\ call'[s].header = <<>> /\ call'[s].filter \in filters
    /\ \A k \in Keys : active'[k] # "none" =>
           k \in {Key(st) : st \in statuses} /\ active'[k] \in severities

Within ==
    CASE scene = "filters" ->
             /\ UNCHANGED active /\ call'[s1].header # <<client>>
             /\ \A s \in Sessions : call'[s].filter \in Mixed
      [] scene = "statuses" -> Notified(Narrow, Nested, {"error"})
      [] scene = "severities" -> Notified({<<p>>}, Escalated, Severities)

MCInit == Init /\ scene \in {"filters", "statuses", "severities"}
MCNext == Next /\ UNCHANGED scene /\ Within
MCSpec == MCInit /\ [][MCNext]_<<vars, scene>>
=============================================================================
