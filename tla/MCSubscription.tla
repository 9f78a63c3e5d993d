--------------------------- MODULE MCSubscription ---------------------------
(* Instances of Subscription for TLC.                                      *)
EXTENDS Subscription

CONSTANTS s1, s2, none

p == <<1, 1>>
OneParam == {p}
Listed == {<<p>>}
Everything == {<<>>}
NoStatus == {}
=============================================================================
