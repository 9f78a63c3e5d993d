-------------------------------- MODULE Feed --------------------------------
(* What a subscription promises its client, whatever goroutines and        *)
(* channels lie between.  Each parameter runs through the versions 1, 2... *)
(* A client is first shown a snapshot, any mixture of versions that were   *)
(* current before; from then on the updates it hears of one parameter      *)
(* strictly advance, and none is invented.  A client whose filter was      *)
(* changed in mid-stream may be shown an old value between two updates.    *)
EXTENDS Naturals

CONSTANTS Sessions, Ids

VARIABLES
    latest,   \* latest[p]: the version of parameter p the core has now
    view,     \* view[s][p]: the version client s saw last, 0 for none
    heard,    \* heard[s][p]: the last update of p that s heard of, 0 for none
    refilled  \* the clients that changed their filter in mid-stream

vars == <<latest, view, heard, refilled>>

Blank == [p \in Ids |-> 0]

Init ==
    /\ latest \in [Ids -> Nat]
    /\ view = [s \in Sessions |-> Blank]
    /\ heard = [s \in Sessions |-> Blank]
    /\ refilled = {}

Publish(p) ==
    /\ latest' = [latest EXCEPT ![p] = @ + 1]
    /\ UNCHANGED <<view, heard, refilled>>

Snapshot(s) ==
    /\ heard[s] = Blank
    /\ view' = [view EXCEPT ![s] = view'[s]]
    /\ \A p \in Ids : view'[s][p] \in {view[s][p]} \cup 0..latest[p]
    /\ UNCHANGED <<latest, heard, refilled>>

Update(s, p) ==
    /\ heard[s][p] < view'[s][p] /\ view'[s][p] <= latest[p]
    /\ view' = [view EXCEPT ![s][p] = view'[s][p]]
    /\ heard' = [heard EXCEPT ![s][p] = view'[s][p]]
    /\ UNCHANGED <<latest, refilled>>

Refill(s) == refilled' = refilled \cup {s} /\ UNCHANGED <<latest, view, heard>>

Reread(s, p) ==
    /\ s \in refilled
    /\ view'[s][p] \in 0..latest[p]
    /\ view' = [view EXCEPT ![s][p] = view'[s][p]]
    /\ UNCHANGED <<latest, heard, refilled>>

Next ==
    \/ \E p \in Ids : Publish(p)
    \/ \E s \in Sessions : \/ Snapshot(s) \/ Refill(s)
                           \/ \E p \in Ids : Update(s, p) \/ Reread(s, p)

Spec == Init /\ [][Next]_vars
=============================================================================
