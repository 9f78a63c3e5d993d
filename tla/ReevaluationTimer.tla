-------------------------- MODULE ReevaluationTimer --------------------------
(***************************************************************************)
(* The re-evaluation timer of one buffer (reevaluateIn and its AfterFunc   *)
(* callback, parameter-manager-process.go).  The callback first posts the  *)
(* event and only then, in a second step, forgets the timer; in between    *)
(* the timer the buffer points to has already fired.                       *)
(*                                                                         *)
(* tracked: reEvaluationTimer # nil          end: ticks until its .end     *)
(* left: ticks until the runtime timer fires, Off when it is not armed     *)
(* firing: callbacks between their two steps                               *)
(* strays: armed timers no buffer points to; they may fire at any moment   *)
(***************************************************************************)
EXTENDS Integers

Off == -1

Wakeup == [tracked : BOOLEAN, end : Nat, left : Nat \cup {Off}, firing : Nat, strays : Nat]

NoWakeup == [tracked |-> FALSE, end |-> 0, left |-> Off, firing |-> 0, strays |-> 0]

Armed(w) == w.left # Off \/ w.strays > 0

(* reevaluateIn: the earlier deadline stays; Reset moves the firing but    *)
(* not .end.  The 100 microseconds of t = 0 are the shortest delay, a tick.*)
Schedule(w, t) ==
    LET delay == IF t = 0 THEN 1 ELSE t
    IN IF ~w.tracked THEN [w EXCEPT !.tracked = TRUE, !.end = delay, !.left = delay]
       ELSE IF delay > w.end THEN w
       ELSE [w EXCEPT !.left = delay]

(* Stop and forget; a callback that already runs is not stopped.           *)
CancelHalf(w) == [w EXCEPT !.left = Off]  \* mutant: stopped, not forgotten
Cancel(w) == [w EXCEPT !.tracked = FALSE, !.end = 0, !.left = Off]

Due(w) == w.left = 0
StrayDue(w) == w.strays > 0

(* First half of the callback: the timer has fired, the event is posted.   *)
Fired(w) == [w EXCEPT !.left = Off, !.firing = @ + 1]
StrayFired(w) == [w EXCEPT !.strays = @ - 1, !.firing = @ + 1]

(* Second half: reEvaluationTimer = nil, whatever timer it is by now.      *)
Forgotten(w) ==
    [Cancel(w) EXCEPT !.firing = @ - 1, !.strays = IF w.left # Off THEN @ + 1 ELSE @]

Elapsed(w) ==
    [w EXCEPT !.end = IF @ > 0 THEN @ - 1 ELSE 0,
              !.left = IF @ > 0 THEN @ - 1 ELSE @]
=============================================================================
